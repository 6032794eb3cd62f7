-------------------------------- MODULE Limits --------------------------------
(***************************************************************************)
(* Limits_tab (csa_web_limits.cpp): the red and yellow limits of each      *)
(* group, loaded from the tables grp and grp_red_yel row by row under the  *)
(* table's lock, and the colour that a report gives to a value.            *)
(*                                                                         *)
(* EntityTables has a reload as two steps and leaves the limits out; this  *)
(* module has the loops over the result sets, the counter they run on and  *)
(* the limits.  A thread makes one call at a time.                         *)
(***************************************************************************)
EXTENDS Integers, Sequences

CONSTANTS
  Threads,      \* the pool threads
  Free,         \* nobody holds the lock
  GroupIds,     \* groups
  Indices,      \* positions in the vectors that rows and lookups name
  GroupResults, \* results of the select on grp
  LimitResults, \* results of the select on grp_red_yel
  Lookups,      \* the colours that reports ask for
  Word,         \* values of an unsigned long
  CountWord,    \* values of an unsigned short
  MaxGroup      \* MAX_GROUP_NUMBER

NotInUse == [red |-> 0, yellow |-> 0, inUse |-> FALSE]

Values == 0 .. Word - 1

(* (int) of an unsigned long. *)
Signed(value) == IF 2 * value >= Word THEN value - Word ELSE value

LimitOf(red, yellow) == [red |-> Signed(red), yellow |-> Signed(yellow), inUse |-> TRUE]

AllLimits == {NotInUse} \cup {LimitOf(r, y) : r \in Values, y \in Values}

(* A row of grp; of one that is not ok some column cannot be read. *)
GroupRows == [group : GroupIds, ok : BOOLEAN]

(* A row of grp_red_yel. *)
LimitRows == [group : GroupIds, ers : Nat, red : Values, yellow : Values, ok : BOOLEAN]

(* A result set: the rows Next() delivers and what GetRecordCount says.    *)
(* One whose select fails, or whose Next() fails before the end, delivers  *)
(* fewer than it counts.                                                   *)
ResultSets(rows) == [rows : Seq(rows), count : Nat]

VectorNames == {"state", "ers"}
Cells == [vector : VectorNames, group : GroupIds, index : Indices]

(* Init_ErsIdLookUpList: the statistics with limits, by their db_ers_id.   *)
(* The others have lim_type None.                                          *)
UpLimits ==
  {4, 5, 6, 7, 15, 19, 20, 21, 26, 27, 28, 30, 31, 32, 37, 38, 39, 41, 46, 56, 57,
   59, 60, 62, 64, 67, 68, 69, 70, 72, 76, 77, 84, 98, 117, 131, 132, 141, 142, 152,
   153, 177, 179, 197, 198, 199, 200} \cup 207 .. 229 \cup
  {245, 246, 247} \cup 250 .. 260 \cup
  {264, 335, 336, 338, 339, 343, 344, 346, 352, 355, 357, 359, 406, 407, 409, 421,
   422, 424, 440, 443, 448, 450, 452}
DownLimits == {14, 17, 22, 25, 36, 82, 93, 102}

(* GetColorOfERS has its limits at db_ers_id, GetColorOfSTATE at sca_state. *)
CellOf(k) == [vector |-> k.vector, group |-> k.group, index |-> k.index]

ASSUME LimitsAssumption ==
  /\ Free \notin Threads
  /\ Threads # {}
  /\ GroupIds \subseteq Nat
  /\ Indices \subseteq 0 .. 479
  /\ Word \in Nat \ {0}
  /\ CountWord \in Nat \ {0, 1}
  /\ MaxGroup \in Nat
  /\ GroupResults \subseteq ResultSets(GroupRows)
  /\ LimitResults \subseteq ResultSets(LimitRows)
  /\ Lookups \subseteq [vector : VectorNames, group : GroupIds, index : Indices,
                        db_ers_id : Nat, value : Values]
  /\ \A k \in Lookups : k.vector = "ers" => k.index = k.db_ers_id

VARIABLES
  lock,     \* who holds the lock of the table
  vectors,  \* groups with a vector in STATE_Limits_tab and in ERS_Limits_tab
  limit,    \* the entries of the vectors
  grp,      \* result set of Init_LimitsByGroups, kept for the properties
  red_yel,  \* result set of LoadLimits, kept for the properties
  at,       \* rows of the current one that have been fetched
  left,     \* left_records_num
  pc,       \* what a thread does next
  asked,    \* the colour it looks up, or the group it verifies
  reply     \* what a lookup returns, with *bg_color

table == <<lock, vectors, limit>>
load  == <<grp, red_yel, at, left>>
call  == <<pc, asked, reply>>
vars  == <<table, load, call>>

-----------------------------------------------------------------------------
Pcs == {"idle", "verify", "reload", "unload", "groups", "limits", "unlock",
        "colour", "answered"}
Colours == {"WHITE", "YELLOW", "RED"}
Nothing == [rows |-> <<>>, count |-> 0]
NoReply == [rv |-> 0, colour |-> "WHITE"]

TypeOK ==
  /\ lock \in Threads \cup {Free}
  /\ vectors \in SUBSET GroupIds
  /\ limit \in [Cells -> AllLimits]
  /\ grp \in GroupResults \cup {Nothing}
  /\ red_yel \in LimitResults \cup {Nothing}
  /\ at \in Nat
  /\ left \in 0 .. CountWord - 1
  /\ pc \in [Threads -> Pcs]
  /\ asked \in [Threads -> Lookups \cup [group : GroupIds] \cup {Free}]
  /\ reply \in [Threads -> [rv : {0, 1}, colour : Colours]]

(* The constructor has found an empty database. *)
Init ==
  /\ lock = Free
  /\ vectors = {}
  /\ limit = [c \in Cells |-> NotInUse]
  /\ grp = Nothing
  /\ red_yel = Nothing
  /\ at = 0
  /\ left = 0
  /\ pc = [t \in Threads |-> "idle"]
  /\ asked = [t \in Threads |-> Free]
  /\ reply = [t \in Threads |-> NoReply]

Goto(t, label) == pc' = [pc EXCEPT ![t] = label]

(* A group report verifies a group, a login reloads, a report looks up. *)
Call(t) ==
  /\ pc[t] = "idle"
  /\ \/ \E g \in GroupIds : asked' = [asked EXCEPT ![t] = [group |-> g]] /\ Goto(t, "verify")
     \/ Goto(t, "reload") /\ UNCHANGED asked
     \/ \E k \in Lookups : asked' = [asked EXCEPT ![t] = k] /\ Goto(t, "colour")
  /\ UNCHANGED <<table, load, reply>>

-----------------------------------------------------------------------------
(* Loading. *)

(* Both wait for the lock as long as it takes. *)
VerifyGroupInLimitTab(t) ==
  /\ pc[t] = "verify"
  /\ lock = Free
  /\ lock' = t
  /\ asked' = [asked EXCEPT ![t] = Free]
  /\ Goto(t, IF asked[t].group \in vectors THEN "unlock" ELSE "unload")
  /\ UNCHANGED <<vectors, limit, load, reply>>

ReloadAll(t) ==
  /\ pc[t] = "reload"
  /\ lock = Free
  /\ lock' = t
  /\ Goto(t, "unload")
  /\ UNCHANGED <<vectors, limit, load, asked, reply>>

(* A reload keeps the limits of groups that it loads again. *)
FaultyUnload(t) ==
  /\ pc[t] = "unload"
  /\ \E rs \in GroupResults :
       /\ grp' = rs
       /\ left' = rs.count % CountWord
  /\ at' = 0
  /\ Goto(t, "groups")
  /\ UNCHANGED <<table, red_yel, asked, reply>>

(* UnloadLimitsAndGroups, and the select of Init_LimitsByGroups, whose     *)
(* loop it does not enter with a count of 0.                               *)
UnloadLimitsAndGroups(t) ==
  /\ pc[t] = "unload"
  /\ vectors' = {}
  /\ limit' = [c \in Cells |-> NotInUse]
  /\ \E rs \in GroupResults :
       /\ grp' = rs
       /\ left' = rs.count % CountWord
  /\ at' = 0
  /\ Goto(t, "groups")
  /\ UNCHANGED <<lock, red_yel, asked, reply>>

(* Whether the loop goes on to another row: it is left after a row that    *)
(* can be read, when the counter has come to 0.                            *)
More(rows) == at < Len(rows) /\ (left > 0 \/ (at > 0 /\ ~rows[at].ok))

(* The counter is an int. *)
FaultyCount == left' = left - 1

(* left_records_num--, of an unsigned short. *)
Count == left' = IF left = 0 THEN CountWord - 1 ELSE left - 1

(* A group that cannot be read is not counted. *)
FaultyGroupRow(t) ==
  /\ pc[t] = "groups"
  /\ More(grp.rows)
  /\ at' = at + 1
  /\ LET row == grp.rows[at + 1] IN
       \/ ~row.ok /\ UNCHANGED <<vectors, limit, left>>
       \/ /\ row.ok
          /\ Count
          /\ vectors' = vectors \cup {row.group}
          /\ limit' = [c \in Cells |-> IF c.group = row.group THEN NotInUse ELSE limit[c]]
  /\ UNCHANGED <<lock, grp, red_yel, call>>

(* The body of the loop over grp: new vectors for the group, with no entry *)
(* in use.                                                                 *)
GroupRow(t) ==
  /\ pc[t] = "groups"
  /\ More(grp.rows)
  /\ at' = at + 1
  /\ Count
  /\ LET row == grp.rows[at + 1] IN
       \/ ~row.ok /\ UNCHANGED <<vectors, limit>>
       \/ /\ row.ok
          /\ vectors' = vectors \cup {row.group}
          /\ limit' = [c \in Cells |-> IF c.group = row.group THEN NotInUse ELSE limit[c]]
  /\ UNCHANGED <<lock, grp, red_yel, call>>

(* The outer loop when there are no rows left but the counter is not 0: it *)
(* asks for the next row for ever.                                         *)
Spin(t) ==
  /\ pc[t] = "groups"
  /\ left > 0
  /\ at = Len(grp.rows)
  /\ UNCHANGED vars

(* The end of Init_LimitsByGroups and the select of LoadLimits, which      *)
(* returns when the count is 0.                                            *)
LoadLimits(t) ==
  /\ pc[t] = "groups"
  /\ ~More(grp.rows)
  /\ left = 0
  /\ \E rs \in LimitResults :
       /\ red_yel' = rs
       /\ left' = rs.count % CountWord
  /\ at' = 0
  /\ Goto(t, IF left' = 0 THEN "unlock" ELSE "limits")
  /\ UNCHANGED <<table, grp, asked, reply>>

(* The entry a row is about: those of states are numbered from 1000. *)
Cell(row) ==
  IF row.ers >= 1000
  THEN [vector |-> "state", group |-> row.group, index |-> row.ers - 1000]
  ELSE [vector |-> "ers", group |-> row.group, index |-> row.ers]

(* The body of the loop over grp_red_yel; no cell is beyond entry 479. *)
LimitRow(t) ==
  /\ pc[t] = "limits"
  /\ More(red_yel.rows)
  /\ at' = at + 1
  /\ Count
  /\ LET row == red_yel.rows[at + 1] IN
       limit' = [c \in Cells |->
                   IF row.ok /\ c = Cell(row) /\ c.group \in vectors
                   THEN LimitOf(row.red, row.yellow) ELSE limit[c]]
  /\ UNCHANGED <<lock, vectors, grp, red_yel, call>>

Unlock(t) ==
  /\ pc[t] = "unlock" \/ (pc[t] = "limits" /\ ~More(red_yel.rows))
  /\ lock' = Free
  /\ Goto(t, "idle")
  /\ UNCHANGED <<vectors, limit, load, asked, reply>>

-----------------------------------------------------------------------------
(* Looking up. *)

ColourUp(value, l) ==
  CASE Signed(value) >= l.red -> "RED"
    [] Signed(value) < l.red /\ Signed(value) >= l.yellow -> "YELLOW"
    [] OTHER -> "WHITE"

ColourDown(value, l) ==
  CASE Signed(value) <= l.red -> "RED"
    [] Signed(value) > l.red /\ Signed(value) <= l.yellow -> "YELLOW"
    [] OTHER -> "WHITE"

White(rv) == [rv |-> rv, colour |-> "WHITE"]

(* GetColorOfSTATE (of the first groups only) and GetColorOfERS, with the  *)
(* lock.                                                                   *)
Colour(k) ==
  LET cell == CellOf(k)
  IN  CASE k.vector = "state" /\ k.group >= MaxGroup -> White(0)
        [] ~(k.vector = "state" /\ k.group >= MaxGroup)
           /\ k.db_ers_id \notin UpLimits \cup DownLimits -> White(1)
        [] OTHER ->
             IF k.group \notin vectors THEN White(1)
             ELSE IF ~limit[cell].inUse THEN White(0)
             ELSE [rv |-> 1,
                   colour |-> IF k.db_ers_id \in UpLimits
                              THEN ColourUp(k.value, limit[cell])
                              ELSE ColourDown(k.value, limit[cell])]

(* The colour is looked up without the lock. *)
FaultyGetColor(t) ==
  /\ pc[t] = "colour"
  /\ reply' = [reply EXCEPT ![t] = Colour(asked[t])]
  /\ Goto(t, "answered")
  /\ UNCHANGED <<table, load, asked>>

(* A lookup that does not get the lock in a second is white. *)
GetColor(t) ==
  /\ pc[t] = "colour"
  /\ reply' = [reply EXCEPT ![t] = IF lock = Free THEN Colour(asked[t]) ELSE White(1)]
  /\ Goto(t, "answered")
  /\ UNCHANGED <<table, load, asked>>

Return(t) ==
  /\ pc[t] = "answered"
  /\ asked' = [asked EXCEPT ![t] = Free]
  /\ reply' = [reply EXCEPT ![t] = NoReply]
  /\ Goto(t, "idle")
  /\ UNCHANGED <<table, load>>

-----------------------------------------------------------------------------
Step(t) ==
  \/ VerifyGroupInLimitTab(t) \/ ReloadAll(t) \/ UnloadLimitsAndGroups(t)
  \/ GroupRow(t) \/ LoadLimits(t) \/ LimitRow(t) \/ Unlock(t)
  \/ GetColor(t) \/ Return(t)

Next == \E t \in Threads : Call(t) \/ Spin(t) \/ Step(t)

Spec == Init /\ [][Next]_vars

(* A pool thread is scheduled; the wait for the lock, which polls it       *)
(* without end, finds it free some time if it is free again and again.     *)
Fairness == \A t \in Threads : SF_vars(Step(t))

FairSpec == Spec /\ Fairness

-----------------------------------------------------------------------------
(* The groups whose row could be read, and the last row of an entry. *)
Loaded == {grp.rows[i].group : i \in {j \in 1 .. Len(grp.rows) : grp.rows[j].ok}}

LastRow(c, n) ==
  LET mine == {i \in 1 .. n : red_yel.rows[i].ok /\ Cell(red_yel.rows[i]) = c}
  IN  {i \in mine : \A j \in mine : j <= i}

(* The count of a result set is an unsigned short. *)
Fits(rs) == Len(rs.rows) <= rs.count /\ rs.count < CountWord

(* Whoever gets the lock finds the limits of the last load: a vector for   *)
(* exactly the groups that could be read, and in each entry what the last  *)
(* readable row for it says, whichever rows before could not be read and   *)
(* wherever the result set ended.                                          *)
LimitsAreLoaded ==
  lock = Free /\ Fits(grp) /\ Fits(red_yel) =>
    /\ vectors = Loaded
    /\ \A c \in Cells :
         IF c.group \in Loaded /\ LastRow(c, Len(red_yel.rows)) # {}
         THEN \A i \in LastRow(c, Len(red_yel.rows)) :
                limit[c] = LimitOf(red_yel.rows[i].red, red_yel.rows[i].yellow)
         ELSE limit[c] = NotInUse

(* What a report shows agrees with what was loaded: unless it had to give  *)
(* up the lock and shows white, a value is red exactly if it has reached   *)
(* the red limit of the last row of its entry, yellow if it has reached    *)
(* only the yellow one, and no colour ever comes from limits half loaded.  *)
Reached(k, l) == IF k.db_ers_id \in UpLimits THEN Signed(k.value) >= l ELSE Signed(k.value) <= l

HasLimits(k) ==
  /\ k.db_ers_id \in UpLimits \cup DownLimits
  /\ k.vector = "state" => k.group < MaxGroup
  /\ k.group \in Loaded
  /\ LastRow(CellOf(k), Len(red_yel.rows)) # {}

Right(k, colour) ==
  /\ ~HasLimits(k) => colour = "WHITE"
  /\ HasLimits(k) =>
       \A i \in LastRow(CellOf(k), Len(red_yel.rows)) :
         LET red    == Reached(k, Signed(red_yel.rows[i].red))
             yellow == Reached(k, Signed(red_yel.rows[i].yellow))
         IN  /\ colour = "RED" <=> red
             /\ colour = "YELLOW" <=> yellow /\ ~red

ColoursAreRight ==
  [][\A t \in Threads :
       /\ pc[t] = "colour" /\ pc'[t] = "answered"
       /\ Fits(grp) /\ Fits(red_yel)
       /\ lock = Free \/ reply'[t].colour # "WHITE"
       => Right(asked[t], reply'[t].colour)]_vars

(* Every call returns, but for those that wait for a reload whose list of  *)
(* groups ends early or does not fit the counter: that may spin with the   *)
(* lock held.  Lookups return even then, without colours.                  *)
Stuck ==
  \E t \in Threads : pc[t] = "groups" /\ ~(Fits(grp) /\ Len(grp.rows) = grp.count)

CallsReturn ==
  \A t \in Threads :
    /\ pc[t] \in {"colour", "answered"} ~> pc[t] = "idle"
    /\ pc[t] # "idle" ~> pc[t] = "idle" \/ Stuck
=============================================================================
