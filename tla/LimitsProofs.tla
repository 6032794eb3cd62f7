----------------------------- MODULE LimitsProofs -----------------------------
(***************************************************************************)
(* What Limits promises, for any threads, groups, result sets and sizes of *)
(* the counter and of a value.  The invariant says how far a load has got: *)
(* the vectors are those of the groups fetched so far, the entries those   *)
(* of the rows fetched so far, and the counter is what is left.            *)
(***************************************************************************)
EXTENDS Limits, TLAPS

USE DEF VectorNames

LEMMA Wrapped ==
  ASSUME NEW n \in Nat
  PROVE  /\ n % CountWord \in 0 .. CountWord - 1
         /\ n < CountWord => n % CountWord = n
BY LimitsAssumption

Holders == {"unload", "groups", "limits", "unlock"}

GroupsUpTo(n) == {grp.rows[i].group : i \in {j \in 1 .. n : grp.rows[j].ok}}

EntriesUpTo(n) ==
  \A c \in Cells :
    IF c.group \in vectors /\ LastRow(c, n) # {}
    THEN \A i \in LastRow(c, n) :
           limit[c] = LimitOf(red_yel.rows[i].red, red_yel.rows[i].yellow)
    ELSE limit[c] = NotInUse

Complete ==
  Fits(grp) /\ Fits(red_yel) => vectors = Loaded /\ EntriesUpTo(Len(red_yel.rows))

Holding == \A t \in Threads : pc[t] \in Holders <=> lock = t

Asking == \A t \in Threads : pc[t] = "colour" => asked[t] \in Lookups

LoadingGroups ==
  (\E t \in Threads : pc[t] = "groups") =>
    /\ at <= Len(grp.rows)
    /\ vectors = GroupsUpTo(at)
    /\ \A c \in Cells : limit[c] = NotInUse
    /\ Fits(grp) => left = grp.count - at

LoadingLimits ==
  (\E t \in Threads : pc[t] = "limits") =>
    /\ at <= Len(red_yel.rows)
    /\ Fits(grp) => vectors = Loaded
    /\ EntriesUpTo(at)
    /\ Fits(red_yel) => left = red_yel.count - at

Whole == lock = Free \/ (\E t \in Threads : pc[t] = "unlock") => Complete

LimitsInv ==
  /\ TypeOK /\ Holding /\ Asking /\ LoadingGroups /\ LoadingLimits /\ Whole

-----------------------------------------------------------------------------
(* Result sets are what they say. *)
LEMMA ResultTypes ==
  ASSUME TypeOK
  PROVE  /\ grp \in ResultSets(GroupRows)
         /\ red_yel \in ResultSets(LimitRows)
<1>1. Nothing \in ResultSets(GroupRows)
  BY DEF Nothing, ResultSets
<1>2. Nothing \in ResultSets(LimitRows)
  BY DEF Nothing, ResultSets
<1> QED BY <1>1, <1>2, LimitsAssumption DEF TypeOK

(* The row fetched next extends what has been loaded. *)
LEMMA NextGroup ==
  ASSUME NEW n \in Nat
  PROVE  GroupsUpTo(n + 1) = IF grp.rows[n + 1].ok
                             THEN GroupsUpTo(n) \cup {grp.rows[n + 1].group}
                             ELSE GroupsUpTo(n)
<1>1. 1 .. n + 1 = (1 .. n) \cup {n + 1}
  OBVIOUS
<1> QED BY <1>1 DEF GroupsUpTo

LEMMA NextLimit ==
  ASSUME NEW n \in Nat, NEW c
  PROVE  LastRow(c, n + 1) = IF red_yel.rows[n + 1].ok /\ Cell(red_yel.rows[n + 1]) = c
                             THEN {n + 1} ELSE LastRow(c, n)
<1> DEFINE mine(m) == {i \in 1 .. m : red_yel.rows[i].ok /\ Cell(red_yel.rows[i]) = c}
<1>1. 1 .. n + 1 = (1 .. n) \cup {n + 1} /\ \A i \in 1 .. n : i <= n + 1 /\ ~(n + 1 <= i)
  OBVIOUS
<1>2. CASE red_yel.rows[n + 1].ok /\ Cell(red_yel.rows[n + 1]) = c
  <2>1. mine(n + 1) = mine(n) \cup {n + 1}
    BY <1>1, <1>2
  <2>2. {i \in mine(n + 1) : \A j \in mine(n + 1) : j <= i} = {n + 1}
    BY <1>1, <2>1
  <2> QED BY <1>2, <2>2 DEF LastRow
<1>3. CASE ~(red_yel.rows[n + 1].ok /\ Cell(red_yel.rows[n + 1]) = c)
  <2>1. mine(n + 1) = mine(n)
    BY <1>1, <1>3
  <2> QED BY <1>3, <2>1 DEF LastRow
<1> QED BY <1>2, <1>3

(* A row that the loops fetch is a row of its result set. *)
LEMMA FetchedGroup ==
  ASSUME TypeOK, More(grp.rows)
  PROVE  /\ at + 1 \in 1 .. Len(grp.rows)
         /\ grp.rows[at + 1] \in GroupRows
<1>1. grp.rows \in Seq(GroupRows) /\ at \in Nat
  BY ResultTypes DEF ResultSets, TypeOK
<1>2. at + 1 \in 1 .. Len(grp.rows)
  BY <1>1 DEF More
<1> QED BY <1>1, <1>2

LEMMA FetchedLimit ==
  ASSUME TypeOK, More(red_yel.rows)
  PROVE  /\ at + 1 \in 1 .. Len(red_yel.rows)
         /\ red_yel.rows[at + 1] \in LimitRows
<1>1. red_yel.rows \in Seq(LimitRows) /\ at \in Nat
  BY ResultTypes DEF ResultSets, TypeOK
<1>2. at + 1 \in 1 .. Len(red_yel.rows)
  BY <1>1 DEF More
<1> QED BY <1>1, <1>2

(* A result set that fits is read to its end, and not beyond: its counter  *)
(* is never 0 before.                                                      *)
LEMMA ReadToItsEnd ==
  ASSUME NEW rs \in ResultSets(GroupRows) \cup ResultSets(LimitRows),
         at \in Nat, left \in 0 .. CountWord - 1,
         Fits(rs), left = rs.count - at, at <= Len(rs.rows)
  PROVE  /\ More(rs.rows) <=> at < Len(rs.rows)
         /\ More(rs.rows) => left > 0
<1>1. Len(rs.rows) \in Nat /\ rs.count \in Nat
  BY DEF ResultSets
<1> QED BY <1>1, LimitsAssumption DEF More, Fits

LEMMA LookupTypes ==
  ASSUME NEW k \in Lookups
  PROVE  /\ CellOf(k) \in Cells
         /\ k.group \in GroupIds
         /\ k.value \in Values
         /\ CellOf(k).group = k.group
BY LimitsAssumption DEF CellOf, Cells

LEMMA SignedTypes ==
  ASSUME NEW v \in Values
  PROVE  Signed(v) \in Int
BY LimitsAssumption DEF Values, Signed

LEMMA ColourTypes ==
  ASSUME TypeOK, NEW k \in Lookups
  PROVE  Colour(k) \in [rv : {0, 1}, colour : Colours]
<1>1. \A l : ColourUp(k.value, l) \in Colours /\ ColourDown(k.value, l) \in Colours
  BY DEF ColourUp, ColourDown, Colours
<1> QED BY <1>1 DEF Colour, White, Colours

-----------------------------------------------------------------------------
LEMMA InitInv == Init => LimitsInv
<1> SUFFICES ASSUME Init PROVE LimitsInv
  OBVIOUS
<1> USE DEF Init
<1>1. TypeOK
  BY LimitsAssumption DEF TypeOK, AllLimits, NoReply, Colours, Pcs
<1>2. Holding /\ Asking /\ LoadingGroups /\ LoadingLimits
  BY LimitsAssumption DEF Holding, Holders, Asking, LoadingGroups, LoadingLimits
<1>3. Whole
  <2>1. Len(red_yel.rows) = 0 /\ Len(grp.rows) = 0
    BY DEF Nothing
  <2>2. Loaded = {}
    BY <2>1 DEF Loaded
  <2>3. \A c : LastRow(c, Len(red_yel.rows)) = {}
    BY <2>1 DEF LastRow
  <2> QED BY <2>2, <2>3 DEF Whole, Complete, EntriesUpTo
<1> QED BY <1>1, <1>2, <1>3 DEF LimitsInv

(* Types. *)
LEMMA TypeStep ==
  ASSUME LimitsInv, [Next]_vars
  PROVE  TypeOK'
<1> USE DEF LimitsInv
<1>1. CASE UNCHANGED vars
  BY <1>1 DEF vars, table, load, call, TypeOK
<1>2. ASSUME NEW t \in Threads, Call(t) PROVE TypeOK'
  BY <1>2 DEF Call, Goto, table, load, TypeOK, Pcs
<1>3. ASSUME NEW t \in Threads, VerifyGroupInLimitTab(t) PROVE TypeOK'
  BY <1>3 DEF VerifyGroupInLimitTab, Goto, load, TypeOK, Pcs
<1>4. ASSUME NEW t \in Threads, ReloadAll(t) PROVE TypeOK'
  BY <1>4 DEF ReloadAll, Goto, load, TypeOK, Pcs
<1>5. ASSUME NEW t \in Threads, UnloadLimitsAndGroups(t) PROVE TypeOK'
  <2>1. PICK rs \in GroupResults : grp' = rs /\ left' = rs.count % CountWord
    BY <1>5 DEF UnloadLimitsAndGroups
  <2>2. rs.count \in Nat
    BY LimitsAssumption DEF ResultSets
  <2> QED BY <1>5, <2>1, <2>2, Wrapped
          DEF UnloadLimitsAndGroups, Goto, TypeOK, Pcs, AllLimits
<1>6. ASSUME NEW t \in Threads, GroupRow(t) PROVE TypeOK'
  <2>1. grp.rows[at + 1].group \in GroupIds
    BY <1>6, FetchedGroup DEF GroupRow, GroupRows
  <2>2. left' \in 0 .. CountWord - 1
    BY <1>6, LimitsAssumption DEF GroupRow, Count, TypeOK
  <2>3. vectors' \in SUBSET GroupIds /\ limit' \in [Cells -> AllLimits]
    BY <1>6, <2>1 DEF GroupRow, TypeOK, AllLimits
  <2> QED BY <1>6, <2>2, <2>3 DEF GroupRow, call, TypeOK
<1>7. ASSUME NEW t \in Threads, LoadLimits(t) PROVE TypeOK'
  <2>1. PICK rs \in LimitResults : red_yel' = rs /\ left' = rs.count % CountWord
    BY <1>7 DEF LoadLimits
  <2>2. rs.count \in Nat
    BY LimitsAssumption DEF ResultSets
  <2> QED BY <1>7, <2>1, <2>2, Wrapped DEF LoadLimits, Goto, table, TypeOK, Pcs
<1>8. ASSUME NEW t \in Threads, LimitRow(t) PROVE TypeOK'
  <2>1. LimitOf(red_yel.rows[at + 1].red, red_yel.rows[at + 1].yellow) \in AllLimits
    BY <1>8, FetchedLimit DEF LimitRow, LimitRows, AllLimits
  <2>2. left' \in 0 .. CountWord - 1
    BY <1>8, LimitsAssumption DEF LimitRow, Count, TypeOK
  <2>3. limit' \in [Cells -> AllLimits]
    BY <1>8, <2>1 DEF LimitRow, TypeOK
  <2> QED BY <1>8, <2>2, <2>3 DEF LimitRow, call, TypeOK
<1>9. ASSUME NEW t \in Threads, Unlock(t) PROVE TypeOK'
  BY <1>9 DEF Unlock, Goto, load, TypeOK, Pcs
<1>10. ASSUME NEW t \in Threads, GetColor(t) PROVE TypeOK'
  <2>1. White(1) \in [rv : {0, 1}, colour : Colours]
    BY DEF White, Colours
  <2> QED BY <1>10, <2>1, ColourTypes
          DEF GetColor, Goto, Asking, table, load, TypeOK, Pcs
<1>11. ASSUME NEW t \in Threads, Return(t) PROVE TypeOK'
  BY <1>11 DEF Return, Goto, table, load, TypeOK, Pcs, NoReply, Colours
<1>12. ASSUME NEW t \in Threads, Spin(t) PROVE TypeOK'
  BY <1>12, <1>1 DEF Spin
<1> QED BY <1>1, <1>2, <1>3, <1>4, <1>5, <1>6, <1>7, <1>8, <1>9, <1>10, <1>11, <1>12
        DEF Next, Step

(* The lock is held through a load; only lookups are looked up. *)
LEMMA ControlStep ==
  ASSUME LimitsInv, [Next]_vars
  PROVE  Holding' /\ Asking'
<1> USE DEF LimitsInv, Holding, Holders, Asking, TypeOK
<1>1. CASE UNCHANGED vars
  BY <1>1 DEF vars, table, call
<1>2. ASSUME NEW t \in Threads, Call(t) PROVE Holding' /\ Asking'
  BY <1>2 DEF Call, Goto, table
<1>3. ASSUME NEW t \in Threads, VerifyGroupInLimitTab(t) PROVE Holding' /\ Asking'
  BY <1>3, LimitsAssumption DEF VerifyGroupInLimitTab, Goto
<1>4. ASSUME NEW t \in Threads, ReloadAll(t) PROVE Holding' /\ Asking'
  BY <1>4, LimitsAssumption DEF ReloadAll, Goto
<1>5. ASSUME NEW t \in Threads, UnloadLimitsAndGroups(t) PROVE Holding' /\ Asking'
  BY <1>5 DEF UnloadLimitsAndGroups, Goto
<1>6. ASSUME NEW t \in Threads, GroupRow(t) PROVE Holding' /\ Asking'
  BY <1>6 DEF GroupRow, call
<1>7. ASSUME NEW t \in Threads, LoadLimits(t) PROVE Holding' /\ Asking'
  BY <1>7 DEF LoadLimits, Goto, table
<1>8. ASSUME NEW t \in Threads, LimitRow(t) PROVE Holding' /\ Asking'
  BY <1>8 DEF LimitRow, call
<1>9. ASSUME NEW t \in Threads, Unlock(t) PROVE Holding' /\ Asking'
  BY <1>9, LimitsAssumption DEF Unlock, Goto
<1>10. ASSUME NEW t \in Threads, GetColor(t) PROVE Holding' /\ Asking'
  BY <1>10 DEF GetColor, Goto, table
<1>11. ASSUME NEW t \in Threads, Return(t) PROVE Holding' /\ Asking'
  BY <1>11 DEF Return, Goto, table
<1>12. ASSUME NEW t \in Threads, Spin(t) PROVE Holding' /\ Asking'
  BY <1>12, <1>1 DEF Spin
<1> QED BY <1>1, <1>2, <1>3, <1>4, <1>5, <1>6, <1>7, <1>8, <1>9, <1>10, <1>11, <1>12
        DEF Next, Step

(* One thread loads at a time. *)
LEMMA OneLoader ==
  ASSUME Holding, TypeOK, NEW t \in Threads, pc[t] \in Holders
  PROVE  /\ lock = t
         /\ lock # Free
         /\ \A u \in Threads : pc[u] \in Holders => u = t
BY LimitsAssumption DEF Holding

Loading == LoadingGroups /\ LoadingLimits /\ Whole

(* Whoever does not load leaves what has been loaded alone. *)
LEMMA OtherSteps ==
  ASSUME LimitsInv, UNCHANGED <<vectors, limit, load>>,
         lock' = Free => lock = Free,
         \A u \in Threads : pc'[u] \in Holders \ {"unload"} =>
                              pc[u] = pc'[u] \/ (lock = Free /\ pc'[u] = "unlock")
  PROVE  Loading'
<1> USE DEF LimitsInv, load
<1>1. Complete' = Complete /\ Loaded' = Loaded
  BY DEF Complete, Fits, Loaded, EntriesUpTo, LastRow
<1>2. EntriesUpTo(at)' = EntriesUpTo(at) /\ GroupsUpTo(at)' = GroupsUpTo(at)
  BY DEF EntriesUpTo, LastRow, GroupsUpTo
<1>3. LoadingGroups'
  BY <1>2 DEF LoadingGroups, Holders, Fits
<1>4. LoadingLimits'
  BY <1>1, <1>2 DEF LoadingLimits, Holders, Fits
<1>5. Whole'
  BY <1>1 DEF Whole, Holders
<1> QED BY <1>3, <1>4, <1>5 DEF Loading

LEMMA UnloadStep ==
  ASSUME LimitsInv, NEW t \in Threads, UnloadLimitsAndGroups(t)
  PROVE  Loading'
<1> USE DEF LimitsInv
<1>1. lock' = lock /\ lock # Free /\ \A u \in Threads : pc[u] \in Holders => u = t
  BY OneLoader DEF UnloadLimitsAndGroups, Holders
<1>2. pc' = [pc EXCEPT ![t] = "groups"] /\ pc \in [Threads -> Pcs]
  BY DEF UnloadLimitsAndGroups, Goto, TypeOK
<1>3. \A u \in Threads : pc'[u] \notin {"limits", "unlock"}
  BY <1>1, <1>2 DEF Holders
<1>4. PICK rs \in GroupResults : grp' = rs /\ left' = rs.count % CountWord
  BY DEF UnloadLimitsAndGroups
<1>5. rs.count \in Nat /\ Len(rs.rows) \in Nat
  BY LimitsAssumption DEF ResultSets
<1>6. Fits(grp)' => left' = grp'.count - at'
  BY <1>4, <1>5, Wrapped DEF Fits, UnloadLimitsAndGroups
<1>7. vectors' = GroupsUpTo(at)'
  BY DEF UnloadLimitsAndGroups, GroupsUpTo
<1>8. LoadingGroups'
  BY <1>4, <1>5, <1>6, <1>7 DEF LoadingGroups, UnloadLimitsAndGroups
<1> QED BY <1>1, <1>3, <1>8 DEF Loading, LoadingLimits, Whole

LEMMA GroupRowStep ==
  ASSUME LimitsInv, NEW t \in Threads, GroupRow(t)
  PROVE  Loading'
<1> USE DEF LimitsInv
<1>1. lock' = lock /\ lock # Free /\ \A u \in Threads : pc[u] \in Holders => u = t
  BY OneLoader DEF GroupRow, Holders
<1>2. pc[t] = "groups" /\ UNCHANGED <<pc, grp, red_yel>> /\ at' = at + 1
  BY DEF GroupRow, call
<1>3. \A u \in Threads : pc'[u] \notin {"limits", "unlock"}
  BY <1>1, <1>2 DEF Holders
<1>4. /\ at \in Nat /\ left \in 0 .. CountWord - 1 /\ at <= Len(grp.rows)
      /\ vectors = GroupsUpTo(at) /\ \A c \in Cells : limit[c] = NotInUse
      /\ Fits(grp) => left = grp.count - at
  BY <1>2 DEF TypeOK, LoadingGroups
<1>5. at' <= Len(grp'.rows)
  BY <1>2, FetchedGroup DEF GroupRow
<1>6. Fits(grp)' => left' = grp'.count - at'
  <2> SUFFICES ASSUME Fits(grp) PROVE left' = grp.count - at'
    BY <1>2 DEF Fits
  <2>1. left > 0
    BY <1>4, ResultTypes, ReadToItsEnd DEF GroupRow
  <2>2. grp.count \in Nat
    BY ResultTypes DEF ResultSets
  <2> QED BY <1>2, <1>4, <2>1, <2>2 DEF GroupRow, Count
<1>7. vectors' = GroupsUpTo(at)'
  <2>1. GroupsUpTo(at)' = GroupsUpTo(at + 1)
    BY <1>2 DEF GroupsUpTo
  <2> QED BY <1>4, <2>1, NextGroup DEF GroupRow
<1>8. \A c \in Cells : limit'[c] = NotInUse
  BY <1>4 DEF GroupRow
<1>9. LoadingGroups'
  BY <1>5, <1>6, <1>7, <1>8 DEF LoadingGroups
<1> QED BY <1>1, <1>3, <1>9 DEF Loading, LoadingLimits, Whole

LEMMA LoadLimitsStep ==
  ASSUME LimitsInv, NEW t \in Threads, LoadLimits(t)
  PROVE  Loading'
<1> USE DEF LimitsInv
<1>1. lock' = lock /\ lock # Free /\ \A u \in Threads : pc[u] \in Holders => u = t
  BY OneLoader DEF LoadLimits, table, Holders
<1>2. /\ pc[t] = "groups" /\ UNCHANGED <<vectors, limit, grp>> /\ at' = 0
      /\ pc' = [pc EXCEPT ![t] = IF left' = 0 THEN "unlock" ELSE "limits"]
  BY DEF LoadLimits, table, Goto
<1>3. /\ pc \in [Threads -> Pcs]
      /\ \A u \in Threads : pc'[u] # "groups"
      /\ (\E u \in Threads : pc'[u] = "unlock") => left' = 0
  BY <1>1, <1>2 DEF TypeOK, Holders
<1>4. PICK rs \in LimitResults : red_yel' = rs /\ left' = rs.count % CountWord
  BY DEF LoadLimits
<1>5. rs.count \in Nat /\ Len(rs.rows) \in Nat
  BY LimitsAssumption DEF ResultSets
<1>6. /\ at \in Nat /\ left \in 0 .. CountWord - 1 /\ at <= Len(grp.rows)
      /\ vectors = GroupsUpTo(at) /\ \A c \in Cells : limit[c] = NotInUse
      /\ Fits(grp) => left = grp.count - at
  BY <1>2 DEF TypeOK, LoadingGroups
<1>7. Fits(grp)' => vectors' = Loaded'
  <2> SUFFICES ASSUME Fits(grp) PROVE vectors = Loaded
    BY <1>2 DEF Fits, Loaded
  <2>1. at = Len(grp.rows)
    <3>1. Len(grp.rows) \in Nat
      BY ResultTypes DEF ResultSets
    <3> QED BY <1>6, <3>1, ResultTypes, ReadToItsEnd DEF LoadLimits
  <2> QED BY <1>6, <2>1 DEF GroupsUpTo, Loaded
<1>8. EntriesUpTo(0)'
  <2>1. \A c : LastRow(c, 0)' = {}
    BY DEF LastRow
  <2> QED BY <1>2, <1>6, <2>1 DEF EntriesUpTo
<1>9. Fits(red_yel)' => left' = red_yel'.count - at'
  BY <1>2, <1>4, <1>5, Wrapped DEF Fits
<1>10. LoadingLimits'
  <2>1. EntriesUpTo(at)'
    BY <1>2, <1>8 DEF EntriesUpTo
  <2> QED BY <1>2, <1>4, <1>5, <1>7, <1>9, <2>1 DEF LoadingLimits
<1>11. Whole'
  <2> SUFFICES ASSUME left' = 0, Fits(grp)', Fits(red_yel)'
               PROVE  vectors' = Loaded' /\ EntriesUpTo(Len(red_yel.rows))'
    BY <1>1, <1>3 DEF Whole, Complete
  <2>1. Len(red_yel'.rows) = 0
    BY <1>2, <1>4, <1>5, <1>9 DEF Fits
  <2> QED BY <1>7, <1>8, <2>1 DEF EntriesUpTo
<1> QED BY <1>3, <1>10, <1>11 DEF Loading, LoadingGroups

LEMMA LimitRowStep ==
  ASSUME LimitsInv, NEW t \in Threads, LimitRow(t)
  PROVE  Loading'
<1> USE DEF LimitsInv
<1>1. lock' = lock /\ lock # Free /\ \A u \in Threads : pc[u] \in Holders => u = t
  BY OneLoader DEF LimitRow, Holders
<1>2. pc[t] = "limits" /\ UNCHANGED <<pc, vectors, grp, red_yel>> /\ at' = at + 1
  BY DEF LimitRow, call
<1>3. \A u \in Threads : pc'[u] \notin {"groups", "unlock"}
  BY <1>1, <1>2 DEF Holders
<1>4. /\ at \in Nat /\ left \in 0 .. CountWord - 1 /\ at <= Len(red_yel.rows)
      /\ Fits(grp) => vectors = Loaded
      /\ EntriesUpTo(at)
      /\ Fits(red_yel) => left = red_yel.count - at
  BY <1>2 DEF TypeOK, LoadingLimits
<1>5. at' <= Len(red_yel'.rows)
  BY <1>2, FetchedLimit DEF LimitRow
<1>6. Fits(red_yel)' => left' = red_yel'.count - at'
  <2> SUFFICES ASSUME Fits(red_yel) PROVE left' = red_yel.count - at'
    BY <1>2 DEF Fits
  <2>1. left > 0
    BY <1>4, ResultTypes, ReadToItsEnd DEF LimitRow
  <2>2. red_yel.count \in Nat
    BY ResultTypes DEF ResultSets
  <2> QED BY <1>2, <1>4, <2>1, <2>2 DEF LimitRow, Count
<1>7. EntriesUpTo(at)'
  <2> DEFINE row == red_yel.rows[at + 1]
  <2> SUFFICES ASSUME NEW c \in Cells
               PROVE  IF c.group \in vectors /\ LastRow(c, at + 1) # {}
                      THEN \A i \in LastRow(c, at + 1) :
                             limit'[c] = LimitOf(red_yel.rows[i].red, red_yel.rows[i].yellow)
                      ELSE limit'[c] = NotInUse
    BY <1>2 DEF EntriesUpTo, LastRow
  <2>1. limit'[c] = IF row.ok /\ c = Cell(row) /\ c.group \in vectors
                    THEN LimitOf(row.red, row.yellow) ELSE limit[c]
    BY DEF LimitRow
  <2>2. LastRow(c, at + 1) = IF row.ok /\ Cell(row) = c THEN {at + 1} ELSE LastRow(c, at)
    BY <1>4, NextLimit
  <2>3. IF c.group \in vectors /\ LastRow(c, at) # {}
        THEN \A i \in LastRow(c, at) :
               limit[c] = LimitOf(red_yel.rows[i].red, red_yel.rows[i].yellow)
        ELSE limit[c] = NotInUse
    BY <1>4 DEF EntriesUpTo
  <2> HIDE DEF row
  <2>4. CASE row.ok /\ Cell(row) = c
    BY <2>1, <2>2, <2>3, <2>4 DEF row
  <2>5. CASE ~(row.ok /\ Cell(row) = c)
    BY <2>1, <2>2, <2>3, <2>5
  <2> QED BY <2>4, <2>5
<1>8. LoadingLimits'
  <2>1. Fits(grp)' => vectors' = Loaded'
    BY <1>2, <1>4 DEF Fits, Loaded
  <2> QED BY <1>5, <1>6, <1>7, <2>1 DEF LoadingLimits
<1> QED BY <1>1, <1>3, <1>8 DEF Loading, LoadingGroups, Whole

LEMMA UnlockStep ==
  ASSUME LimitsInv, NEW t \in Threads, Unlock(t)
  PROVE  Loading'
<1> USE DEF LimitsInv
<1>1. pc[t] \in Holders /\ \A u \in Threads : pc[u] \in Holders => u = t
  BY OneLoader DEF Unlock, Holders
<1>2. /\ UNCHANGED <<vectors, limit, grp, red_yel, at, left>>
      /\ pc' = [pc EXCEPT ![t] = "idle"] /\ pc \in [Threads -> Pcs]
  BY DEF Unlock, load, Goto, TypeOK
<1>3. \A u \in Threads : pc'[u] \notin Holders
  BY <1>1, <1>2 DEF Holders
<1>4. Complete
  <2>1. CASE pc[t] = "unlock"
    BY <2>1 DEF Whole
  <2>2. CASE pc[t] = "limits" /\ ~More(red_yel.rows)
    <3> SUFFICES ASSUME Fits(grp), Fits(red_yel)
                 PROVE  vectors = Loaded /\ EntriesUpTo(Len(red_yel.rows))
      BY DEF Complete
    <3>1. /\ at \in Nat /\ left \in 0 .. CountWord - 1 /\ at <= Len(red_yel.rows)
          /\ vectors = Loaded /\ EntriesUpTo(at) /\ left = red_yel.count - at
      BY <2>2 DEF TypeOK, LoadingLimits
    <3>2. Len(red_yel.rows) \in Nat
      BY ResultTypes DEF ResultSets
    <3>3. at = Len(red_yel.rows)
      BY <2>2, <3>1, <3>2, ResultTypes, ReadToItsEnd
    <3> QED BY <3>1, <3>3
  <2> QED BY <2>1, <2>2 DEF Unlock
<1>5. Complete'
  BY <1>2, <1>4 DEF Complete, Fits, Loaded, EntriesUpTo, LastRow
<1> QED BY <1>3, <1>5 DEF Loading, LoadingGroups, LoadingLimits, Whole, Holders

LEMMA LoadingStep ==
  ASSUME LimitsInv, [Next]_vars
  PROVE  Loading'
<1> USE DEF LimitsInv, Holders
<1>1. CASE UNCHANGED vars
  BY <1>1, OtherSteps DEF vars, table, call, load
<1>2. ASSUME NEW t \in Threads, Call(t) PROVE Loading'
  BY <1>2, OtherSteps DEF Call, Goto, table, TypeOK
<1>3. ASSUME NEW t \in Threads, VerifyGroupInLimitTab(t) PROVE Loading'
  BY <1>3, OtherSteps, LimitsAssumption DEF VerifyGroupInLimitTab, Goto, TypeOK
<1>4. ASSUME NEW t \in Threads, ReloadAll(t) PROVE Loading'
  BY <1>4, OtherSteps, LimitsAssumption DEF ReloadAll, Goto, TypeOK
<1>5. ASSUME NEW t \in Threads, GetColor(t) PROVE Loading'
  BY <1>5, OtherSteps DEF GetColor, Goto, table, TypeOK
<1>6. ASSUME NEW t \in Threads, Return(t) PROVE Loading'
  BY <1>6, OtherSteps DEF Return, Goto, table, TypeOK
<1>7. ASSUME NEW t \in Threads, Spin(t) PROVE Loading'
  BY <1>1, <1>7 DEF Spin
<1> QED BY <1>1, <1>2, <1>3, <1>4, <1>5, <1>6, <1>7, UnloadStep, GroupRowStep,
           LoadLimitsStep, LimitRowStep, UnlockStep DEF Next, Step

(* A lookup in the limits of a load agrees with the rows. *)
LEMMA ColourOfTheLoad ==
  ASSUME TypeOK, vectors = Loaded, EntriesUpTo(Len(red_yel.rows)), NEW k \in Lookups
  PROVE  Right(k, Colour(k).colour)
<1>1. PICK cell \in Cells : cell = CellOf(k) /\ cell.group = k.group
  BY LookupTypes
<1>2. PICK last : last = LastRow(cell, Len(red_yel.rows))
  OBVIOUS
<1>3. IF k.group \in Loaded /\ last # {}
      THEN \A i \in last :
             limit[cell] = LimitOf(red_yel.rows[i].red, red_yel.rows[i].yellow)
      ELSE limit[cell] = NotInUse
  BY <1>1, <1>2 DEF EntriesUpTo
<1>4. HasLimits(k) <=> /\ k.db_ers_id \in UpLimits \cup DownLimits
                       /\ k.vector = "state" => k.group < MaxGroup
                       /\ k.group \in Loaded
                       /\ last # {}
  BY <1>1, <1>2 DEF HasLimits
<1>5. (k.group < MaxGroup <=> ~(k.group >= MaxGroup)) /\ k.group \in Nat /\ MaxGroup \in Nat
  <2>1. k.group \in Nat /\ MaxGroup \in Nat
    BY LookupTypes, LimitsAssumption
  <2> QED BY <2>1
<1>6. CASE ~HasLimits(k)
  <2>1. CASE k.vector = "state" /\ k.group >= MaxGroup
    BY <1>6, <2>1 DEF Right, Colour, White
  <2>2. CASE ~(k.vector = "state" /\ k.group >= MaxGroup)
             /\ k.db_ers_id \notin UpLimits \cup DownLimits
    <3>1. Colour(k) = White(1)
      BY <2>2 DEF Colour
    <3> QED BY <1>6, <3>1 DEF Right, White
  <2>3. CASE /\ ~(k.vector = "state" /\ k.group >= MaxGroup)
             /\ k.db_ers_id \in UpLimits \cup DownLimits
    <3>1. CASE k.group \notin vectors
      BY <1>6, <2>3, <3>1 DEF Right, Colour, White
    <3>2. CASE k.group \in vectors
      <4>1. limit[cell] = NotInUse
        BY <1>3, <1>4, <1>5, <1>6, <2>3, <3>2
      <4>2. ~limit[cell].inUse
        BY <4>1 DEF NotInUse
      <4>3. Colour(k) = White(0)
        BY <1>1, <2>3, <3>2, <4>2 DEF Colour
      <4> QED BY <1>6, <4>3 DEF Right, White
    <3> QED BY <3>1, <3>2
  <2> QED BY <2>1, <2>2, <2>3
<1>7. CASE HasLimits(k)
  <2> SUFFICES ASSUME NEW i \in last
               PROVE  LET red    == Reached(k, Signed(red_yel.rows[i].red))
                          yellow == Reached(k, Signed(red_yel.rows[i].yellow))
                      IN  /\ Colour(k).colour = "RED" <=> red
                          /\ Colour(k).colour = "YELLOW" <=> yellow /\ ~red
    BY <1>1, <1>2, <1>7 DEF Right
  <2>1. limit[cell] = LimitOf(red_yel.rows[i].red, red_yel.rows[i].yellow)
    BY <1>3, <1>4, <1>7
  <2>2. /\ limit[cell].inUse
        /\ limit[cell].red = Signed(red_yel.rows[i].red)
        /\ limit[cell].yellow = Signed(red_yel.rows[i].yellow)
    BY <2>1 DEF LimitOf
  <2>3. Colour(k) = [rv |-> 1, colour |-> IF k.db_ers_id \in UpLimits
                                          THEN ColourUp(k.value, limit[cell])
                                          ELSE ColourDown(k.value, limit[cell])]
    <3>1. ~(k.vector = "state" /\ k.group >= MaxGroup)
      BY <1>4, <1>5, <1>7
    <3>2. k.db_ers_id \in UpLimits \cup DownLimits /\ k.group \in vectors
      BY <1>4, <1>7
    <3> QED BY <1>1, <2>2, <3>1, <3>2 DEF Colour
  <2>4. /\ Signed(k.value) \in Int
        /\ Signed(red_yel.rows[i].red) \in Int
        /\ Signed(red_yel.rows[i].yellow) \in Int
    <3>1. i \in 1 .. Len(red_yel.rows)
      BY <1>2 DEF LastRow
    <3>2. red_yel.rows[i] \in LimitRows
      BY <3>1, ResultTypes DEF ResultSets
    <3> QED BY <3>2, SignedTypes, LookupTypes DEF LimitRows
  <2>5. CASE k.db_ers_id \in UpLimits
    BY <2>2, <2>3, <2>4, <2>5 DEF ColourUp, Reached
  <2>6. CASE k.db_ers_id \notin UpLimits
    BY <2>2, <2>3, <2>4, <2>6 DEF ColourDown, Reached
  <2> QED BY <2>5, <2>6
<1> QED BY <1>6, <1>7

-----------------------------------------------------------------------------
(* Every reachable state satisfies the invariant. *)
THEOREM LimitsInvariant == Spec => []LimitsInv
<1>1. LimitsInv /\ [Next]_vars => LimitsInv'
  BY TypeStep, ControlStep, LoadingStep DEF Loading, LimitsInv
<1> QED BY InitInv, <1>1, PTL DEF Spec

(* Every variable keeps its type, for any sizes of the counter and of a    *)
(* value: Limits_tab of csa_web_limits.cpp.                                *)
THEOREM LimitsTypeCorrect == Spec => []TypeOK
<1>1. LimitsInv => TypeOK
  BY DEF LimitsInv
<1> QED BY LimitsInvariant, <1>1, PTL

(* Init_LimitsByGroups and LoadLimits, whatever their result sets hold,    *)
(* leave exactly the limits of the last readable row of each entry.        *)
THEOREM LimitsAreThoseLoaded == Spec => []LimitsAreLoaded
<1>1. ASSUME LimitsInv PROVE LimitsAreLoaded
  BY <1>1 DEF LimitsInv, Whole, Complete, EntriesUpTo, LimitsAreLoaded
<1> QED BY LimitsInvariant, <1>1, PTL

(* GetColorOfERS and GetColorOfSTATE answer from a whole load.             *)
THEOREM ColoursComeFromTheLoad == Spec => ColoursAreRight
<1> DEFINE Rights ==
      \A t \in Threads :
        /\ pc[t] = "colour" /\ pc'[t] = "answered"
        /\ Fits(grp) /\ Fits(red_yel)
        /\ lock = Free \/ reply'[t].colour # "WHITE"
        => Right(asked[t], reply'[t].colour)
<1>1. ASSUME LimitsInv, [Next]_vars PROVE [Rights]_vars
  <2> SUFFICES ASSUME NEW t \in Threads, pc[t] = "colour", pc'[t] = "answered",
                      Fits(grp), Fits(red_yel),
                      lock = Free \/ reply'[t].colour # "WHITE"
               PROVE  Right(asked[t], reply'[t].colour)
    OBVIOUS
  <2> DEFINE k == asked[t]
  <2>1. GetColor(t)
    <3>1. pc \in [Threads -> Pcs]
      BY <1>1 DEF LimitsInv, TypeOK
    <3>2. pc'[t] # pc[t]
      OBVIOUS
    <3>3. ASSUME NEW u \in Threads, Call(u) \/ Spin(u) \/ Step(u) PROVE u = t
      BY <3>1, <3>2, <3>3
      DEF Step, Call, Spin, VerifyGroupInLimitTab, ReloadAll, UnloadLimitsAndGroups,
          GroupRow, LoadLimits, LimitRow, Unlock, GetColor, Return, Goto, vars, call
    <3>4. Call(t) \/ Spin(t) \/ Step(t)
      BY <1>1, <3>2, <3>3 DEF Next, vars, call
    <3> QED BY <3>4 DEF Step, Call, Spin, VerifyGroupInLimitTab, ReloadAll,
                        UnloadLimitsAndGroups, GroupRow, LoadLimits, LimitRow, Unlock, Return
  <2>2. reply'[t] = IF lock = Free THEN Colour(k) ELSE White(1)
    BY <1>1, <2>1 DEF GetColor, LimitsInv, TypeOK
  <2>3. lock = Free /\ reply'[t] = Colour(k)
    BY <2>2 DEF White
  <2>4. vectors = Loaded /\ EntriesUpTo(Len(red_yel.rows)) /\ TypeOK
    BY <1>1, <2>3 DEF LimitsInv, Whole, Complete
  <2>5. k \in Lookups
    BY <1>1 DEF LimitsInv, Asking
  <2> QED BY <2>3, <2>4, <2>5, ColourOfTheLoad
<1> QED BY LimitsInvariant, <1>1, PTL DEF Spec, ColoursAreRight

-----------------------------------------------------------------------------
(* Colours and values.                                                     *)

Severity == [WHITE |-> 0, YELLOW |-> 1, RED |-> 2]

(* Two lookups of the same statistic of the same group. *)
SameLimits(k, l) == [k EXCEPT !.value = 0] = [l EXCEPT !.value = 0]

(* An (int) keeps the order of the unsigned longs of its lower half, and   *)
(* puts those of its upper half below them.                                *)
LEMMA SignedOrder ==
  ASSUME NEW v \in Values, NEW w \in Values, v <= w
  PROVE  /\ 2 * w < Word => Signed(v) <= Signed(w)
         /\ 2 * w >= Word /\ 2 * v < Word => Signed(w) < Signed(v)
<1>1. v \in Int /\ w \in Int /\ Word \in Int /\ 0 <= v /\ v < Word /\ 0 <= w /\ w < Word
  BY LimitsAssumption DEF Values
<1> QED BY <1>1 DEF Signed

(* GetColorOfERS and GetColorOfSTATE never give a worse value a better     *)
(* colour, in whatever order a supervisor has set the red and the yellow   *)
(* limit: the colour gets worse with the value, or better if the statistic *)
(* has lower limits.  That is so for values below 2^31 ...                 *)
THEOREM WorseIsNeverBetter ==
  ASSUME TypeOK, NEW k \in Lookups, NEW l \in Lookups, SameLimits(k, l),
         k.value <= l.value, 2 * l.value < Word
  PROVE  IF k.db_ers_id \in UpLimits
         THEN Severity[Colour(k).colour] <= Severity[Colour(l).colour]
         ELSE Severity[Colour(l).colour] <= Severity[Colour(k).colour]
<1> DEFINE cell == CellOf(k)
<1>1. /\ k.vector = l.vector /\ k.group = l.group /\ k.index = l.index
      /\ k.db_ers_id = l.db_ers_id /\ CellOf(l) = cell
  BY LimitsAssumption DEF SameLimits, CellOf
<1>2. /\ Signed(k.value) \in Int /\ Signed(l.value) \in Int
      /\ Signed(k.value) <= Signed(l.value)
  BY LookupTypes, SignedTypes, SignedOrder
<1>3. cell \in Cells
  BY LookupTypes DEF CellOf, Cells
<1>4. limit[cell].inUse => limit[cell].red \in Int /\ limit[cell].yellow \in Int
  BY <1>3, SignedTypes DEF TypeOK, AllLimits, NotInUse, LimitOf
<1>5. limit[cell].inUse =>
        /\ Severity[ColourUp(k.value, limit[cell])]
              <= Severity[ColourUp(l.value, limit[cell])]
        /\ Severity[ColourDown(l.value, limit[cell])]
              <= Severity[ColourDown(k.value, limit[cell])]
  BY <1>2, <1>4 DEF ColourUp, ColourDown, Severity
<1>6. CASE \/ k.vector = "state" /\ k.group >= MaxGroup
           \/ k.db_ers_id \notin UpLimits \cup DownLimits
           \/ k.group \notin vectors \/ ~limit[cell].inUse
  BY <1>1, <1>6 DEF Colour, White, Severity
<1> QED BY <1>1, <1>5, <1>6 DEF Colour

(* ... and not beyond: a statistic that gets worse as it grows is white    *)
(* again from 2^31 on, if its limits are below.                            *)
THEOREM HugeValuesAreWhite ==
  ASSUME TypeOK, NEW k \in Lookups, k.db_ers_id \in UpLimits, 2 * k.value >= Word,
         limit[CellOf(k)].red >= 0, limit[CellOf(k)].yellow >= 0
  PROVE  Colour(k).colour = "WHITE"
<1> DEFINE cell == CellOf(k)
<1>1. /\ Signed(k.value) \in Int /\ Signed(k.value) < 0
  BY LookupTypes, SignedTypes, LimitsAssumption DEF Signed, Values
<1>2. cell \in Cells
  BY LookupTypes DEF CellOf, Cells
<1>3. limit[cell].red \in Int /\ limit[cell].yellow \in Int
  BY <1>2, SignedTypes DEF TypeOK, AllLimits, NotInUse, LimitOf
<1>4. ColourUp(k.value, limit[cell]) = "WHITE"
  BY <1>1, <1>3 DEF ColourUp
<1> QED BY <1>4 DEF Colour, White
=============================================================================
