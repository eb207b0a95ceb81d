-------------------------- MODULE ClientSessionProofs --------------------------
(***************************************************************************)
(* A family of refresh tokens is one chain and a logout is final; the      *)
(* client uses the token service as it is meant to be used, keeps the      *)
(* tokens and the email of one account together and never loses its        *)
(* identity: for any number of accounts, families, rotations in flight,    *)
(* commands and token rows.                                                *)
(***************************************************************************)
EXTENDS ClientSession, FiniteSetTheorems, WellFoundedInduction, TLAPS

-------------------------------------------------------------------------------
(* The token service.                                                        *)

\* Ids are given out in order.
Packed == \A i, j \in Ids : j <= i /\ row[i].family # None => row[j].family # None

\* Used tokens have a successor: the one row of a family that is not used is its last.
ChainOf(f) ==
  RowsOf(f) # {} => \E i \in RowsOf(f) :
    row[i].used = "no" /\ \A j \in RowsOf(f) \ {i} : j < i /\ row[j].used # "no"

\* A sweep revokes the rows behind it and no other, and a logout leaves none.
SweptOf(f) ==
  /\ f \in loggedOut \/ sweep[f] # 0 => RowsOf(f) # {}
  /\ f \in loggedOut => \A i \in RowsOf(f) : row[i].revoked
  /\ f \notin loggedOut => \A i \in RowsOf(f) : row[i].revoked <=> i < sweep[f]

\* As long as a row of a family is live its last one is, so a rotation always claims.
RotationsClaim ==
  \A p \in Requests : rotation[p].pc = "rotating" =>
    rotation[p].claims /\ rotation[p].family \in Families

TokenInv ==
  /\ TypeOK /\ Packed /\ RotationsClaim
  /\ \A f \in Families : ChainOf(f) /\ SweptOf(f)

-------------------------------------------------------------------------------
(* The next id.                                                              *)

LEMMA MinOf ==
  ASSUME NEW S \in SUBSET Nat, S # {}
  PROVE  Min(S) \in S /\ \A y \in S : Min(S) <= y
<1>1. PICK x \in S : \A y \in S : ~ (<<y, x>> \in OpToRel(<, Nat))
  BY NatLessThanWellFounded, WFMin
<1>2. ASSUME NEW y \in S PROVE x <= y
  <2>1. SUFFICES ASSUME y < x PROVE FALSE
    OBVIOUS
  <2>2. <<y, x>> \in Nat \X Nat /\ <<y, x>>[1] < <<y, x>>[2]
    BY <2>1
  <2>3. <<y, x>> \in OpToRel(<, Nat)
    BY <2>2 DEF OpToRel
  <2> QED  BY <1>1, <2>3
<1> QED  BY <1>2 DEF Min

LEMMA NextId ==
  ASSUME TypeOK, Packed, Free # {}
  PROVE  /\ Min(Free) \in Ids /\ row[Min(Free)].family = None
         /\ \A j \in Ids : row[j].family # None <=> j < Min(Free)
<1>1. Free \in SUBSET Nat
  BY RowsAssumption DEF Free, Ids
<1>2. Min(Free) \in Free /\ \A y \in Free : Min(Free) <= y
  BY <1>1, MinOf
<1> QED  BY <1>2, RowsAssumption DEF Free, Ids, Packed

LEMMA IdleType ==
  /\ Idle \in RotationType /\ Idle.pc = "idle"
  /\ \A f \in Families : [Idle EXCEPT !.pc = "reuse", !.family = f] \in RotationType
                          /\ [Idle EXCEPT !.pc = "reuse", !.family = f].pc = "reuse"
<1>1. Idle \in RotationType /\ Idle.pc = "idle"
  BY RowsAssumption DEF Idle, RotationType
<1>2. ASSUME NEW r \in RotationType, NEW f \in Families
      PROVE  LET s == [r EXCEPT !.pc = "reuse", !.family = f] IN s \in RotationType /\ s.pc = "reuse"
  BY DEF RotationType
<1> QED  BY <1>1, <1>2

LEMMA NewRowType ==
  ASSUME NEW f \in Families, NEW prev \in 0..MaxRows
  PROVE  LET new == [NoRow EXCEPT !.family = f, !.prev = prev] IN
         new \in RowType /\ new.family = f /\ new.used = "no" /\ ~new.revoked
  BY DEF NoRow, RowType

-------------------------------------------------------------------------------
(* The steps.                                                                *)

\* What a step does not touch.
LEMMA FamilyLeftAlone ==
  ASSUME NEW g \in Families, ChainOf(g), SweptOf(g), RowsOf(g)' = RowsOf(g),
         \A i \in RowsOf(g) : row'[i].revoked = row[i].revoked
                              /\ (row'[i].used = "no" <=> row[i].used = "no"),
         sweep'[g] = sweep[g], g \in loggedOut' <=> g \in loggedOut
  PROVE  ChainOf(g)' /\ SweptOf(g)'
  BY DEF ChainOf, SweptOf

\* Rotations, when the rows stay as they are.
LEMMA RotationKeeps ==
  ASSUME TokenInv, NEW p \in Requests, NEW r \in RotationType,
         rotation' = [rotation EXCEPT ![p] = r],
         r.pc = "rotating" => r.claims /\ r.family \in Families,
         UNCHANGED <<row, sweep, loggedOut>>
  PROVE  TokenInv'
<1>1. TypeOK' /\ Packed' /\ RotationsClaim'
  BY DEF TokenInv, TypeOK, Packed, RotationsClaim
<1>2. \A f \in Families : RowsOf(f)' = RowsOf(f)
  BY DEF RowsOf
<1> QED  BY <1>1, <1>2, FamilyLeftAlone DEF TokenInv

LEMMA FinishKeeps ==
  ASSUME TokenInv, NEW p \in Requests, Finish(p), UNCHANGED <<row, sweep, loggedOut>>
  PROVE  TokenInv'
  BY IdleType, RotationKeeps DEF Finish

\* A family with a live row has a tip, its only row that is not used.
LEMMA LiveHasTip ==
  ASSUME TokenInv, NEW f \in Families, NEW t \in LiveRows(f)
  PROVE  f \notin loggedOut /\ \E u \in RowsOf(f) : Tips(f) = {u} /\ ~ (u < sweep[f])
<1>1. f \notin loggedOut /\ ~ (t < sweep[f]) /\ t \in RowsOf(f)
  BY DEF TokenInv, SweptOf, LiveRows
<1>2. PICK u \in RowsOf(f) : row[u].used = "no" /\ \A j \in RowsOf(f) \ {u} : j < u /\ row[j].used # "no"
  BY <1>1 DEF TokenInv, ChainOf
<1>3. ~ (u < sweep[f])
  BY <1>1, <1>2, RowsAssumption DEF RowsOf, Ids, TokenInv, TypeOK
<1>4. ~row[u].revoked
  BY <1>1, <1>3 DEF TokenInv, SweptOf
<1>5. Tips(f) = {u}
  BY <1>2, <1>4 DEF Tips, LiveRows
<1> QED  BY <1>1, <1>3, <1>5

LEMMA BeginRotateKeeps ==
  ASSUME TokenInv, NEW p \in Requests, NEW t \in Ids, BeginRotate(p, t)
  PROVE  TokenInv'
<1> DEFINE f == row[t].family
<1>1. f \in Families /\ t \in LiveRows(f) /\ t \in 0..MaxRows /\ UNCHANGED <<row, sweep, loggedOut>>
  BY RowsAssumption DEF BeginRotate, TokenInv, TypeOK, RowType, Ids
<1>2. PICK u \in RowsOf(f) : Tips(f) = {u}
  BY <1>1, LiveHasTip
<1>3. u \in 0..MaxRows /\ Max(Tips(f)) = u
  BY <1>2, RowsAssumption DEF RowsOf, Ids, Max
<1> HIDE DEF f
<1>4. CASE row[t].used = "no" /\ rotation' = [rotation EXCEPT ![p] =
             [pc |-> "rotating", family |-> f, prev |-> t, claims |-> TRUE]]
  <2>1. [pc |-> "rotating", family |-> f, prev |-> t, claims |-> TRUE] \in RotationType
    BY <1>1 DEF RotationType
  <2> QED  BY <1>1, <1>4, <2>1, RotationKeeps
<1>5. CASE rotation' = [rotation EXCEPT ![p] =
             [pc |-> "rotating", family |-> f, claims |-> Tips(f) # {},
              prev |-> IF Tips(f) # {} THEN Max(Tips(f)) ELSE t]]
  <2>1. Tips(f) # {}
    BY <1>2
  <2> DEFINE r == [pc |-> "rotating", family |-> f, claims |-> TRUE, prev |-> u]
  <2>2. (Tips(f) # {}) = TRUE /\ (IF Tips(f) # {} THEN Max(Tips(f)) ELSE t) = u
    BY <1>3, <2>1
  <2>3. rotation' = [rotation EXCEPT ![p] = r]
    BY <1>5, <2>2, Zenon
  <2>4. r \in RotationType
    BY <1>1, <1>3 DEF RotationType
  <2> QED  BY <1>1, <2>3, <2>4, RotationKeeps
<1>6. CASE rotation' = [rotation EXCEPT ![p] = [Idle EXCEPT !.pc = "reuse", !.family = f]]
  <2>1. [Idle EXCEPT !.pc = "reuse", !.family = f] \in RotationType
        /\ [Idle EXCEPT !.pc = "reuse", !.family = f].pc # "rotating"
    BY <1>1, IdleType
  <2> QED  BY <1>1, <1>6, <2>1, RotationKeeps
<1> QED  BY <1>4, <1>5, <1>6 DEF BeginRotate, f

LEMMA LoginKeeps == ASSUME TokenInv, NEW f \in Families, Login(f) PROVE TokenInv'
<1> DEFINE n == Min(Free)
           new == [NoRow EXCEPT !.family = f, !.prev = 0]
<1>1. /\ n \in Ids /\ row[n].family = None
      /\ \A j \in Ids : row[j].family # None <=> j < n
  BY NextId DEF Login, TokenInv
<1>2. new \in RowType /\ new.family = f /\ new.used = "no" /\ ~new.revoked
  <2>1. 0 \in 0..MaxRows
    BY RowsAssumption
  <2> QED  BY <2>1, NewRowType
<1>3. row' = [row EXCEPT ![n] = new] /\ RowsOf(f) = {} /\ UNCHANGED <<rotation, sweep, loggedOut>>
  BY DEF Login, Mint
<1> HIDE DEF n, new
<1>4. row'[n] = new /\ \A j \in Ids \ {n} : row'[j] = row[j]
  BY <1>1, <1>3 DEF TokenInv, TypeOK
<1>5. TypeOK'
  BY <1>1, <1>2, <1>3 DEF TokenInv, TypeOK
<1>6. Packed'
  BY <1>1, <1>4 DEF TokenInv, Packed, Ids
<1>7. RotationsClaim'
  BY <1>3 DEF TokenInv, RotationsClaim
<1>8. ChainOf(f)' /\ SweptOf(f)'
  <2>1. RowsOf(f)' = {n}
    BY <1>1, <1>2, <1>3, <1>4 DEF RowsOf
  <2>2. ChainOf(f)'
    BY <1>2, <1>4, <2>1 DEF ChainOf
  <2>3. f \notin loggedOut /\ sweep[f] = 0
    BY <1>3 DEF TokenInv, SweptOf
  <2> QED  BY <1>1, <1>2, <1>3, <1>4, <2>1, <2>2, <2>3 DEF SweptOf, Ids
<1>9. ASSUME NEW g \in Families \ {f} PROVE ChainOf(g)' /\ SweptOf(g)'
  <2>1. RowsOf(g)' = RowsOf(g) /\ n \notin RowsOf(g)
    BY <1>1, <1>2, <1>4, RowsAssumption DEF RowsOf
  <2>2. \A i \in RowsOf(g) : row'[i] = row[i]
    BY <1>4, <2>1 DEF RowsOf
  <2> QED  BY <1>3, <2>1, <2>2, FamilyLeftAlone DEF TokenInv
<1> QED  BY <1>5, <1>6, <1>7, <1>8, <1>9 DEF TokenInv

\* The child of a rotation is the new last row, ahead of every sweep of its family.
LEMMA ChildKeeps ==
  ASSUME TokenInv, NEW f \in Families, NEW prev \in Tips(f), NEW p \in Requests, Free # {},
         Mint([row EXCEPT ![prev].used = "recent"], f, prev), Finish(p),
         UNCHANGED <<sweep, loggedOut>>
  PROVE  TokenInv'
<1> DEFINE used == [row EXCEPT ![prev].used = "recent"]
           n == Min(Free)
           new == [NoRow EXCEPT !.family = f, !.prev = prev]
<1>1. /\ n \in Ids /\ row[n].family = None
      /\ \A j \in Ids : row[j].family # None <=> j < n
  BY NextId DEF TokenInv
<1>2. prev \in 0..MaxRows
  BY RowsAssumption DEF Tips, LiveRows, RowsOf, Ids
<1>3. new \in RowType /\ new.family = f /\ new.used = "no" /\ ~new.revoked
  BY <1>2, NewRowType
<1>4. row' = [used EXCEPT ![n] = new]
  BY DEF Mint
<1>5. prev \in LiveRows(f) /\ prev \in RowsOf(f) /\ prev \in Ids
  BY <1>2 DEF Tips, LiveRows, RowsOf
<1>6. f \notin loggedOut /\ Tips(f) = {prev} /\ ~ (prev < sweep[f])
  BY <1>2, <1>5, LiveHasTip
<1>7. prev < n
  BY <1>1, <1>2, <1>5, RowsAssumption DEF RowsOf
<1>8. \A j \in RowsOf(f) \ {prev} : row[j].used # "no"
  <2>1. PICK u \in RowsOf(f) : row[u].used = "no" /\ \A j \in RowsOf(f) \ {u} : row[j].used # "no"
    BY <1>2, <1>5 DEF TokenInv, ChainOf
  <2> QED  BY <1>2, <1>5, <2>1 DEF Tips
<1>9. used \in [Ids -> RowType] /\ used[prev] = [row[prev] EXCEPT !.used = "recent"]
      /\ \A j \in Ids \ {prev} : used[j] = row[j]
  BY <1>5 DEF TokenInv, TypeOK, RowType
<1>10. used[prev].used = "recent" /\ used[prev].family = f /\ used[prev].revoked = row[prev].revoked
  BY <1>5, <1>9 DEF TokenInv, TypeOK, RowType, RowsOf
<1> HIDE DEF n, new, used
<1>11. /\ row' \in [Ids -> RowType] /\ row'[n] = new
       /\ \A j \in Ids \ {n} : row'[j] = used[j]
  BY <1>1, <1>3, <1>4, <1>9
<1>12. \A j \in Ids \ {n} : row'[j].family = row[j].family /\ row'[j].revoked = row[j].revoked
  BY <1>5, <1>9, <1>10, <1>11 DEF RowsOf
<1>13. TypeOK' /\ RotationsClaim'
  BY <1>11, IdleType DEF TokenInv, TypeOK, RotationsClaim, Finish
<1>14. Packed'
  BY <1>1, <1>12 DEF TokenInv, Packed, Ids
<1>15. ChainOf(f)' /\ SweptOf(f)'
  <2>1. RowsOf(f)' = RowsOf(f) \cup {n}
    BY <1>1, <1>3, <1>11, <1>12 DEF RowsOf
  <2>2. \A j \in RowsOf(f) : j < n /\ j # n /\ row'[j].used # "no"
    <3>1. ASSUME NEW j \in RowsOf(f) PROVE j \in Ids /\ j < n /\ j # n
      BY <1>1, RowsAssumption DEF RowsOf, Ids
    <3>2. ASSUME NEW j \in RowsOf(f) PROVE row'[j].used # "no"
      BY <1>5, <1>8, <1>9, <1>10, <1>11, <3>1
    <3> QED  BY <3>1, <3>2
  <2>3. ChainOf(f)'
    BY <1>3, <1>11, <2>1, <2>2 DEF ChainOf
  <2>4. ~ (n < sweep[f])
    BY <1>1, <1>2, <1>5, <1>6, <1>7, RowsAssumption DEF Ids, TokenInv, TypeOK
  <2> QED
    BY <1>3, <1>4, <1>6, <1>11, <1>12, <2>1, <2>2, <2>3, <2>4 DEF SweptOf, TokenInv, RowsOf
<1>16. ASSUME NEW g \in Families \ {f} PROVE ChainOf(g)' /\ SweptOf(g)'
  <2>1. RowsOf(g)' = RowsOf(g) /\ n \notin RowsOf(g) /\ prev \notin RowsOf(g)
    BY <1>1, <1>3, <1>5, <1>11, <1>12, RowsAssumption DEF RowsOf
  <2>2. \A i \in RowsOf(g) : row'[i] = row[i]
    BY <1>9, <1>11, <2>1 DEF RowsOf
  <2> QED  BY <1>4, <2>1, <2>2, FamilyLeftAlone DEF TokenInv
<1> QED  BY <1>13, <1>14, <1>15, <1>16 DEF TokenInv

LEMMA CommitKeeps == ASSUME TokenInv, NEW p \in Requests, CommitRotate(p) PROVE TokenInv'
<1>1. rotation[p].claims /\ rotation[p].family \in Families
      /\ rotation[p].prev \in Tips(rotation[p].family)
  BY DEF CommitRotate, Claimable, TokenInv, RotationsClaim
<1>2. Mint([row EXCEPT ![rotation[p].prev].used = "recent"], rotation[p].family, rotation[p].prev)
  BY <1>1 DEF CommitRotate
<1> QED  BY <1>1, <1>2, ChildKeeps DEF CommitRotate

LEMMA SweepRowKeeps == ASSUME TokenInv, NEW f \in Families, SweepRow(f) PROVE TokenInv'
<1> DEFINE ahead == {i \in RowsOf(f) : i >= sweep[f]}
           m == Min(ahead)
<1>1. m \in ahead /\ \A i \in ahead : m <= i
  <2>1. ahead \in SUBSET Nat /\ ahead # {}
    BY RowsAssumption DEF SweepRow, RowsOf, Ids
  <2> HIDE DEF ahead
  <2> QED  BY <2>1, MinOf
<1>2. /\ row' = [row EXCEPT ![m].revoked = TRUE] /\ sweep[f] # 0
      /\ sweep' = [sweep EXCEPT ![f] = m + 1] /\ UNCHANGED <<rotation, loggedOut>>
  BY DEF SweepRow
<1> HIDE DEF m
<1>3. m \in Ids /\ m \in RowsOf(f) /\ m >= sweep[f] /\ sweep[f] \in Nat
  BY <1>1, RowsAssumption DEF RowsOf, TokenInv, TypeOK
<1>4. /\ row' \in [Ids -> RowType] /\ row'[m].revoked
      /\ \A i \in Ids : row'[i].family = row[i].family /\ row'[i].used = row[i].used
      /\ \A i \in Ids \ {m} : row'[i] = row[i]
  BY <1>2, <1>3 DEF TokenInv, TypeOK, RowType
<1>5. \A g \in Families : RowsOf(g)' = RowsOf(g)
  BY <1>4 DEF RowsOf
<1>6. TypeOK' /\ RotationsClaim'
  <2>1. m + 1 \in 0..MaxRows + 1
    BY <1>3, RowsAssumption DEF Ids
  <2> QED  BY <1>2, <1>4, <2>1 DEF TokenInv, TypeOK, RotationsClaim
<1>7. Packed'
  BY <1>4 DEF TokenInv, Packed
<1>8. ChainOf(f)'
  BY <1>4, <1>5 DEF TokenInv, ChainOf, RowsOf
<1>9. SweptOf(f)'
  <2>1. sweep'[f] = m + 1
    BY <1>2 DEF TokenInv, TypeOK
  <2>2. ASSUME NEW i \in RowsOf(f), f \notin loggedOut PROVE row'[i].revoked <=> i < m + 1
    <3>1. row[i].revoked <=> i < sweep[f]
      BY <2>2 DEF TokenInv, SweptOf
    <3>2. i >= sweep[f] => m <= i
      BY <1>1
    <3>3. i \in Nat /\ m \in Nat
      BY <1>3, RowsAssumption DEF RowsOf, Ids
    <3>4. CASE i = m
      BY <1>4, <3>3, <3>4
    <3>5. CASE i # m
      BY <1>3, <1>4, <3>1, <3>2, <3>3, <3>5 DEF RowsOf
    <3> QED  BY <3>4, <3>5
  <2>3. \A i \in RowsOf(f) : f \in loggedOut => row'[i].revoked
    BY <1>4 DEF TokenInv, SweptOf, RowsOf
  <2> QED  BY <1>2, <1>3, <1>5, <2>1, <2>2, <2>3 DEF SweptOf
<1>10. ASSUME NEW g \in Families \ {f} PROVE ChainOf(g)' /\ SweptOf(g)'
  <2>1. \A i \in RowsOf(g) : row'[i] = row[i]
    BY <1>3, <1>4 DEF RowsOf
  <2> QED  BY <1>2, <1>5, <2>1, FamilyLeftAlone DEF TokenInv, TypeOK
<1> QED  BY <1>6, <1>7, <1>8, <1>9, <1>10 DEF TokenInv

LEMMA SweepEndsKeep ==
  ASSUME TokenInv, NEW f \in Families, BeginSweep(f) \/ EndSweep(f)
  PROVE  TokenInv'
<1>1. UNCHANGED <<row, rotation>> /\ RowsOf(f) # {}
  BY DEF BeginSweep, EndSweep, TokenInv, SweptOf
<1>2. TypeOK' /\ Packed' /\ RotationsClaim'
  BY RowsAssumption DEF TokenInv, TypeOK, Packed, RotationsClaim, BeginSweep, EndSweep
<1>3. \A g \in Families : RowsOf(g)' = RowsOf(g)
  BY <1>1 DEF RowsOf
<1>4. ChainOf(f)'
  BY <1>1, <1>3 DEF TokenInv, ChainOf
<1>5. \A i \in RowsOf(f) : i \in Nat /\ i >= 1
  BY RowsAssumption DEF RowsOf, Ids
<1>6. CASE BeginSweep(f)
  <2>1. sweep[f] = 0 /\ sweep'[f] = 1 /\ UNCHANGED loggedOut
    BY <1>6 DEF BeginSweep, TokenInv, TypeOK
  <2>2. SweptOf(f)'
    BY <1>1, <1>3, <1>5, <2>1 DEF TokenInv, SweptOf
  <2>3. \A g \in Families \ {f} : sweep'[g] = sweep[g]
    BY <1>6 DEF BeginSweep, TokenInv, TypeOK
  <2> QED  BY <1>1, <1>2, <1>3, <1>4, <2>1, <2>2, <2>3, FamilyLeftAlone DEF TokenInv
<1>7. CASE EndSweep(f)
  <2>1. f \in loggedOut' /\ \A g \in Families \ {f} : sweep'[g] = sweep[g]
                                                       /\ (g \in loggedOut' <=> g \in loggedOut)
    BY <1>7 DEF EndSweep, TokenInv, TypeOK
  <2>2. \A i \in RowsOf(f) : row[i].revoked
    BY <1>7 DEF EndSweep, TokenInv, SweptOf
  <2>3. SweptOf(f)'
    BY <1>1, <1>3, <2>1, <2>2 DEF SweptOf
  <2> QED  BY <1>1, <1>2, <1>3, <1>4, <2>1, <2>3, FamilyLeftAlone DEF TokenInv
<1> QED  BY <1>6, <1>7

LEMMA GraceKeeps == ASSUME TokenInv, NEW t \in Ids, GraceEnds(t) PROVE TokenInv'
<1>1. row' = [row EXCEPT ![t].used = "old"] /\ row[t].used = "recent"
      /\ UNCHANGED <<rotation, sweep, loggedOut>>
  BY DEF GraceEnds
<1>2. /\ row' \in [Ids -> RowType]
      /\ \A i \in Ids : row'[i].family = row[i].family /\ row'[i].revoked = row[i].revoked
                        /\ (row'[i].used = "no" <=> row[i].used = "no")
  BY <1>1 DEF TokenInv, TypeOK, RowType
<1>3. TypeOK' /\ Packed' /\ RotationsClaim'
  BY <1>1, <1>2 DEF TokenInv, TypeOK, Packed, RotationsClaim
<1>4. \A g \in Families : RowsOf(g)' = RowsOf(g) /\ RowsOf(g) \subseteq Ids
  BY <1>2 DEF RowsOf
<1> QED  BY <1>1, <1>2, <1>3, <1>4, FamilyLeftAlone DEF TokenInv

LEMMA TokenInvInit == Init => TokenInv
<1> SUFFICES ASSUME Init PROVE TokenInv
  OBVIOUS
<1>1. NoRow \in RowType /\ Idle \in RotationType
  BY RowsAssumption DEF NoRow, RowType, Idle, RotationType
<1>2. TypeOK
  BY <1>1, RowsAssumption DEF Init, TypeOK
<1>3. \A f \in Families : RowsOf(f) = {}
  BY RowsAssumption DEF Init, RowsOf, NoRow
<1> QED
  BY <1>2, <1>3 DEF Init, TokenInv, Packed, RotationsClaim, ChainOf, SweptOf, NoRow, Idle

LEMMA TokenNextKeeps == TokenInv /\ [Next]_vars => TokenInv'
<1> SUFFICES ASSUME TokenInv, [Next]_vars PROVE TokenInv'
  OBVIOUS
<1>1. CASE \E f \in Families : Login(f)
  BY <1>1, LoginKeeps
<1>2. CASE \E f \in Families : BeginSweep(f) \/ EndSweep(f)
  BY <1>2, SweepEndsKeep
<1>3. CASE \E f \in Families : SweepRow(f)
  BY <1>3, SweepRowKeeps
<1>4. CASE \E p \in Requests, t \in Ids : BeginRotate(p, t)
  BY <1>4, BeginRotateKeeps
<1>5. CASE \E p \in Requests : CommitRotate(p)
  BY <1>5, CommitKeeps
<1>6. CASE \E p \in Requests : ReportReuse(p) \/ AbortRotate(p)
  BY <1>6, FinishKeeps DEF ReportReuse, AbortRotate
<1>7. CASE \E t \in Ids : GraceEnds(t)
  BY <1>7, GraceKeeps
<1>8. CASE UNCHANGED vars
  <2>1. \A f \in Families : RowsOf(f)' = RowsOf(f)
    BY <1>8 DEF vars, RowsOf
  <2>2. \A f \in Families : ChainOf(f)' /\ SweptOf(f)'
    BY <1>8, <2>1, FamilyLeftAlone DEF vars, TokenInv
  <2> QED  BY <1>8, <2>2 DEF vars, TokenInv, TypeOK, Packed, RotationsClaim
<1> QED  BY <1>1, <1>2, <1>3, <1>4, <1>5, <1>6, <1>7, <1>8 DEF Next

LEMMA TokenInvAlways == Spec => []TokenInv
  BY TokenInvInit, TokenNextKeeps, PTL DEF Spec

\* What the invariant says of one family.
LEMMA TokenInvMeans == TokenInv => TypeOK /\ OneTip /\ LogoutIsFinal
<1> SUFFICES ASSUME TokenInv PROVE TypeOK /\ OneTip /\ LogoutIsFinal
  OBVIOUS
<1>1. LogoutIsFinal
  BY DEF TokenInv, TypeOK, SweptOf, LogoutIsFinal, LiveRows
<1>2. ASSUME NEW f \in Families PROVE Cardinality(Tips(f)) <= 1
  <2>1. CASE LiveRows(f) = {}
    BY <2>1, FS_EmptySet DEF Tips
  <2>2. CASE LiveRows(f) # {}
    BY <2>2, LiveHasTip, FS_Singleton
  <2> QED  BY <2>1, <2>2
<1> QED  BY <1>1, <1>2 DEF OneTip, TokenInv

\* A family never has two tokens that can both be rotated: neither a race nor a retry
\* forks a session (rotate, firstTip).
THEOREM OneTipTheorem == Spec => []OneTip
  BY TokenInvAlways, TokenInvMeans, PTL

\* After a logout or a password reset no row of the family is live, a child minted
\* while it ran included (revokeFamilyOf, revokeAllForUser).
THEOREM LogoutTheorem == Spec => []LogoutIsFinal
  BY TokenInvAlways, TokenInvMeans, PTL

-------------------------------------------------------------------------------
(* The client.                                                               *)

\* Tokens of a row, with the account and the email that belong to it.
BoundIn(rows, s) ==
  /\ s.token \in Ids /\ s.family \in Families /\ rows[s.token].family = s.family
  /\ s.emailOf = EmailOf(s.family)
Bound(s) == BoundIn(row, s)

\* What a command holds is bound wherever it may still be stored or sent, and the
\* rotation under way for it, which it has not had before, is of the account it holds.
Holding == {"issued", "code", "rotate", "rotated", "revoke"}
Early == {"start", "current", "mint", "issued", "code", "bearer"}
CommandSound(c) ==
  /\ command[c].pc \in Holding => Bound(command[c].holds)
  /\ command[c].pc \in Early => rotation[c].pc = "idle"
  /\ command[c].pc = "rotate" /\ rotation[c].pc # "idle" =>
       rotation[c].family = command[c].holds.family

SessionInv ==
  /\ TokenInv
  /\ session \in SessionType /\ identity \in IdentityType
  /\ command \in [Requests -> CommandType]
  /\ session = NoSession \/ Bound(session)
  /\ \A c \in Requests : CommandSound(c)

-------------------------------------------------------------------------------
(* Records.                                                                  *)

LEMMA SessionRecords ==
  /\ NoSession \in SessionType /\ NoSession.family = None
  /\ \A f \in Families \cup {None} : [NoSession EXCEPT !.family = f] \in SessionType
  /\ \A s \in SessionType : [s EXCEPT !.near = TRUE] \in SessionType
  /\ \A t \in 0..MaxRows, f \in Families, e \in Families \cup {None} :
       Issued(t, f, e) \in SessionType
<1>1. NoSession \in SessionType /\ NoSession.family = None
  BY RowsAssumption DEF NoSession, SessionType
<1>2. ASSUME NEW s \in SessionType, NEW f \in Families \cup {None}
      PROVE  [s EXCEPT !.family = f] \in SessionType /\ [s EXCEPT !.near = TRUE] \in SessionType
  BY DEF SessionType
<1>3. ASSUME NEW t \in 0..MaxRows, NEW f \in Families, NEW e \in Families \cup {None}
      PROVE  Issued(t, f, e) \in SessionType
  BY <1>3 DEF Issued, SessionType
<1> QED  BY <1>1, <1>2, <1>3

LEMMA NoCommandRecord == NoCommand \in CommandType /\ NoCommand.pc = "idle"
  BY SessionRecords DEF NoCommand, CommandType

Points == {"idle", "start", "current", "mint", "issued", "code", "bearer", "rotate", "rotated",
           "device", "mark", "revoke", "clear"}
LEMMA GotoRecord ==
  ASSUME NEW r \in CommandType, NEW pc \in Points
  PROVE  LET s == [r EXCEPT !.pc = pc] IN s \in CommandType /\ s.pc = pc /\ s.holds = r.holds
  BY DEF CommandType, Points

LEMMA HoldRecord ==
  ASSUME NEW r \in CommandType, NEW h \in SessionType
  PROVE  LET s == [r EXCEPT !.holds = h] IN s \in CommandType /\ s.pc = r.pc /\ s.holds = h
  BY DEF CommandType

-------------------------------------------------------------------------------
(* The server.                                                               *)

\* A row keeps its family.
LEMMA FamiliesStay ==
  ASSUME TokenInv, [Next]_vars
  PROVE  \A i \in Ids : row[i].family # None => row'[i].family = row[i].family
<1>1. CASE UNCHANGED row
  BY <1>1
<1>2. CASE \E f \in Families : Login(f)
  <2>1. PICK f \in Families : Login(f)
    BY <1>2
  <2>2. Min(Free) \in Ids /\ row[Min(Free)].family = None
    BY <2>1, NextId DEF Login, TokenInv
  <2> QED  BY <2>1, <2>2 DEF Login, Mint, TokenInv, TypeOK
<1>3. CASE \E p \in Requests : CommitRotate(p)
  <2>1. PICK p \in Requests : CommitRotate(p)
    BY <1>3
  <2>2. Min(Free) \in Ids /\ row[Min(Free)].family = None
    BY <2>1, NextId DEF CommitRotate, TokenInv
  <2>3. row' = [[row EXCEPT ![rotation[p].prev].used = "recent"] EXCEPT
                  ![Min(Free)] = [NoRow EXCEPT !.family = rotation[p].family,
                                               !.prev = rotation[p].prev]]
    BY <2>1 DEF CommitRotate, Mint, TokenInv, RotationsClaim
  <2> QED  BY <2>2, <2>3 DEF TokenInv, TypeOK, RowType
<1>4. CASE \E f \in Families : SweepRow(f)
  BY <1>4 DEF SweepRow, TokenInv, TypeOK, RowType
<1>5. CASE \E t \in Ids : GraceEnds(t)
  BY <1>5 DEF GraceEnds, TokenInv, TypeOK, RowType
<1> QED
  BY <1>1, <1>2, <1>3, <1>4, <1>5
  DEF Next, vars, BeginSweep, EndSweep, BeginRotate, ReportReuse, AbortRotate

\* The row that a step inserts is of the family it was inserted for.
LEMMA MintedRow ==
  ASSUME TokenInv, NEW f \in Families, Free # {}, NEW prev \in 0..MaxRows,
         NEW rows \in [Ids -> RowType], Mint(rows, f, prev)
  PROVE  Min(Free) \in Ids /\ row'[Min(Free)].family = f
<1>1. Min(Free) \in Ids
  BY NextId DEF TokenInv
<1>2. [NoRow EXCEPT !.family = f, !.prev = prev].family = f
  BY NewRowType
<1> QED  BY <1>1, <1>2 DEF Mint

LEMMA BoundStays ==
  ASSUME TokenInv, \A i \in Ids : row[i].family # None => row'[i].family = row[i].family,
         NEW s, Bound(s)
  PROVE  BoundIn(row', s)
  BY RowsAssumption DEF Bound, BoundIn

LEMMA ServerUnchanged ==
  ASSUME TokenInv, UNCHANGED server
  PROVE  /\ TokenInv' /\ UNCHANGED <<row, rotation>>
         /\ \A i \in Ids : row[i].family # None => row'[i].family = row[i].family
<1>1. UNCHANGED vars /\ UNCHANGED <<row, rotation>>
  BY DEF server, vars
<1> QED  BY <1>1, TokenNextKeeps, FamiliesStay

-------------------------------------------------------------------------------
(* The steps.                                                                *)

\* A step of one command.
LEMMA StepKeeps ==
  ASSUME SessionInv, TokenInv',
         \A i \in Ids : row[i].family # None => row'[i].family = row[i].family,
         NEW c \in Requests, NEW r \in CommandType, command' = [command EXCEPT ![c] = r],
         \A d \in Requests \ {c} : rotation'[d] = rotation[d],
         session' \in SessionType, session' = NoSession \/ BoundIn(row', session'),
         identity' \in IdentityType,
         r.pc \in Holding => BoundIn(row', r.holds),
         r.pc \in Early => rotation'[c].pc = "idle",
         r.pc = "rotate" /\ rotation'[c].pc # "idle" => rotation'[c].family = r.holds.family
  PROVE  SessionInv'
<1>1. command' \in [Requests -> CommandType] /\ command'[c] = r
      /\ \A d \in Requests \ {c} : command'[d] = command[d]
  BY DEF SessionInv
<1>2. CommandSound(c)'
  BY <1>1 DEF CommandSound, Bound
<1>3. ASSUME NEW d \in Requests \ {c} PROVE CommandSound(d)'
  <2>1. CommandSound(d) /\ command'[d] = command[d] /\ rotation'[d] = rotation[d]
    BY <1>1 DEF SessionInv
  <2>2. command[d].pc \in Holding => BoundIn(row', command[d].holds)
    BY <2>1, BoundStays DEF CommandSound, SessionInv
  <2> QED  BY <2>1, <2>2 DEF CommandSound, Bound
<1> QED  BY <1>1, <1>2, <1>3 DEF SessionInv, Bound

\* One that leaves the server and the session alone.
LEMMA LocalStepKeeps ==
  ASSUME SessionInv, UNCHANGED <<server, session>>,
         NEW c \in Requests, NEW r \in CommandType, command' = [command EXCEPT ![c] = r],
         identity' \in IdentityType,
         r.pc \in Holding => Bound(r.holds),
         r.pc \in Early => rotation[c].pc = "idle",
         r.pc = "rotate" /\ rotation[c].pc # "idle" => rotation[c].family = r.holds.family
  PROVE  SessionInv'
<1>1. /\ TokenInv' /\ UNCHANGED <<row, rotation>>
      /\ \A i \in Ids : row[i].family # None => row'[i].family = row[i].family
  BY ServerUnchanged DEF SessionInv
<1>2. session' \in SessionType /\ (session' = NoSession \/ BoundIn(row', session'))
  BY <1>1 DEF SessionInv, Bound
<1>3. r.pc \in Holding => BoundIn(row', r.holds)
  BY <1>1 DEF Bound
<1> QED  BY <1>1, <1>2, <1>3, StepKeeps

\* A command ends.
LEMMA EndKeeps ==
  ASSUME SessionInv, UNCHANGED <<server, session>>, NEW c \in Requests, End(c),
         identity' \in IdentityType
  PROVE  SessionInv'
<1>1. NoCommand \in CommandType /\ NoCommand.pc = "idle"
  BY NoCommandRecord
<1> QED  BY <1>1, LocalStepKeeps DEF End, Holding, Early

\* A command goes on, past its rotation or before it.
LEMMA GotoKeeps ==
  ASSUME SessionInv, UNCHANGED <<server, session>>, NEW c \in Requests, identity' \in IdentityType,
         NEW pc \in {"current", "mint", "code", "bearer", "device", "mark"}, Goto(c, pc),
         pc = "code" => command[c].pc = "issued",
         pc \in Early => rotation[c].pc = "idle"
  PROVE  SessionInv'
<1> DEFINE r == [command[c] EXCEPT !.pc = pc]
<1>1. r \in CommandType /\ r.pc = pc /\ r.holds = command[c].holds /\ CommandSound(c)
  <2>1. pc \in Points /\ command[c] \in CommandType /\ CommandSound(c)
    BY DEF SessionInv, Points
  <2> QED  BY <2>1, GotoRecord
<1>2. command' = [command EXCEPT ![c] = r]
  BY DEF Goto, SessionInv
<1>3. pc = "code" => Bound(command[c].holds)
  BY <1>1 DEF CommandSound, Holding
<1> HIDE DEF r
<1> QED  BY <1>1, <1>2, <1>3, LocalStepKeeps DEF Holding

LEMMA ToBearerKeeps ==
  ASSUME SessionInv, UNCHANGED <<server, session>>, NEW c \in Requests, identity' \in IdentityType,
         ToBearer(c), command[c].pc \in Early
  PROVE  SessionInv'
<1>1. CASE End(c)
  BY <1>1, EndKeeps
<1>2. CASE command' = [command EXCEPT ![c].pc = "bearer", ![c].holds = NoSession]
  <2> DEFINE q == [command[c] EXCEPT !.pc = "bearer"]
             r == [q EXCEPT !.holds = NoSession]
  <2>1. q \in CommandType /\ q.pc = "bearer" /\ CommandSound(c)
    BY GotoRecord DEF SessionInv, Points
  <2>2. command' = [command EXCEPT ![c] = r]
    BY <1>2 DEF SessionInv
  <2> HIDE DEF q
  <2>3. r \in CommandType /\ r.pc = "bearer"
    BY <2>1, HoldRecord, SessionRecords
  <2> HIDE DEF r
  <2> QED  BY <2>1, <2>2, <2>3, LocalStepKeeps DEF Holding, CommandSound
<1> QED  BY <1>1, <1>2 DEF ToBearer

\* What follows a bearer, sent or stored beforehand.
LEMMA AfterBearer ==
  ASSUME SessionInv, NEW c \in Requests, NEW s \in SessionType, WithBearer(c, s)
  PROVE  \E r \in CommandType : command' = [command EXCEPT ![c] = r] /\ r.pc \in {"idle", "device"}
<1>1. CASE End(c)
  BY <1>1, NoCommandRecord DEF End
<1>2. CASE command' = [command EXCEPT ![c].pc = "device",
                                  ![c].holds = [NoSession EXCEPT !.family = s.family]]
  <2> DEFINE q == [command[c] EXCEPT !.pc = "device"]
             h == [NoSession EXCEPT !.family = s.family]
             r == [q EXCEPT !.holds = h]
  <2>1. q \in CommandType /\ q.pc = "device"
    BY GotoRecord DEF SessionInv, Points
  <2>2. h \in SessionType
    BY SessionRecords DEF SessionType
  <2>3. command' = [command EXCEPT ![c] = r]
    BY <1>2 DEF SessionInv
  <2> HIDE DEF q, h
  <2>4. r \in CommandType /\ r.pc = "device"
    BY <2>1, <2>2, HoldRecord
  <2> QED  BY <2>3, <2>4
<1> QED  BY <1>1, <1>2 DEF WithBearer

LEMMA WithBearerKeeps ==
  ASSUME SessionInv, UNCHANGED <<server, session, identity>>, NEW c \in Requests,
         NEW s \in SessionType, WithBearer(c, s)
  PROVE  SessionInv'
<1>1. PICK r \in CommandType : command' = [command EXCEPT ![c] = r] /\ r.pc \in {"idle", "device"}
  BY AfterBearer
<1>2. identity' \in IdentityType
  BY DEF SessionInv
<1> QED  BY <1>1, <1>2, LocalStepKeeps DEF Holding, Early

LEMMA BeginKeeps ==
  ASSUME SessionInv, NEW c \in Requests, NEW kind \in {"bearer", "login", "ensure", "logout"},
         Begin(c, kind)
  PROVE  SessionInv'
<1>1. PICK pc \in {"bearer", "mint", "start"} :
        command' = [command EXCEPT ![c] = [NoCommand EXCEPT !.kind = kind, !.pc = pc]]
  BY DEF Begin
<1> DEFINE q == [NoCommand EXCEPT !.kind = kind]
           r == [q EXCEPT !.pc = pc]
<1>2. q \in CommandType
  BY SessionRecords DEF NoCommand, CommandType
<1> HIDE DEF q
<1>3. r \in CommandType /\ r.pc = pc
  <2>1. pc \in Points
    BY DEF Points
  <2> QED  BY <1>2, <2>1, GotoRecord
<1>4. command' = [command EXCEPT ![c] = r]
  BY <1>1 DEF q
<1>5. rotation[c].pc = "idle" /\ UNCHANGED <<server, session>> /\ identity' \in IdentityType
  BY DEF Begin, SessionInv
<1> HIDE DEF r
<1> QED  BY <1>3, <1>4, <1>5, LocalStepKeeps DEF Holding

LEMMA RegisteredRecord ==
  ASSUME NEW r \in CommandType, NEW b \in BOOLEAN
  PROVE  LET s == [r EXCEPT !.registered = b] IN s \in CommandType /\ s.pc = r.pc
  BY DEF CommandType

LEMMA IdentityRecords ==
  ASSUME identity \in IdentityType
  PROVE  /\ EnsuredIdentity \in IdentityType
         /\ \A f \in Families : [EnsuredIdentity EXCEPT !.code = f] \in IdentityType
         /\ \A f \in Families \cup {None} : Marked(identity, f) \in IdentityType
<1>1. EnsuredIdentity \in IdentityType
  BY DEF EnsuredIdentity, IdentityType, NoIdentity
<1>2. ASSUME NEW id \in IdentityType, NEW f \in Families \cup {None}
      PROVE  [id EXCEPT !.code = f] \in IdentityType /\ [id EXCEPT !.device = f] \in IdentityType
  BY DEF IdentityType
<1>3. \A f \in Families : [EnsuredIdentity EXCEPT !.code = f] \in IdentityType
  BY <1>1, <1>2
<1> QED  BY <1>1, <1>2, <1>3 DEF Marked

LEMMA EnsureIdentityKeeps ==
  ASSUME SessionInv, NEW c \in Requests, EnsureIdentity(c) PROVE SessionInv'
<1> DEFINE q == [command[c] EXCEPT !.pc = "current"]
           b == EnsuredIdentity.device # None
           r == [q EXCEPT !.registered = b]
<1>1. q \in CommandType /\ q.pc = "current" /\ CommandSound(c) /\ command[c].pc = "start"
  BY GotoRecord DEF SessionInv, Points, EnsureIdentity, At
<1>2. b \in BOOLEAN
  OBVIOUS
<1>3. command' = [command EXCEPT ![c] = r]
  BY DEF EnsureIdentity, SessionInv
<1>4. UNCHANGED <<server, session>> /\ identity' \in IdentityType
  BY IdentityRecords DEF EnsureIdentity, SessionInv
<1> HIDE DEF q, b
<1>5. r \in CommandType /\ r.pc = "current"
  BY <1>1, <1>2, RegisteredRecord
<1> HIDE DEF r
<1> QED  BY <1>1, <1>3, <1>4, <1>5, LocalStepKeeps DEF CommandSound, Early, Holding

LEMMA CheckCurrentKeeps ==
  ASSUME SessionInv, NEW c \in Requests, CheckCurrent(c) PROVE SessionInv'
<1>1. /\ UNCHANGED <<server, session>> /\ identity' \in IdentityType
      /\ command[c].pc \in Early /\ rotation[c].pc = "idle"
  BY DEF CheckCurrent, At, SessionInv, CommandSound, Early
<1> QED  BY <1>1, GotoKeeps, ToBearerKeeps DEF CheckCurrent

\* The end of a command, whatever else the step did.
LEMMA EndAnyKeeps ==
  ASSUME SessionInv, TokenInv', [Next]_vars, NEW c \in Requests, End(c),
         \A d \in Requests \ {c} : rotation'[d] = rotation[d],
         session' \in SessionType, session' = NoSession \/ BoundIn(row', session'),
         identity' \in IdentityType
  PROVE  SessionInv'
<1>1. \A i \in Ids : row[i].family # None => row'[i].family = row[i].family
  BY FamiliesStay DEF SessionInv
<1> QED  BY <1>1, NoCommandRecord, StepKeeps DEF End, Holding, Early

\* The session survives what the server does.
LEMMA SessionStays ==
  ASSUME SessionInv, [Next]_vars, UNCHANGED session
  PROVE  /\ session' \in SessionType /\ (session' = NoSession \/ BoundIn(row', session'))
         /\ TokenInv' /\ \A i \in Ids : row[i].family # None => row'[i].family = row[i].family
<1>1. TokenInv' /\ \A i \in Ids : row[i].family # None => row'[i].family = row[i].family
  BY TokenNextKeeps, FamiliesStay DEF SessionInv
<1> QED  BY <1>1, BoundStays DEF SessionInv

\* An answer is stored as the row it came with.
LEMMA AnswerKeeps ==
  ASSUME SessionInv, [Next]_vars, UNCHANGED <<session, identity>>, NEW c \in Requests,
         NEW pc \in {"issued", "rotated"}, NEW t \in Ids, NEW f \in Families, row'[t].family = f,
         command' = [command EXCEPT ![c].pc = pc, ![c].holds = Issued(t, f, EmailOf(f))],
         \A d \in Requests \ {c} : rotation'[d] = rotation[d],
         pc = "issued" => rotation'[c].pc = "idle"
  PROVE  SessionInv'
<1> DEFINE h == Issued(t, f, EmailOf(f))
           q == [command[c] EXCEPT !.pc = pc]
           r == [q EXCEPT !.holds = h]
<1>1. h \in SessionType /\ BoundIn(row', h)
  <2>1. t \in 0..MaxRows /\ EmailOf(f) \in Families \cup {None}
    BY RowsAssumption DEF Ids, EmailOf
  <2>2. h \in SessionType
    BY <2>1, SessionRecords
  <2> QED  BY <2>2 DEF Issued, BoundIn
<1>2. q \in CommandType /\ q.pc = pc
  <2>1. pc \in Points /\ command[c] \in CommandType
    BY DEF SessionInv, Points
  <2> QED  BY <2>1, GotoRecord
<1>3. command' = [command EXCEPT ![c] = r]
  BY DEF SessionInv
<1> HIDE DEF h, q
<1>4. r \in CommandType /\ r.pc = pc /\ r.holds = h
  BY <1>1, <1>2, HoldRecord
<1> HIDE DEF r
<1>5. identity' \in IdentityType
  BY DEF SessionInv
<1> QED  BY <1>1, <1>3, <1>4, <1>5, SessionStays, StepKeeps DEF Early

LEMMA IssueKeeps ==
  ASSUME SessionInv, NEW c \in Requests, NEW f \in Families, Issue(c, f) PROVE SessionInv'
<1>1. Login(f) /\ UNCHANGED <<session, identity, rotation>> /\ [Next]_vars
  BY DEF Issue, Login, Next
<1>2. Min(Free) \in Ids /\ row'[Min(Free)].family = f
  <2>1. 0 \in 0..MaxRows /\ row \in [Ids -> RowType] /\ TokenInv
    BY RowsAssumption DEF SessionInv, TokenInv, TypeOK
  <2> QED  BY <1>1, <2>1, MintedRow DEF Login
<1>3. rotation[c].pc = "idle" /\ identity' \in IdentityType
  BY <1>1 DEF Issue, At, SessionInv, CommandSound, Early
<1>4. CASE End(c)
  BY <1>1, <1>3, <1>4, SessionStays, EndAnyKeeps
<1>5. CASE command' = [command EXCEPT ![c].pc = "issued",
                                   ![c].holds = Issued(Min(Free), f, EmailOf(f))]
  BY <1>1, <1>2, <1>3, <1>5, AnswerKeeps
<1> QED  BY <1>4, <1>5 DEF Issue

LEMMA PersistKeeps == ASSUME SessionInv, NEW c \in Requests, Persist(c) PROVE SessionInv'
<1>1. /\ command[c].pc = "issued" /\ session' = command[c].holds /\ UNCHANGED <<server, identity>>
      /\ command[c] \in CommandType /\ Bound(command[c].holds) /\ rotation[c].pc = "idle"
  BY DEF Persist, At, SessionInv, CommandSound, Holding, Early
<1>2. /\ TokenInv' /\ UNCHANGED <<row, rotation>>
      /\ \A i \in Ids : row[i].family # None => row'[i].family = row[i].family
  BY <1>1, ServerUnchanged DEF SessionInv
<1>3. session' \in SessionType /\ BoundIn(row', session') /\ identity' \in IdentityType
  BY <1>1, <1>2 DEF CommandType, Bound, SessionInv
<1>4. CASE End(c)
  BY <1>2, <1>3, <1>4, NoCommandRecord, StepKeeps DEF End, Holding, Early
<1>5. CASE Goto(c, "code")
  <2> DEFINE r == [command[c] EXCEPT !.pc = "code"]
  <2>1. r \in CommandType /\ r.pc = "code" /\ r.holds = command[c].holds
    BY <1>1, GotoRecord DEF Points
  <2>2. command' = [command EXCEPT ![c] = r]
    BY <1>5 DEF Goto, SessionInv
  <2> HIDE DEF r
  <2> QED  BY <1>1, <1>2, <1>3, <2>1, <2>2, StepKeeps DEF Bound
<1> QED  BY <1>4, <1>5 DEF Persist

LEMMA SaveRecoveryCodeKeeps ==
  ASSUME SessionInv, NEW c \in Requests, SaveRecoveryCode(c) PROVE SessionInv'
<1>1. command[c].pc = "code" /\ UNCHANGED <<server, session>> /\ ToBearer(c)
      /\ command[c].holds.family \in Families
  BY DEF SaveRecoveryCode, At, SessionInv, CommandSound, Holding, Bound, BoundIn
<1>2. identity' \in IdentityType
  BY <1>1, IdentityRecords DEF SaveRecoveryCode, SessionInv
<1> QED  BY <1>1, <1>2, ToBearerKeeps DEF Early

LEMMA ReadBearerKeeps == ASSUME SessionInv, NEW c \in Requests, ReadBearer(c) PROVE SessionInv'
<1>1. /\ UNCHANGED <<server, session, identity>> /\ identity' \in IdentityType /\ session \in SessionType
      /\ rotation[c].pc = "idle"
  BY DEF ReadBearer, At, SessionInv, CommandSound, Early
<1>2. CASE End(c)
  BY <1>1, <1>2, EndKeeps
<1>3. CASE WithBearer(c, session)
  BY <1>1, <1>3, WithBearerKeeps
<1>4. CASE session # NoSession
           /\ command' = [command EXCEPT ![c].pc = "rotate", ![c].holds = session]
  <2> DEFINE q == [command[c] EXCEPT !.pc = "rotate"]
             r == [q EXCEPT !.holds = session]
  <2>1. q \in CommandType /\ q.pc = "rotate"
    BY GotoRecord DEF SessionInv, Points
  <2>2. command' = [command EXCEPT ![c] = r]
    BY <1>4 DEF SessionInv
  <2> HIDE DEF q
  <2>3. r \in CommandType /\ r.pc = "rotate" /\ r.holds = session
    BY <1>1, <2>1, HoldRecord
  <2>4. Bound(session)
    BY <1>4 DEF SessionInv
  <2> HIDE DEF r
  <2> QED  BY <1>1, <2>2, <2>3, <2>4, LocalStepKeeps DEF Early
<1> QED  BY <1>2, <1>3, <1>4 DEF ReadBearer

\* A rotation is of the family of the row it was asked for.
LEMMA RotationFamily ==
  ASSUME NEW f, NEW n, NEW b
  PROVE  /\ [pc |-> "rotating", family |-> f, prev |-> n, claims |-> b].family = f
         /\ [pc |-> "rotating", family |-> f, claims |-> b, prev |-> n].family = f
         /\ [Idle EXCEPT !.pc = "reuse", !.family = f].family = f
BY DEF Idle

LEMMA BegunRotation ==
  ASSUME TokenInv, NEW c \in Requests, NEW t \in Ids, BeginRotate(c, t)
  PROVE  /\ rotation'[c].family = row[t].family
         /\ \A d \in Requests \ {c} : rotation'[d] = rotation[d]
<1> DEFINE f == row[t].family
           b == Tips(f) # {}
           n == IF b THEN Max(Tips(f)) ELSE t
           Begun(v) == rotation' = [rotation EXCEPT ![c] = v] /\ v.family = f
<1>1. \/ rotation' = [rotation EXCEPT ![c] =
             [pc |-> "rotating", family |-> f, prev |-> t, claims |-> TRUE]]
      \/ rotation' = [rotation EXCEPT ![c] =
             [pc |-> "rotating", family |-> f, claims |-> b, prev |-> n]]
      \/ rotation' = [rotation EXCEPT ![c] = [Idle EXCEPT !.pc = "reuse", !.family = f]]
  BY Zenon DEF BeginRotate
<1> HIDE DEF b, n
<1>2. \/ Begun([pc |-> "rotating", family |-> f, prev |-> t, claims |-> TRUE])
      \/ Begun([pc |-> "rotating", family |-> f, claims |-> b, prev |-> n])
      \/ Begun([Idle EXCEPT !.pc = "reuse", !.family = f])
  <2> HIDE DEF f
  <2> QED  BY <1>1, RotationFamily, Zenon
<1>3. \E v : Begun(v)
  <2> HIDE DEF Begun
  <2> QED  BY <1>2, Zenon
<1>4. PICK v : Begun(v)
  BY <1>3
<1> QED  BY <1>4 DEF TokenInv, TypeOK

LEMMA ServeRotateKeeps == ASSUME SessionInv, NEW c \in Requests, ServeRotate(c) PROVE SessionInv'
<1> DEFINE t == command[c].holds.token
<1>1. command[c].pc = "rotate" /\ command[c] \in CommandType /\ Bound(command[c].holds)
      /\ UNCHANGED <<row, session, identity, command>> /\ BeginRotate(c, t) /\ t \in Ids
  BY DEF ServeRotate, BeginRotate, At, SessionInv, CommandSound, Holding, Bound, BoundIn
<1>2. [Next]_vars
  BY <1>1 DEF Next
<1>3. rotation'[c].family = row[t].family /\ \A d \in Requests \ {c} : rotation'[d] = rotation[d]
  BY <1>1, BegunRotation DEF SessionInv
<1>4. rotation'[c].family = command[c].holds.family /\ BoundIn(row', command[c].holds)
  BY <1>1, <1>3 DEF Bound, BoundIn
<1>5. command' = [command EXCEPT ![c] = command[c]] /\ identity' \in IdentityType
  BY <1>1 DEF SessionInv
<1> HIDE DEF t
<1> QED  BY <1>1, <1>2, <1>3, <1>4, <1>5, SessionStays, StepKeeps DEF Early

\* The server ends the rotation of a command that does not wait for it.
LEMMA RotationEnds ==
  ASSUME SessionInv, [Next]_vars, UNCHANGED <<session, identity, command>>,
         NEW c \in Requests, Finish(c)
  PROVE  SessionInv'
<1>1. rotation'[c].pc = "idle" /\ \A d \in Requests \ {c} : rotation'[d] = rotation[d]
  BY DEF Finish, Idle, SessionInv, TokenInv, TypeOK
<1>2. /\ command[c] \in CommandType /\ command' = [command EXCEPT ![c] = command[c]]
      /\ identity' \in IdentityType /\ CommandSound(c)
  BY DEF SessionInv
<1>3. command[c].pc \in Holding => BoundIn(row', command[c].holds)
  BY <1>2, SessionStays, BoundStays DEF CommandSound, SessionInv
<1> QED  BY <1>1, <1>2, <1>3, SessionStays, StepKeeps

\* The command goes on with its bearer, while the server or the store changes.
LEMMA WithBearerAnyKeeps ==
  ASSUME SessionInv, [Next]_vars, NEW c \in Requests, NEW s \in SessionType, WithBearer(c, s),
         \A d \in Requests \ {c} : rotation'[d] = rotation[d], UNCHANGED identity,
         session' \in SessionType, session' = NoSession \/ BoundIn(row', session')
  PROVE  SessionInv'
<1>1. PICK r \in CommandType : command' = [command EXCEPT ![c] = r] /\ r.pc \in {"idle", "device"}
  BY AfterBearer
<1>2. /\ identity' \in IdentityType /\ TokenInv'
      /\ \A i \in Ids : row[i].family # None => row'[i].family = row[i].family
  BY TokenNextKeeps, FamiliesStay DEF SessionInv
<1> QED  BY <1>1, <1>2, StepKeeps DEF Holding, Early

LEMMA CommitAndAnswerKeeps ==
  ASSUME SessionInv, NEW c \in Requests, CommitAndAnswer(c) PROVE SessionInv'
<1>1. CommitRotate(c) /\ UNCHANGED <<session, identity>> /\ Finish(c) /\ [Next]_vars
      /\ rotation[c].pc = "rotating"
  BY DEF CommitAndAnswer, CommitRotate, Next
<1>2. CASE ~At(c, "rotate")
  BY <1>1, <1>2, RotationEnds DEF CommitAndAnswer
<1>3. CASE At(c, "rotate")
  <2> DEFINE f == rotation[c].family
             rows == IF rotation[c].claims THEN [row EXCEPT ![rotation[c].prev].used = "recent"]
                     ELSE row
  <2>1. /\ command[c] \in CommandType /\ command[c].pc = "rotate" /\ Bound(command[c].holds)
        /\ f = command[c].holds.family
    BY <1>1, <1>3 DEF At, SessionInv, CommandSound, Holding
  <2>2. f \in Families /\ command[c].holds.emailOf = EmailOf(f)
    BY <2>1 DEF Bound, BoundIn
  <2>3. Min(Free) \in Ids /\ row'[Min(Free)].family = f
    <3>1. row \in [Ids -> RowType] /\ rotation[c].prev \in 0..MaxRows /\ TokenInv
      BY DEF SessionInv, TokenInv, TypeOK, RotationType
    <3>3. ASSUME NEW i PROVE [row EXCEPT ![i].used = "recent"] \in [Ids -> RowType]
      BY <3>1 DEF RowType
    <3>4. rows \in [Ids -> RowType]
      BY <3>1, <3>3
    <3>2. Free # {} /\ Mint(rows, f, rotation[c].prev)
      BY <1>1 DEF CommitRotate
    <3> HIDE DEF rows, f
    <3> QED  BY <3>1, <3>2, <3>4, <2>2, MintedRow
  <2>4. command' = [command EXCEPT ![c].pc = "rotated", ![c].holds = Issued(Min(Free), f, EmailOf(f))]
    BY <1>3, <2>1, <2>2 DEF CommitAndAnswer, SessionInv, CommandType
  <2>5. \A d \in Requests \ {c} : rotation'[d] = rotation[d]
    BY <1>1 DEF Finish, SessionInv, TokenInv, TypeOK
  <2> HIDE DEF f
  <2> QED  BY <1>1, <2>2, <2>3, <2>4, <2>5, AnswerKeeps
<1> QED  BY <1>2, <1>3

LEMMA FailRotateKeeps == ASSUME SessionInv, NEW c \in Requests, FailRotate(c) PROVE SessionInv'
<1>1. UNCHANGED <<server, session, identity>> /\ WithBearer(c, command[c].holds)
      /\ command[c].holds \in SessionType
  BY DEF FailRotate, SessionInv, CommandType
<1> QED  BY <1>1, WithBearerKeeps

LEMMA RefuseRotateKeeps == ASSUME SessionInv, NEW c \in Requests, RefuseRotate(c) PROVE SessionInv'
<1>1. Finish(c) /\ UNCHANGED <<session, identity>> /\ [Next]_vars
  BY DEF RefuseRotate, ReportReuse, AbortRotate, Next
<1>2. CASE ~At(c, "rotate")
  BY <1>1, <1>2, RotationEnds DEF RefuseRotate
<1>3. CASE At(c, "rotate")
  <2>1. WithBearer(c, command[c].holds) /\ command[c].holds \in SessionType
    BY <1>3 DEF RefuseRotate, SessionInv, CommandType
  <2>2. \A d \in Requests \ {c} : rotation'[d] = rotation[d]
    BY <1>1 DEF Finish, SessionInv, TokenInv, TypeOK
  <2> QED  BY <1>1, <2>1, <2>2, SessionStays, WithBearerAnyKeeps
<1> QED  BY <1>2, <1>3

LEMMA SaveTokensKeeps == ASSUME SessionInv, NEW c \in Requests, SaveTokens(c) PROVE SessionInv'
<1>1. /\ session' = command[c].holds /\ WithBearer(c, command[c].holds)
      /\ UNCHANGED <<server, identity>> /\ command[c].holds \in SessionType
      /\ Bound(command[c].holds)
  BY DEF SaveTokens, Refreshed, At, SessionInv, CommandType, CommandSound, Holding
<1>2. [Next]_vars /\ UNCHANGED <<row, rotation>>
  BY <1>1 DEF server, vars
<1> QED  BY <1>1, <1>2, WithBearerAnyKeeps DEF Bound

LEMMA RegisterDeviceKeeps ==
  ASSUME SessionInv, NEW c \in Requests, RegisterDevice(c) PROVE SessionInv'
<1>1. UNCHANGED <<server, session>> /\ identity' \in IdentityType
  BY DEF RegisterDevice, SessionInv
<1>2. CASE Goto(c, "mark")
  BY <1>1, <1>2, GotoKeeps DEF Early
<1> QED  BY <1>1, <1>2, EndKeeps DEF RegisterDevice

LEMMA MarkRegisteredKeeps ==
  ASSUME SessionInv, NEW c \in Requests, MarkRegistered(c) PROVE SessionInv'
<1>1. UNCHANGED <<server, session>> /\ End(c) /\ command[c].holds.family \in Families \cup {None}
  BY DEF MarkRegistered, SessionInv, CommandType, SessionType
<1>2. identity' \in IdentityType
  BY <1>1, IdentityRecords DEF MarkRegistered, SessionInv
<1> QED  BY <1>1, <1>2, EndKeeps

LEMMA BeginLogoutKeeps == ASSUME SessionInv, NEW c \in Requests, BeginLogout(c) PROVE SessionInv'
<1> DEFINE pc == IF session = NoSession THEN "clear" ELSE "revoke"
           q == [command[c] EXCEPT !.pc = pc]
           r == [q EXCEPT !.holds = session]
<1>1. UNCHANGED <<server, session, identity>> /\ identity' \in IdentityType /\ session \in SessionType
  BY DEF BeginLogout, SessionInv
<1>2. pc \in Points /\ command[c] \in CommandType /\ command' = [command EXCEPT ![c] = r]
  BY DEF BeginLogout, Points, SessionInv
<1>3. pc \in {"clear", "revoke"} /\ (pc = "revoke" => Bound(session))
  BY DEF SessionInv
<1> HIDE DEF pc
<1>4. q \in CommandType /\ q.pc = pc
  BY <1>2, GotoRecord
<1> HIDE DEF q
<1>5. r \in CommandType /\ r.pc = pc /\ r.holds = session
  BY <1>1, <1>4, HoldRecord
<1> HIDE DEF r
<1> QED  BY <1>1, <1>2, <1>3, <1>5, LocalStepKeeps DEF Holding, Early

\* The account whose session is revoked is that of the session.
LEMMA ServedLogout ==
  ASSUME SessionInv, NEW c \in Requests, ServeLogout(c)
  PROVE  command[c].holds.family \in Families /\ BeginSweep(command[c].holds.family)
BY DEF ServeLogout, At, SessionInv, CommandSound, Holding, Bound, BoundIn

LEMMA ServeLogoutKeeps == ASSUME SessionInv, NEW c \in Requests, ServeLogout(c) PROVE SessionInv'
<1> DEFINE q == [command[c] EXCEPT !.pc = "clear"]
           r == [q EXCEPT !.holds = NoSession]
<1>1. [Next]_vars /\ UNCHANGED <<row, rotation, session, identity>> /\ identity' \in IdentityType
  BY ServedLogout DEF Next, BeginSweep, ServeLogout, SessionInv
<1>2. command[c] \in CommandType /\ command' = [command EXCEPT ![c] = r] /\ "clear" \in Points
  BY DEF ServeLogout, Points, SessionInv
<1>3. q \in CommandType /\ q.pc = "clear"
  BY <1>2, GotoRecord
<1> HIDE DEF q
<1>4. r \in CommandType /\ r.pc = "clear"
  BY <1>3, HoldRecord, SessionRecords
<1> HIDE DEF r
<1> QED  BY <1>1, <1>2, <1>4, SessionStays, StepKeeps DEF Holding, Early

LEMMA ClearSessionKeeps ==
  ASSUME SessionInv, NEW c \in Requests, ClearSession(c) PROVE SessionInv'
<1>1. /\ End(c) /\ session' = NoSession /\ session' \in SessionType
      /\ UNCHANGED <<server, identity>> /\ identity' \in IdentityType
  BY SessionRecords DEF ClearSession, SessionInv
<1>2. TokenInv' /\ [Next]_vars /\ UNCHANGED <<row, rotation>>
  BY <1>1, ServerUnchanged DEF server, vars, SessionInv
<1> QED  BY <1>1, <1>2, EndAnyKeeps

LEMMA AccessNearsExpiryKeeps == ASSUME SessionInv, AccessNearsExpiry PROVE SessionInv'
<1>1. /\ TokenInv' /\ UNCHANGED <<row, rotation, identity, command>>
  BY ServerUnchanged DEF AccessNearsExpiry, SessionInv
<1>2. session \in SessionType /\ Bound(session) /\ session' = [session EXCEPT !.near = TRUE]
  BY DEF AccessNearsExpiry, SessionInv
<1>3. session' \in SessionType /\ BoundIn(row', session')
  BY <1>1, <1>2 DEF SessionType, Bound, BoundIn
<1>4. \A c \in Requests : CommandSound(c)'
  BY <1>1 DEF SessionInv, CommandSound, Bound, BoundIn
<1> QED  BY <1>1, <1>3, <1>4 DEF SessionInv, Bound

LEMMA ClientCrashKeeps == ASSUME SessionInv, ClientCrash PROVE SessionInv'
<1>1. /\ TokenInv' /\ UNCHANGED <<row, rotation, session, identity>>
  BY ServerUnchanged DEF ClientCrash, SessionInv
<1>2. command' \in [Requests -> CommandType] /\ \A c \in Requests : command'[c].pc = "idle"
  BY NoCommandRecord DEF ClientCrash
<1>3. \A c \in Requests : CommandSound(c)'
  BY <1>2 DEF CommandSound, Holding, Early
<1> QED  BY <1>1, <1>2, <1>3 DEF SessionInv, Bound, BoundIn

\* What the server does on its own.
LEMMA ServerAloneKeeps ==
  ASSUME SessionInv, [Next]_vars, UNCHANGED <<rotation, session, identity, command>>
  PROVE  SessionInv'
<1>1. \A c \in Requests : CommandSound(c)'
  <2> SUFFICES ASSUME NEW c \in Requests PROVE CommandSound(c)'
    OBVIOUS
  <2>1. CommandSound(c) /\ command'[c] = command[c] /\ rotation'[c] = rotation[c]
    BY DEF SessionInv
  <2>2. command[c].pc \in Holding => BoundIn(row', command[c].holds)
    BY <2>1, SessionStays, BoundStays DEF CommandSound, SessionInv
  <2> QED  BY <2>1, <2>2 DEF CommandSound, Bound
<1> QED  BY <1>1, SessionStays DEF SessionInv, Bound

LEMMA SessionInvInit == SessionInit => SessionInv
<1> SUFFICES ASSUME SessionInit PROVE SessionInv
  OBVIOUS
<1>1. TokenInv /\ session = NoSession /\ session \in SessionType /\ identity \in IdentityType
  BY TokenInvInit, SessionRecords DEF SessionInit, NoIdentity, IdentityType
<1>2. command \in [Requests -> CommandType] /\ \A c \in Requests : command[c].pc = "idle"
  BY NoCommandRecord DEF SessionInit
<1> QED  BY <1>1, <1>2 DEF SessionInv, CommandSound, Holding, Early

LEMMA CommandStepKeeps ==
  ASSUME SessionInv, NEW c \in Requests, CommandStep(c) PROVE SessionInv'
<1>1. CASE \E kind \in {"bearer", "login", "ensure", "logout"} : Begin(c, kind)
  BY <1>1, BeginKeeps
<1>2. CASE \E f \in Families : Issue(c, f)
  BY <1>2, IssueKeeps
<1>3. CASE FailIssue(c)
  BY <1>3, EndKeeps DEF FailIssue, SessionInv
<1> QED
  BY <1>1, <1>2, <1>3, EnsureIdentityKeeps, CheckCurrentKeeps, PersistKeeps, SaveRecoveryCodeKeeps,
     ReadBearerKeeps, ServeRotateKeeps, CommitAndAnswerKeeps, FailRotateKeeps, RefuseRotateKeeps,
     SaveTokensKeeps, RegisterDeviceKeeps, MarkRegisteredKeeps, BeginLogoutKeeps, ServeLogoutKeeps,
     ClearSessionKeeps
  DEF CommandStep

LEMMA SessionNextKeeps == SessionInv /\ [SessionNext]_sessionVars => SessionInv'
<1> SUFFICES ASSUME SessionInv, [SessionNext]_sessionVars PROVE SessionInv'
  OBVIOUS
<1>1. CASE \E c \in Requests : CommandStep(c)
  BY <1>1, CommandStepKeeps
<1>2. CASE ServerStep
  <2>1. [Next]_vars /\ UNCHANGED <<rotation, session, identity, command>>
    BY <1>2 DEF ServerStep, Next, SweepRow, EndSweep, GraceEnds
  <2> QED  BY <2>1, ServerAloneKeeps
<1>3. CASE UNCHANGED sessionVars
  <2>1. UNCHANGED vars /\ UNCHANGED <<rotation, session, identity, command>>
    BY <1>3 DEF sessionVars, vars
  <2> QED  BY <2>1, ServerAloneKeeps
<1> QED
  BY <1>1, <1>2, <1>3, AccessNearsExpiryKeeps, ClientCrashKeeps DEF SessionNext

LEMMA SessionInvAlways == SessionSpec => []SessionInv
  BY SessionInvInit, SessionNextKeeps, PTL DEF SessionSpec

-------------------------------------------------------------------------------
(* What follows.                                                             *)

LEMMA StepUsesService == SessionInv /\ [SessionNext]_sessionVars => [Next]_vars
<1> SUFFICES ASSUME SessionInv, [SessionNext]_sessionVars PROVE [Next]_vars
  OBVIOUS
<1>1. CASE \E c \in Requests : ServeRotate(c)
  <2>1. PICK c \in Requests : ServeRotate(c)
    BY <1>1
  <2>2. command[c].holds.token \in Ids
    BY <2>1 DEF ServeRotate, At, SessionInv, CommandSound, Holding, Bound, BoundIn
  <2> QED  BY <2>1, <2>2 DEF ServeRotate, Next
<1>2. CASE \E c \in Requests : ServeLogout(c)
  BY <1>2, ServedLogout DEF Next
<1>3. CASE \E c \in Requests : (\E f \in Families : Issue(c, f)) \/ CommitAndAnswer(c) \/ RefuseRotate(c)
  BY <1>3 DEF Issue, CommitAndAnswer, RefuseRotate, Next
<1>4. CASE ServerStep
  BY <1>4 DEF ServerStep, Next
<1>5. CASE UNCHANGED server \/ UNCHANGED sessionVars
  BY <1>5 DEF server, sessionVars, vars
<1> QED
  BY <1>1, <1>2, <1>3, <1>4, <1>5
  DEF SessionNext, CommandStep, Begin, EnsureIdentity, CheckCurrent, FailIssue, Persist,
      SaveRecoveryCode, ReadBearer, FailRotate, SaveTokens, RegisterDevice, MarkRegistered,
      BeginLogout, ClearSession, AccessNearsExpiry, ClientCrash

\* Every used row has the successor it was claimed for.
Linked == \A i \in Ids : row[i].family # None /\ row[i].used # "no" =>
            \E j \in Ids : row[j].family = row[i].family /\ row[j].prev = i

\* Rows keep their predecessor too, and one is used only as another is inserted.
LEMMA LinkedStays ==
  ASSUME TokenInv, Linked,
         \A i \in Ids : row[i].family # None =>
           /\ row'[i].family = row[i].family /\ row'[i].prev = row[i].prev
           /\ row'[i].used # "no" => row[i].used # "no",
         \A i \in Ids : row[i].family = None => row'[i].used = "no" \/ row'[i].family = None
  PROVE  Linked'
<1> SUFFICES ASSUME NEW i \in Ids, row'[i].family # None, row'[i].used # "no"
             PROVE  \E j \in Ids : row'[j].family = row'[i].family /\ row'[j].prev = i
  BY DEF Linked
<1>1. row[i].family # None /\ row[i].used # "no" /\ row'[i].family = row[i].family
  OBVIOUS
<1>2. PICK j \in Ids : row[j].family = row[i].family /\ row[j].prev = i
  BY <1>1 DEF Linked
<1> QED  BY <1>1, <1>2

LEMMA LinkedNext == TokenInv /\ Linked /\ [Next]_vars => Linked'
<1> SUFFICES ASSUME TokenInv, Linked, [Next]_vars PROVE Linked'
  OBVIOUS
<1>1. CASE UNCHANGED row
  BY <1>1 DEF Linked
<1>2. CASE \E f \in Families : Login(f)
  <2>1. PICK f \in Families : Login(f)
    BY <1>2
  <2> DEFINE n == Min(Free)
             new == [NoRow EXCEPT !.family = f, !.prev = 0]
  <2>2. n \in Ids /\ row[n].family = None /\ row' = [row EXCEPT ![n] = new]
    BY <2>1, NextId DEF Login, Mint, TokenInv
  <2>3. new.used = "no"
    BY DEF NoRow
  <2> HIDE DEF n, new
  <2> QED  BY <2>2, <2>3, LinkedStays DEF TokenInv, TypeOK
<1>3. CASE \E p \in Requests : CommitRotate(p)
  <2>1. PICK p \in Requests : CommitRotate(p)
    BY <1>3
  <2> DEFINE n == Min(Free)
             f == rotation[p].family
             t == rotation[p].prev
             new == [NoRow EXCEPT !.family = f, !.prev = t]
             rows == [row EXCEPT ![t].used = "recent"]
  <2>2. n \in Ids /\ row[n].family = None /\ row' = [rows EXCEPT ![n] = new]
    BY <2>1, NextId DEF CommitRotate, Mint, TokenInv, RotationsClaim
  <2>3. t \in Ids /\ row[t].family = f /\ f \in Families
    BY <2>1 DEF CommitRotate, Claimable, Tips, LiveRows, RowsOf, TokenInv, RotationsClaim
  <2>4. new.used = "no" /\ new.family = f /\ new.prev = t
    BY <2>3, RowsAssumption, NewRowType DEF Ids, NoRow
  <2>5. \A i \in Ids : rows[i].family = row[i].family /\ rows[i].prev = row[i].prev
                       /\ (i # t => rows[i] = row[i])
    BY DEF TokenInv, TypeOK, RowType
  <2>6. DOMAIN rows = Ids
    BY DEF TokenInv, TypeOK
  <2> HIDE DEF n, f, t, new, rows
  <2>7. row'[n] = new /\ \A i \in Ids \ {n} : row'[i] = rows[i]
    BY <2>2, <2>6
  <2> SUFFICES ASSUME NEW i \in Ids, row'[i].family # None, row'[i].used # "no"
               PROVE  \E j \in Ids : row'[j].family = row'[i].family /\ row'[j].prev = i
    BY DEF Linked
  <2>8. i # n /\ row'[i] = rows[i] /\ row'[i].family = row[i].family
    BY <2>4, <2>5, <2>7
  <2>9. CASE i = t
    BY <2>2, <2>3, <2>4, <2>7, <2>8, <2>9
  <2>10. CASE i # t
    <3>1. PICK j \in Ids : row[j].family = row[i].family /\ row[j].prev = i
      BY <2>5, <2>8, <2>10 DEF Linked
    <3>2. j # n
      BY <2>2, <2>8, <3>1
    <3> QED  BY <2>5, <2>7, <2>8, <3>1, <3>2
  <2> QED  BY <2>9, <2>10
<1>4. CASE \E f \in Families : SweepRow(f)
  BY <1>4, LinkedStays DEF SweepRow, TokenInv, TypeOK, RowType
<1>5. CASE \E t \in Ids : GraceEnds(t)
  BY <1>5, LinkedStays DEF GraceEnds, TokenInv, TypeOK, RowType
<1> QED
  BY <1>1, <1>2, <1>3, <1>4, <1>5
  DEF Next, vars, BeginSweep, EndSweep, BeginRotate, ReportReuse, AbortRotate

LEMMA LinkedInit == Init => Linked
  BY DEF Init, Linked, NoRow

LEMMA SessionInvMeans ==
  SessionInv => ChainsAreSound /\ OneAccountInSession /\ LogoutIsFinal
<1> SUFFICES ASSUME SessionInv PROVE ChainsAreSound /\ OneAccountInSession /\ LogoutIsFinal
  OBVIOUS
<1>1. TypeOK /\ OneTip /\ LogoutIsFinal
  BY TokenInvMeans DEF SessionInv
<1>2. SessionTypeOK
  BY DEF SessionInv, SessionTypeOK, Bound, BoundIn
<1>3. OneAccountInSession
  BY DEF SessionInv, OneAccountInSession, Bound, BoundIn, NoSession
<1> QED  BY <1>1, <1>2, <1>3 DEF ChainsAreSound

LEMMA KeptToken == SessionInv /\ Linked => KeptTokenIsAccepted
<1> SUFFICES ASSUME SessionInv, Linked, session # NoSession,
                    session.family \notin loggedOut, sweep[session.family] = 0
             PROVE  \/ row[session.token].used = "old"
                    \/ session.token \in Tips(session.family) \/ Retry(session.token)
  BY DEF KeptTokenIsAccepted
<1> DEFINE f == session.family
           t == session.token
<1>1. f \in Families /\ t \in RowsOf(f) /\ row[t].family # None
  BY RowsAssumption DEF SessionInv, Bound, BoundIn, RowsOf
<1>2. \A i \in RowsOf(f) : ~row[i].revoked /\ i \in Ids
  BY <1>1, RowsAssumption DEF SessionInv, TokenInv, SweptOf, RowsOf, Ids
<1>3. row[t].used \in {"no", "recent", "old"} /\ t \in Ids
  BY <1>1, <1>2 DEF SessionInv, TokenInv, TypeOK, RowType
<1>4. CASE row[t].used = "no"
  BY <1>1, <1>2, <1>4 DEF Tips, LiveRows
<1>5. CASE row[t].used = "recent"
  <2>1. PICK j \in Ids : row[j].family = row[t].family /\ row[j].prev = t
    BY <1>1, <1>3, <1>5 DEF Linked
  <2>2. ~row[j].revoked
    BY <1>1, <1>2, <2>1 DEF RowsOf
  <2> QED  BY <1>1, <1>5, <2>1, <2>2 DEF Retry
<1> QED  BY <1>3, <1>4, <1>5

\* The client takes only steps the token service is specified for, so that what is
\* proved of the service holds of the two together (bearer, logout, ensure_device_session).
THEOREM ClientUsesTheService == SessionSpec => Spec
<1>1. SessionInit => Init
  BY DEF SessionInit
<1> QED  BY <1>1, SessionInvAlways, StepUsesService, PTL DEF SessionSpec, Spec

\* No family gets two tokens that can be rotated, and every state keeps its shape
\* (rotate, persist, save_tokens).
THEOREM ChainsTheorem == SessionSpec => []ChainsAreSound
  BY SessionInvAlways, SessionInvMeans, PTL

\* The tokens and the email of the stored session are those of one account (persist,
\* save_tokens, logout).
THEOREM OneAccountTheorem == SessionSpec => []OneAccountInSession
  BY SessionInvAlways, SessionInvMeans, PTL

\* An answer that is lost or overtaken does not sign the client out: the service accepts
\* the token it keeps until its grace ends or the account is logged out (rotate).
THEOREM KeptTokenTheorem == SessionSpec => []KeptTokenIsAccepted
<1>1. SessionInit => Linked
  BY LinkedInit DEF SessionInit
<1>2. SessionInv /\ Linked /\ [SessionNext]_sessionVars => Linked'
  BY StepUsesService, LinkedNext DEF SessionInv
<1>3. SessionSpec => []Linked
  BY <1>1, <1>2, SessionInvAlways, PTL DEF SessionSpec
<1> QED  BY <1>3, SessionInvAlways, KeptToken, PTL

\* The install keeps its key, and its recovery code once it has one (ensure_identity,
\* save_recovery_code, save_device_identity).
THEOREM IdentityTheorem == SessionSpec => IdentityIsKept
<1> DEFINE Kept == /\ identity # NoIdentity => identity'.key = identity.key
                   /\ identity.code # None => identity'.code # None
<1>1. SessionInv /\ [SessionNext]_sessionVars => [Kept]_sessionVars
  <2> SUFFICES ASSUME SessionInv, SessionNext PROVE Kept
    OBVIOUS
  <2>1. identity \in IdentityType /\ NoIdentity.code = None
    BY DEF SessionInv, NoIdentity
  <2>2. CASE UNCHANGED identity
    BY <2>2
  <2>3. CASE \E c \in Requests : EnsureIdentity(c)
    BY <2>1, <2>3 DEF EnsureIdentity, EnsuredIdentity
  <2>4. CASE \E c \in Requests : SaveRecoveryCode(c)
    <3>1. PICK c \in Requests : SaveRecoveryCode(c)
      BY <2>4
    <3>2. command[c].holds.family \in Families
      BY <3>1 DEF SaveRecoveryCode, At, SessionInv, CommandSound, Holding, Bound, BoundIn
    <3>3. command[c].holds.family # None
      BY <3>2, RowsAssumption
    <3> QED  BY <2>1, <3>1, <3>3 DEF SaveRecoveryCode, EnsuredIdentity, IdentityType, NoIdentity
  <2>5. CASE \E c \in Requests : MarkRegistered(c)
    BY <2>1, <2>5 DEF MarkRegistered, Marked, IdentityType
  <2> QED
    BY <2>2, <2>3, <2>4, <2>5
    DEF SessionNext, CommandStep, Begin, CheckCurrent, Issue, FailIssue, Persist, ReadBearer,
        ServeRotate, CommitAndAnswer, FailRotate, RefuseRotate, SaveTokens, RegisterDevice,
        BeginLogout, ServeLogout, ClearSession, AccessNearsExpiry, ClientCrash, ServerStep
<1>2. SessionSpec => [][Kept]_sessionVars
  <2> HIDE DEF Kept
  <2> QED  BY <1>1, SessionInvAlways, PTL DEF SessionSpec
<1> QED  BY <1>2 DEF IdentityIsKept
================================================================================
