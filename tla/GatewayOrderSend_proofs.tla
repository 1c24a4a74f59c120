----------------------- MODULE GatewayOrderSend_proofs -----------------------
(* What GatewayOrderSend guarantees for every value of its constants. *)
EXTENDS GatewayOrderSend, SequenceTheorems, FiniteSetTheorems, TLAPS

RowsType == UNION {[S -> 0 .. MaxStop] : S \in SUBSET Ticket}

(* A nonempty set of naturals has a least element, so Min is one. *)
LEMMA MinOfNaturals ==
    ASSUME NEW S, S \subseteq Nat, S # {}
    PROVE  Min(S) \in S /\ \A x \in S : Min(S) <= x
<1>1. \E x \in S : \A y \in S : ~ (<<y, x>> \in OpToRel(<, Nat))
  BY NatLessThanWellFounded, WFMin, Zenon
<1>2. PICK x \in S : \A y \in S : ~ (y < x)
  BY <1>1 DEF OpToRel
<1>3. \A y \in S : x <= y
  BY <1>2
<1> QED
  BY <1>3 DEF Min

(* claim keeps a suffix of the registry, which is a registry again. *)
LEMMA FirstKeptInRange ==
    ASSUME NEW T, seen \in Seq(T)
    PROVE  FirstKept \in 1 .. Len(seen) + 1
<1> DEFINE S == {i \in 1 .. Len(seen) + 1 :
                    \/ i = Len(seen) + 1
                    \/ /\ now - seen[i].at <= Ttl
                       /\ Len(seen) - i + 1 < RegistryMax}
<1>1. Len(seen) \in Nat
  BY LenProperties
<1>2. Len(seen) + 1 \in S
  BY <1>1
<1>3. S \subseteq Nat
  BY <1>1
<1>4. Min(S) \in S
  BY <1>2, <1>3, MinOfNaturals
<1> QED
  BY <1>4 DEF FirstKept

LEMMA KeptIsSeq ==
    ASSUME NEW T, seen \in Seq(T)
    PROVE  /\ Kept \in Seq(T)
           /\ \A i \in DOMAIN Kept : \E j \in DOMAIN seen : Kept[i] = seen[j]
<1>1. FirstKept \in 1 .. Len(seen) + 1 /\ Len(seen) \in Nat
  BY FirstKeptInRange, LenProperties
<1>2. \A i \in FirstKept .. Len(seen) : seen[i] \in T
  BY <1>1, ElementOfSeq
<1>3. /\ Kept \in Seq(T)
      /\ Len(Kept) = IF FirstKept <= Len(seen) THEN Len(seen) - FirstKept + 1 ELSE 0
      /\ \A i \in 1 .. Len(seen) - FirstKept + 1 : Kept[i] = seen[FirstKept + i - 1]
  BY <1>1, <1>2, SubSeqProperties DEF Kept
<1>4. DOMAIN Kept = 1 .. Len(Kept) /\ DOMAIN seen = 1 .. Len(seen)
  BY <1>3, LenProperties
<1>5. ASSUME NEW i \in DOMAIN Kept
      PROVE  \E j \in DOMAIN seen : Kept[i] = seen[j]
  <2>1. FirstKept + i - 1 \in DOMAIN seen
    BY <1>1, <1>3, <1>4, <1>5
  <2>2. Kept[i] = seen[FirstKept + i - 1]
    BY <1>1, <1>3, <1>4, <1>5
  <2> QED
    BY <2>1, <2>2
<1> QED
  BY <1>3, <1>5

(* Appending an entry to the registry adds its id.                           *)
LEMMA IdsOfAppend ==
    ASSUME NEW T, NEW q \in Seq(T), NEW e \in T
    PROVE  Ids(Append(q, e)) = Ids(q) \cup {e.id}
<1>1. /\ Append(q, e) \in Seq(T) /\ Len(Append(q, e)) = Len(q) + 1
      /\ \A i \in 1 .. Len(q) : Append(q, e)[i] = q[i]
      /\ Append(q, e)[Len(q) + 1] = e
  BY AppendProperties
<1>2. /\ DOMAIN q = 1 .. Len(q) /\ Len(q) \in Nat
      /\ DOMAIN Append(q, e) = 1 .. Len(q) + 1
  BY <1>1, LenProperties
<1> QED
  BY <1>1, <1>2 DEF Ids

-----------------------------------------------------------------------------
(* Sums over finite sets. *)

Sum(f, S) == MapThenSumSet(LAMBDA t : f[t], S)

\* g is the function of subsets whose value at S is Sum(f, S) ...
Unfolds(f, g, S) ==
    g = [s \in SUBSET S |->
            IF s = {} THEN 0
            ELSE f[CHOOSE y \in s : TRUE] + g[s \ {CHOOSE y \in s : TRUE}]]

\* ... and g takes the elements of a set in any order.
Sums(f, g, S) ==
    /\ g \in [SUBSET S -> Nat]
    /\ g[{}] = 0
    /\ \A s \in SUBSET S : \A y \in s : g[s] = f[y] + g[s \ {y}]

(* A family of finite sets, if not empty, has a member that no other member *)
(* is a part of: what a proof by induction on a finite set needs.           *)
LEMMA SmallestSet ==
    ASSUME NEW S, IsFiniteSet(S), NEW F, F \subseteq SUBSET S, F # {}
    PROVE  \E s \in F : \A y \in s : s \ {y} \notin F
<1> DEFINE R == StrictSubsetOrdering(S)
<1>1. IsWellFoundedOn(R, FiniteSubsetsOf(S))
  BY FS_StrictSubsetOrderingWellFounded
<1>2. F \subseteq FiniteSubsetsOf(S)
  BY FS_Subset DEF FiniteSubsetsOf
<1> HIDE DEF R
<1>3. PICK s \in F : \A t \in F : ~ (<<t, s>> \in R)
  BY <1>1, <1>2, WFMin, Zenon
<1>4. ASSUME NEW y \in s, s \ {y} \in F PROVE FALSE
  <2>1. ~ (<<s \ {y}, s>> \in R)
    BY <1>3, <1>4
  <2>2. s \ {y} \in SUBSET S /\ s \in SUBSET S /\ s \ {y} \subseteq s /\ s \ {y} # s
    BY <1>4
  <2> QED
    BY <2>1, <2>2 DEF R, StrictSubsetOrdering
<1> QED
  BY <1>4

LEMMA SumsExists ==
    ASSUME NEW S, IsFiniteSet(S), NEW f, \A t \in S : f[t] \in Nat
    PROVE  \E g : Sums(f, g, S)
<1> DEFINE F == {s \in SUBSET S : ~ \E g : Sums(f, g, s)}
<1>1. SUFFICES ASSUME F # {} PROVE FALSE
  OBVIOUS
<1>2. PICK s \in F : \A y \in s : s \ {y} \notin F
  <2> HIDE DEF F
  <2>1. F \subseteq SUBSET S
    BY DEF F
  <2> QED
    BY <1>1, <2>1, SmallestSet, Zenon
<1>3. CASE s = {}
  <2>1. Sums(f, [u \in SUBSET {} |-> 0], {})
    BY DEF Sums
  <2> QED
    BY <1>2, <1>3, <2>1
<1>4. ASSUME NEW x \in s PROVE FALSE
  <2>1. PICK h : Sums(f, h, s \ {x})
    BY <1>2
  <2> DEFINE g == [u \in SUBSET s |-> IF x \in u THEN f[x] + h[u \ {x}] ELSE h[u]]
  <2>2. f[x] \in Nat /\ \A y \in s : f[y] \in Nat
    OBVIOUS
  <2>3. \A u \in SUBSET s : u \ {x} \in SUBSET (s \ {x}) /\ h[u \ {x}] \in Nat
    BY <2>1 DEF Sums
  <2>4. \A u \in SUBSET s : x \notin u => u \ {x} = u
    OBVIOUS
  <2>5. \A u \in SUBSET s : g[u] \in Nat /\ g[u] = IF x \in u THEN f[x] + h[u \ {x}] ELSE h[u \ {x}]
    <3> SUFFICES ASSUME NEW u \in SUBSET s
                 PROVE  /\ g[u] \in Nat
                        /\ g[u] = IF x \in u THEN f[x] + h[u \ {x}] ELSE h[u \ {x}]
      OBVIOUS
    <3>1. g[u] = IF x \in u THEN f[x] + h[u \ {x}] ELSE h[u]
      OBVIOUS
    <3>2. h[u \ {x}] \in Nat /\ (x \notin u => h[u \ {x}] = h[u])
      BY <2>3, <2>4
    <3> HIDE DEF g
    <3> QED
      BY <2>2, <3>1, <3>2
  <2>6. g \in [SUBSET s -> Nat]
    BY <2>5
  <2>7. g[{}] = 0
    BY <2>1 DEF Sums
  <2>8. ASSUME NEW u \in SUBSET s, NEW y \in u PROVE g[u] = f[y] + g[u \ {y}]
    <3>1. u \ {y} \in SUBSET s /\ y \in s
      OBVIOUS
    <3>2. CASE x \notin u
      <4>1. u \in SUBSET (s \ {x}) /\ x \notin u \ {y}
        BY <3>2
      <4>2. h[u] = f[y] + h[u \ {y}]
        BY <2>1, <4>1 DEF Sums
      <4> QED
        BY <3>1, <3>2, <4>1, <4>2
    <3>3. CASE x = y
      BY <2>4, <2>5, <3>1, <3>3
    <3>4. CASE x \in u /\ x # y
      <4>1. u \ {x} \in SUBSET (s \ {x}) /\ y \in u \ {x}
        BY <3>4
      <4>2. h[u \ {x}] = f[y] + h[(u \ {x}) \ {y}]
        BY <2>1, <4>1 DEF Sums
      <4>3. (u \ {x}) \ {y} = (u \ {y}) \ {x} /\ x \in u \ {y}
        BY <3>4
      <4>4. g[u \ {y}] = f[x] + h[(u \ {y}) \ {x}] /\ h[(u \ {y}) \ {x}] \in Nat
        BY <2>3, <3>1, <4>3
      <4>5. g[u] = f[x] + h[u \ {x}]
        BY <3>4
      <4>6. h[(u \ {x}) \ {y}] = h[(u \ {y}) \ {x}] /\ f[y] \in Nat
        BY <2>2, <3>1, <4>3
      <4> HIDE DEF g
      <4> QED
        BY <2>2, <4>2, <4>4, <4>5, <4>6
    <3> QED
      BY <3>2, <3>3, <3>4
  <2>9. Sums(f, g, s)
    <3> HIDE DEF g
    <3> QED
      BY <2>6, <2>7, <2>8 DEF Sums
  <2> QED
    BY <1>2, <2>9
<1> QED
  BY <1>3, <1>4

LEMMA UnfoldsOnce ==
    ASSUME NEW S, IsFiniteSet(S), NEW f, NEW g, NEW h, Unfolds(f, g, S), Unfolds(f, h, S)
    PROVE  g = h
<1> DEFINE F == {s \in SUBSET S : g[s] # h[s]}
<1>1. SUFFICES F = {}
  BY DEF Unfolds
<1>2. SUFFICES ASSUME F # {} PROVE FALSE
  OBVIOUS
<1>3. PICK s \in F : \A y \in s : s \ {y} \notin F
  <2> HIDE DEF F
  <2>1. F \subseteq SUBSET S
    BY DEF F
  <2> QED
    BY <1>2, <2>1, SmallestSet, Zenon
<1>4. s \in SUBSET S /\ g[s] # h[s]
  OBVIOUS
<1>5. CASE s = {}
  BY <1>4, <1>5 DEF Unfolds
<1>6. CASE s # {}
  <2> DEFINE y == CHOOSE z \in s : TRUE
  <2>1. y \in s
    BY <1>6
  <2>2. g[s \ {y}] = h[s \ {y}]
    BY <1>3, <1>4, <2>1
  <2>3. g[s] = f[y] + g[s \ {y}] /\ h[s] = f[y] + h[s \ {y}]
    BY <1>4, <1>6 DEF Unfolds
  <2> QED
    BY <1>4, <2>2, <2>3
<1> QED
  BY <1>5, <1>6

(* The two agree, so Sum is a sum whatever the order of its terms. *)
LEMMA SumsUnfolds ==
    ASSUME NEW S, NEW f, NEW g, Sums(f, g, S)
    PROVE  Unfolds(f, g, S)
<1>1. ASSUME NEW s \in SUBSET S, s # {}
      PROVE  g[s] = f[CHOOSE y \in s : TRUE] + g[s \ {CHOOSE y \in s : TRUE}]
  <2>1. (CHOOSE y \in s : TRUE) \in s
    BY <1>1
  <2> QED
    BY <2>1 DEF Sums
<1> QED
  BY <1>1 DEF Sums, Unfolds

LEMMA SumIs ==
    ASSUME NEW S, IsFiniteSet(S), NEW f, NEW g, Sums(f, g, S)
    PROVE  Sum(f, S) = g[S]
<1>1. Sum(f, S) = (CHOOSE h : Unfolds(f, h, S))[S]
  BY DEF Sum, Unfolds, MapThenSumSet, MapThenFoldSet
<1>2. Unfolds(f, g, S)
  BY SumsUnfolds
<1>3. Unfolds(f, CHOOSE h : Unfolds(f, h, S), S)
  BY <1>2
<1>4. (CHOOSE h : Unfolds(f, h, S)) = g
  BY <1>2, <1>3, UnfoldsOnce
<1> QED
  BY <1>1, <1>4

LEMMA SumSplits ==
    ASSUME NEW S, IsFiniteSet(S), NEW f, \A t \in S : f[t] \in Nat
    PROVE  /\ Sum(f, S) \in Nat
           /\ Sum(f, {}) = 0
           /\ \A y \in S : Sum(f, S) = f[y] + Sum(f, S \ {y})
<1>1. PICK g : Sums(f, g, S)
  BY SumsExists
<1>2. Sum(f, S) = g[S]
  BY <1>1, SumIs
<1>3. ASSUME NEW T \in SUBSET S PROVE Sum(f, T) = g[T]
  <2> DEFINE h == [s \in SUBSET T |-> g[s]]
  <2>1. Sums(f, h, T)
    <3>1. \A s \in SUBSET T : s \in SUBSET S /\ \A y \in s : s \ {y} \in SUBSET T
      OBVIOUS
    <3> QED
      BY <1>1, <3>1 DEF Sums
  <2>2. IsFiniteSet(T)
    BY FS_Subset
  <2> HIDE DEF h
  <2>3. Sum(f, T) = h[T]
    BY <2>1, <2>2, SumIs
  <2> QED
    BY <2>3 DEF h
<1> QED
  BY <1>1, <1>2, <1>3 DEF Sums

(* Leaving terms out and making terms smaller does not make a sum larger. *)
LEMMA SumMonotone ==
    ASSUME NEW S, IsFiniteSet(S), NEW T \in SUBSET S, NEW f, NEW h,
           \A t \in S : f[t] \in Nat,
           \A t \in T : h[t] \in Nat /\ h[t] <= f[t]
    PROVE  Sum(h, T) <= Sum(f, S)
<1> DEFINE F == {s \in SUBSET S : \E u \in SUBSET T : u \subseteq s /\ ~ (Sum(h, u) <= Sum(f, s))}
<1>1. SUFFICES ASSUME F # {} PROVE FALSE
  OBVIOUS
<1>2. PICK s \in F : \A y \in s : s \ {y} \notin F
  <2> HIDE DEF F
  <2>1. F \subseteq SUBSET S
    BY DEF F
  <2> QED
    BY <1>1, <2>1, SmallestSet, Zenon
<1>3. PICK u \in SUBSET T : u \subseteq s /\ ~ (Sum(h, u) <= Sum(f, s))
  OBVIOUS
<1>4. IsFiniteSet(s) /\ IsFiniteSet(u)
  BY FS_Subset
<1>5. /\ Sum(f, s) \in Nat /\ Sum(h, u) \in Nat /\ Sum(h, {}) = 0 /\ Sum(f, {}) = 0
      /\ \A y \in s : Sum(f, s) = f[y] + Sum(f, s \ {y})
      /\ \A y \in u : Sum(h, u) = h[y] + Sum(h, u \ {y})
  <2>1. (\A t \in s : f[t] \in Nat) /\ (\A t \in u : h[t] \in Nat)
    OBVIOUS
  <2> QED
    BY <1>4, <2>1, SumSplits
<1>6. PICK x \in s : TRUE
  BY <1>3, <1>5
<1>7. /\ IsFiniteSet(s \ {x}) /\ IsFiniteSet(u \ {x})
      /\ Sum(f, s \ {x}) \in Nat /\ Sum(h, u \ {x}) \in Nat
  <2>1. IsFiniteSet(s \ {x}) /\ IsFiniteSet(u \ {x})
    BY <1>4, FS_Subset
  <2>2. (\A t \in s \ {x} : f[t] \in Nat) /\ (\A t \in u \ {x} : h[t] \in Nat)
    OBVIOUS
  <2> QED
    BY <2>1, <2>2, SumSplits
<1>8. \A v \in SUBSET T : v \subseteq s \ {x} => Sum(h, v) <= Sum(f, s \ {x})
  <2>1. s \ {x} \in SUBSET S /\ s \ {x} \notin F
    BY <1>2, <1>6
  <2> QED
    BY <2>1
<1>9. Sum(h, u \ {x}) <= Sum(f, s \ {x})
  BY <1>3, <1>8
<1>10. f[x] \in Nat
  OBVIOUS
<1>11. CASE x \in u
  <2>1. h[x] \in Nat /\ h[x] <= f[x]
    BY <1>11
  <2> HIDE DEF F
  <2> QED
    BY <1>3, <1>5, <1>7, <1>9, <1>10, <1>11, <2>1
<1>12. CASE x \notin u
  <2>1. Sum(h, u \ {x}) = Sum(h, u)
    <3>1. u \ {x} = u
      BY <1>12
    <3> QED
      BY <3>1
  <2>2. Sum(f, s) = f[x] + Sum(f, s \ {x})
    BY <1>5, <1>6
  <2> HIDE DEF F
  <2> QED
    BY <1>3, <1>5, <1>7, <1>9, <1>10, <2>1, <2>2
<1> QED
  BY <1>11, <1>12

-----------------------------------------------------------------------------
(* Type correctness. *)

LEMMA RowsTypes ==
    /\ NoRows \in RowsType
    /\ TypeOK => \A S \in SUBSET Ticket : StopsOf(S) \in RowsType
    /\ \A f, g \in RowsType : Merged(f, g) \in RowsType
<1>1. NoRows \in RowsType
  BY DEF NoRows, RowsType
<1>2. ASSUME TypeOK, NEW S \in SUBSET Ticket PROVE StopsOf(S) \in [S -> 0 .. MaxStop]
  BY <1>2 DEF StopsOf, TypeOK
<1>3. ASSUME NEW f \in RowsType, NEW g \in RowsType PROVE Merged(f, g) \in RowsType
  <2>1. PICK S \in SUBSET Ticket : f \in [S -> 0 .. MaxStop]
    BY <1>3 DEF RowsType
  <2>2. PICK T \in SUBSET Ticket : g \in [T -> 0 .. MaxStop]
    BY <1>3 DEF RowsType
  <2>3. Merged(f, g) \in [S \cup T -> 0 .. MaxStop]
    BY <2>1, <2>2 DEF Merged
  <2> QED
    BY <2>3 DEF RowsType
<1> QED
  BY <1>1, <1>2, <1>3 DEF RowsType

(* What moving or answering a request does to the types of its variables. *)
LEMMA GotoTypes ==
    ASSUME TypeOK, NEW r \in Request, NEW l \in Pc, Goto(r, l)
    PROVE  /\ pc' \in [Request -> Pc] /\ answer' \in [Request -> AnswerType]
           /\ worker' \in [Request -> WorkerState]
  BY DEF TypeOK, Goto, Pc, AnswerType, WorkerState

LEMMA AnswerTypes ==
    ASSUME TypeOK, NEW r \in Request, NEW a \in AnswerType, Answer(r, a)
    PROVE  pc' \in [Request -> Pc] /\ answer' \in [Request -> AnswerType]
  BY DEF TypeOK, Answer, Pc, AnswerType

LEMMA IdsTypes ==
    ASSUME NEW q \in Seq([id : Cid, at : 0 .. MaxTime])
    PROVE  Ids(q) \subseteq Cid
<1>1. \A i \in DOMAIN q : q[i] \in [id : Cid, at : 0 .. MaxTime]
  BY LenProperties
<1> QED
  BY <1>1 DEF Ids

LEMMA InitTypes == Init => TypeOK
<1> SUFFICES ASSUME Init PROVE TypeOK
  OBVIOUS
<1>1. (CHOOSE b \in Body : TRUE) \in BodyType
  BY BodyAssumption
<1>2. NoRows \in RowsType
  BY RowsTypes
<1>3. 0 \in 0 .. MaxTime /\ 0 \in 0 .. MaxRestarts /\ 0 \in 0 .. MaxStop
  BY BoundsAssumption
<1>4. <<>> \in Seq([id : Cid, at : 0 .. MaxTime])
  BY EmptySeq
<1> QED
  BY <1>1, <1>2, <1>3, <1>4
     DEF Init, TypeOK, RowsType, Pc, AnswerType, WorkerState, TicketState, NoStop

LEMMA StepTypes == TypeOK /\ [Next]_vars => TypeOK'
<1> SUFFICES ASSUME TypeOK, [Next]_vars PROVE TypeOK'
  OBVIOUS
<1> USE DEF registryVars, history
<1>1. ASSUME NEW r \in Request, NEW b \in Body, Arrive(r, b) PROVE TypeOK'
  <2>1. b \in BodyType
    BY BodyAssumption
  <2>2. PICK l \in Pc : Goto(r, l)
    BY <1>1 DEF Arrive, Pc
  <2> QED
    BY <1>1, <2>1, <2>2, GotoTypes DEF Arrive, TypeOK
<1>2. ASSUME NEW r \in Request, ReadPrice(r) PROVE TypeOK'
  <2>1. PICK l \in Pc : Goto(r, l)
    BY <1>2 DEF ReadPrice, Pc
  <2> QED
    BY <1>2, <2>1, GotoTypes DEF ReadPrice, TypeOK
<1>3. ASSUME NEW r \in Request, ReadPositions(r) PROVE TypeOK'
  <2>1. PICK got \in {StopsOf(Positions), NoRows} :
           /\ RowRead(r, Positions, got)
           /\ rows' = [rows EXCEPT ![r] = IF body[r].kind = "cancel" THEN @ ELSE got]
           /\ \E l \in Pc : Goto(r, l)
    BY <1>3 DEF ReadPositions, Pc
  <2>2. got \in RowsType
    BY <2>1, RowsTypes DEF Positions
  <2>3. rows' \in [Request -> RowsType] /\ blind' \subseteq Request
    BY <2>1, <2>2 DEF TypeOK, RowsType, RowRead
  <2>4. PICK l \in Pc : Goto(r, l)
    BY <2>1
  <2> QED
    BY <1>3, <2>3, <2>4, GotoTypes DEF ReadPositions, TypeOK, RowsType
<1>4. ASSUME NEW r \in Request, ReadOrders(r) PROVE TypeOK'
  <2>1. PICK got \in {StopsOf(Working), NoRows} :
           /\ RowRead(r, Working, got)
           /\ rows' = [rows EXCEPT ![r] = Merged(got, rows[r])]
           /\ \E l \in Pc : Goto(r, l)
    BY <1>4 DEF ReadOrders, Pc
  <2>2. Merged(got, rows[r]) \in RowsType
    BY <2>1, RowsTypes DEF Working, TypeOK, RowsType
  <2>3. rows' \in [Request -> RowsType] /\ blind' \subseteq Request
    BY <2>1, <2>2 DEF TypeOK, RowsType, RowRead
  <2>4. PICK l \in Pc : Goto(r, l)
    BY <2>1
  <2> QED
    BY <1>4, <2>3, <2>4, GotoTypes DEF ReadOrders, TypeOK, RowsType
<1>5. ASSUME NEW r \in Request, Claim(r) PROVE TypeOK'
  <2>1. Kept \in Seq([id : Cid, at : 0 .. MaxTime])
    BY KeptIsSeq DEF TypeOK
  <2>2. [id |-> body[r].cid, at |-> now] \in [id : Cid, at : 0 .. MaxTime]
    BY DEF TypeOK, BodyType
  <2>3. seen' \in Seq([id : Cid, at : 0 .. MaxTime])
    <3>1. \/ seen' = Kept
          \/ seen' = Append(Kept, [id |-> body[r].cid, at |-> now])
      BY <1>5 DEF Claim
    <3>2. \A T : \A q \in Seq(T), e \in T : Append(q, e) \in Seq(T)
      BY AppendProperties
    <3>3. Append(Kept, [id |-> body[r].cid, at |-> now])
            \in Seq([id : Cid, at : 0 .. MaxTime])
      BY <2>1, <2>2, <3>2, Zenon
    <3> QED
      BY <2>1, <3>1, <3>3
  <2>4. Ids(seen) \subseteq Cid
    BY IdsTypes DEF TypeOK
  <2>5. PICK l \in Pc : Goto(r, l)
    BY <1>5 DEF Claim, Pc
  <2>6. forgot' \subseteq Cid
    BY <1>5, <2>4 DEF Claim, TypeOK
  <2>7. claimed' \subseteq Request
    BY <1>5 DEF Claim, TypeOK
  <2>8. UNCHANGED <<body, rows, opsLock, now, restarts, book, openedBy, blind,
                    overtaken, widened>>
    BY <1>5 DEF Claim
  <2> QED
    BY <2>3, <2>5, <2>6, <2>7, <2>8, GotoTypes DEF TypeOK
<1>6. ASSUME NEW r \in Request, EnsureSymbol(r) PROVE TypeOK'
  <2>1. PICK l \in Pc : Goto(r, l)
    BY <1>6 DEF EnsureSymbol, Pc
  <2> QED
    BY <1>6, <2>1, GotoTypes DEF EnsureSymbol, TypeOK
<1>7. ASSUME NEW r \in Request, CheckReturns(r) PROVE TypeOK'
  <2>1. CASE Answer(r, "unknown") /\ UNCHANGED worker
    BY <1>7, <2>1, AnswerTypes DEF CheckReturns, TypeOK, AnswerType
  <2>2. CASE \E l \in Pc : Goto(r, l)
    <3>1. PICK l \in Pc : Goto(r, l)
      BY <2>2
    <3> QED
      BY <1>7, <3>1, GotoTypes DEF CheckReturns, TypeOK
  <2> QED
    BY <1>7, <2>1, <2>2 DEF CheckReturns, Pc
<1>8. ASSUME NEW r \in Request, Refuse(r) \/ Respond(r) \/ TimeOut(r) PROVE TypeOK'
  <2>1. PICK a \in AnswerType : Answer(r, a)
    BY <1>8 DEF Refuse, Respond, TimeOut, AnswerType
  <2> QED
    BY <1>8, <2>1, AnswerTypes DEF Refuse, Respond, TimeOut, TypeOK
<1>9. ASSUME NEW r \in Request, TakeLock(r) PROVE TypeOK'
  BY <1>9 DEF TakeLock, TypeOK, WorkerState
<1>10. ASSUME NEW r \in Request, Execute(r) PROVE TypeOK'
  <2>1. book' \in [Ticket -> [st : TicketState, stop : 0 .. MaxStop]]
    <3>1. body[r] \in BodyType /\ MaxStop \in Nat
      BY BoundsAssumption DEF TypeOK
    <3>2. body[r].stop \in 0 .. MaxStop /\ body[r].ticket \in Ticket
      BY <3>1 DEF BodyType, Stop
    <3>3. CASE Rejected(book', openedBy')
      BY <3>3 DEF Rejected, TypeOK
    <3>4. CASE Opened(r, book', openedBy')
      BY <3>2, <3>4 DEF Opened, TypeOK, TicketState
    <3>5. CASE Changed(r, book', openedBy')
      <4>1. \/ book' = [book EXCEPT ![body[r].ticket].st = "closed"]
            \/ book' = [book EXCEPT ![body[r].ticket].stop = body[r].stop]
        BY <3>5 DEF Changed
      <4>2. CASE book' = [book EXCEPT ![body[r].ticket].st = "closed"]
        BY <3>2, <4>2 DEF TypeOK, TicketState
      <4>3. CASE book' = [book EXCEPT ![body[r].ticket].stop = body[r].stop]
        BY <3>2, <4>3 DEF TypeOK, TicketState
      <4> QED
        BY <4>1, <4>2, <4>3
    <3>6. \/ Rejected(book', openedBy') \/ Opened(r, book', openedBy')
          \/ Changed(r, book', openedBy')
      BY <1>10, Zenon DEF Execute
    <3> QED
      BY <3>3, <3>4, <3>5, <3>6
  <2>2. openedBy' \in [Ticket -> Request \cup {Nobody}]
    <3>1. \/ Rejected(book', openedBy') \/ Opened(r, book', openedBy')
          \/ Changed(r, book', openedBy')
      BY <1>10, Zenon DEF Execute
    <3>2. \/ openedBy' = openedBy
          \/ \E t \in Ticket : openedBy' = [openedBy EXCEPT ![t] = r]
      BY <3>1 DEF Rejected, Opened, Changed
    <3> QED
      BY <3>2 DEF TypeOK
  <2>3. worker' \in [Request -> WorkerState]
    BY <1>10 DEF Execute, TypeOK, WorkerState
  <2>4. opsLock' \in Request \cup {Nobody}
    BY <1>10 DEF Execute, TypeOK
  <2>5. overtaken' \subseteq Ticket
    BY <1>10 DEF Execute, TypeOK
  <2>6. widened' \subseteq Ticket
    BY <1>10 DEF Execute, TypeOK, Live, Positions, Working
  <2>7. UNCHANGED <<pc, body, answer, rows, registryVars, restarts, claimed,
                    forgot, blind>>
    BY <1>10 DEF Execute
  <2> QED
    BY <2>1, <2>2, <2>3, <2>4, <2>5, <2>6, <2>7 DEF TypeOK
<1>11. ASSUME NEW t \in Ticket, Fill(t) \/ StopOut(t) \/ OwnerOpens(t) PROVE TypeOK'
  <2>1. 0 \in 0 .. MaxStop /\ MaxStop \in 0 .. MaxStop
    BY BoundsAssumption
  <2>2. PICK new \in [st : TicketState, stop : 0 .. MaxStop] : BookMoves(t, new)
    BY <1>11, <2>1 DEF Fill, StopOut, OwnerOpens, TypeOK, TicketState, NoStop
  <2> QED
    BY <2>2 DEF BookMoves, TypeOK, threadVars
<1>12. CASE Tick
  BY <1>12, BoundsAssumption DEF Tick, TypeOK, threadVars
<1>13. CASE Restart
  <2>1. Ids(seen) \subseteq Cid
    BY IdsTypes DEF TypeOK
  <2>2. restarts' \in 0 .. MaxRestarts
    BY <1>13, BoundsAssumption DEF Restart, TypeOK
  <2> QED
    BY <1>13, <2>1, <2>2, EmptySeq
       DEF Restart, TypeOK, Pc, AnswerType, WorkerState
<1>14. CASE UNCHANGED vars
  BY <1>14 DEF vars, threadVars, TypeOK
<1> QED
  BY <1>1, <1>2, <1>3, <1>4, <1>5, <1>6, <1>7, <1>8, <1>9, <1>10, <1>11, <1>12,
     <1>13, <1>14 DEF Next, HttpStep, Environment

(* Every variable of the order route keeps its type: in particular no ticket *)
(* is opened, and no registry entry made, outside the declared sets.         *)
THEOREM TypeCorrect == Spec => []TypeOK
<1> QED
  BY InitTypes, StepTypes, PTL DEF Spec

-----------------------------------------------------------------------------
(* The inductive invariant. *)

Unsent == {"idle", "price", "positions", "orders", "claim", "symbol", "checking"}
Unclaimed == Unsent \ {"symbol", "checking"}

\* A request is claimed before its entry is sent, and sent at most once.
SentOnce ==
    \A r \in Request :
        /\ pc[r] \in Unsent => worker[r] = "none"
        /\ pc[r] \in Unclaimed => r \notin claimed
        /\ IsEntry(r) /\ (pc[r] \in {"symbol", "checking", "sending"} \/ worker[r] # "none")
           => r \in claimed

\* A ticket has the one request that opened it, which did nothing else.
OneOpener ==
    /\ \A t \in Ticket : openedBy[t] \in Request =>
          /\ openedBy[t] \in claimed /\ IsEntry(openedBy[t])
          /\ worker[openedBy[t]] = "executed"
          /\ book[t].st # "free"
    /\ \A t, u \in Ticket :
          openedBy[t] \in Request /\ openedBy[t] = openedBy[u] => t = u
    /\ \A r \in Request : IsEntry(r) /\ worker[r] = "executed"
                           => \E t \in Ticket : openedBy[t] = r

\* An admitted id is in the registry or was forgotten; while it is remembered
\* no second request is admitted with it.
IdsRemembered ==
    /\ \A r \in claimed : body[r].cid \in Ids(seen) \cup forgot
    /\ \A r, s \in claimed : r # s /\ body[r].cid = body[s].cid
                             => body[r].cid \in forgot

\* What was answered cannot be undone by a worker that is still running.
AnswersFinal ==
    \A r \in Request :
        /\ pc[r] # "answered" => answer[r] = "none"
        /\ answer[r] = "refused" => worker[r] \in {"none", "rejected"}
        /\ answer[r] = "filled" => worker[r] = "executed"

IInv == TypeOK /\ SentOnce /\ OneOpener /\ IdsRemembered /\ AnswersFinal

\* Request r moves on to l, claiming nothing: what all the steps of its own
\* thread but Arrive and Claim have in common.
Moves(r, l) ==
    /\ pc[r] \notin {"idle", "answered"}
    /\ pc' = [pc EXCEPT ![r] = l]
    /\ l \in Unsent => pc[r] \in Unsent
    /\ l \in Unclaimed => pc[r] \in Unclaimed
    /\ IsEntry(r) /\ l \in {"symbol", "checking", "sending"}
       => pc[r] \in {"symbol", "checking"}
    /\ IF l = "sending"
       THEN pc[r] \in Unsent /\ worker' = [worker EXCEPT ![r] = "waiting"]
       ELSE worker' = worker
    /\ l # "answered" => answer' = answer
    /\ UNCHANGED <<body, seen, book, openedBy, claimed, forgot>>

Answers(r) ==
    \E a \in AnswerType :
        /\ answer' = [answer EXCEPT ![r] = a]
        /\ a = "refused" => pc[r] \in Unsent \/ worker[r] = "rejected"
        /\ a = "filled" => worker[r] = "executed"

LEMMA ThreadStep ==
    ASSUME TypeOK, NEW r \in Request, HttpStep(r) \/ CheckReturns(r), ~Claim(r)
    PROVE  \E l \in Pc : Moves(r, l) /\ (l = "answered" => Answers(r))
<1> USE DEF registryVars, history, Unsent, Unclaimed
<1>1. CASE ReadPrice(r)
  <2>1. PICK l \in {"positions", "answered"} : Goto(r, l)
    BY <1>1 DEF ReadPrice
  <2> QED
    BY <1>1, <2>1 DEF ReadPrice, Goto, Moves, Answers, Pc, AnswerType
<1>2. CASE ReadPositions(r)
  <2>1. PICK l \in {"orders", "symbol", "sending", "answered"} :
           Goto(r, l) /\ (IsEntry(r) => l \in {"orders", "answered"})
    BY <1>2 DEF ReadPositions, IsEntry
  <2> QED
    BY <1>2, <2>1 DEF ReadPositions, Goto, Moves, Answers, Pc, AnswerType
<1>3. CASE ReadOrders(r)
  <2>1. PICK l \in {"positions", "claim", "answered"} : Goto(r, l)
    BY <1>3 DEF ReadOrders
  <2> QED
    BY <1>3, <2>1 DEF ReadOrders, Goto, Moves, Answers, Pc, AnswerType
<1>4. CASE EnsureSymbol(r)
  <2>1. PICK l \in {"checking", "sending"} : Goto(r, l)
    BY <1>4 DEF EnsureSymbol
  <2> QED
    BY <1>4, <2>1 DEF EnsureSymbol, Goto, Moves, Answers, Pc, AnswerType
<1>5. CASE CheckReturns(r)
  <2>1. CASE \E l \in {"sending", "answered"} : Goto(r, l)
    BY <1>5, <2>1 DEF CheckReturns, Goto, Moves, Answers, Pc, AnswerType
  <2>2. CASE Answer(r, "unknown") /\ UNCHANGED worker
    BY <1>5, <2>2 DEF CheckReturns, Answer, Moves, Answers, Pc, AnswerType
  <2> QED
    BY <1>5, <2>1, <2>2, Zenon DEF CheckReturns
<1>6. CASE Refuse(r) \/ Respond(r) \/ TimeOut(r)
  <2>1. PICK a \in AnswerType :
           /\ Answer(r, a)
           /\ a = "refused" => pc[r] \in Unsent \/ worker[r] = "rejected"
           /\ a = "filled" => worker[r] = "executed"
    BY <1>6 DEF Refuse, Respond, TimeOut, AnswerType
  <2>2. Answers(r)
    BY <2>1 DEF Answers, Answer
  <2>3. Moves(r, "answered")
    BY <1>6, <2>1 DEF Refuse, Respond, TimeOut, Answer, Moves
  <2> QED
    BY <2>2, <2>3 DEF Pc
<1> QED
  BY <1>1, <1>2, <1>3, <1>4, <1>5, <1>6 DEF HttpStep

LEMMA MovesKeepIInv ==
    ASSUME IInv, TypeOK', NEW r \in Request, NEW l \in Pc,
           Moves(r, l), l = "answered" => Answers(r)
    PROVE  IInv'
<1> USE DEF IInv, Unsent, Unclaimed
<1>1. UNCHANGED <<body, seen, book, openedBy, claimed, forgot>>
  BY DEF Moves
<1>2. \A q \in Request : IsEntry(q)' = IsEntry(q)
  BY <1>1 DEF IsEntry
<1>3. /\ pc' = [pc EXCEPT ![r] = l]
      /\ worker' = worker \/ (l = "sending" /\ worker[r] = "none"
                              /\ worker' = [worker EXCEPT ![r] = "waiting"])
  BY DEF Moves, SentOnce
<1>4. SentOnce'
  BY <1>1, <1>2, <1>3 DEF SentOnce, Moves, TypeOK, Pc
<1>5. OneOpener'
  BY <1>1, <1>2, <1>3 DEF OneOpener, TypeOK
<1>6. IdsRemembered'
  BY <1>1 DEF IdsRemembered
<1>7. AnswersFinal'
  <2>1. CASE l = "answered"
    BY <1>3, <2>1 DEF AnswersFinal, Answers, SentOnce, TypeOK
  <2>2. CASE l # "answered"
    BY <1>3, <2>2 DEF AnswersFinal, Moves, TypeOK
  <2> QED
    BY <2>1, <2>2
<1> QED
  BY <1>4, <1>5, <1>6, <1>7

LEMMA ClaimKeepsIInv ==
    ASSUME IInv, TypeOK', NEW r \in Request, Claim(r)
    PROVE  IInv'
<1> USE DEF IInv, Unsent, Unclaimed, registryVars, history
<1>1. PICK l \in {"symbol", "answered"} :
         /\ Goto(r, l)
         /\ IF l = "symbol"
            THEN /\ claimed' = claimed \cup {r}
                 /\ body[r].cid \notin Ids(Kept)
                 /\ seen' = Append(Kept, [id |-> body[r].cid, at |-> now])
            ELSE claimed' = claimed /\ seen' = Kept
  <2>1. CASE body[r].cid \in Ids(Kept)
    BY <2>1 DEF Claim
  <2>2. CASE body[r].cid \notin Ids(Kept)
    BY <2>2 DEF Claim
  <2> QED
    BY <2>1, <2>2
<1>2. /\ UNCHANGED <<body, book, openedBy>>
      /\ pc[r] = "claim" /\ worker[r] = "none" /\ r \notin claimed
      /\ forgot' = forgot \cup (Ids(seen) \ Ids(Kept))
  BY DEF Claim, SentOnce
<1>3. \A q \in Request : IsEntry(q)' = IsEntry(q)
  BY <1>2 DEF IsEntry
<1>4. worker' = worker /\ pc' = [pc EXCEPT ![r] = l]
  BY <1>1 DEF Goto
<1>5. Ids(seen') = IF l = "symbol" THEN Ids(Kept) \cup {body[r].cid} ELSE Ids(Kept)
  <2>1. CASE l = "answered"
    BY <1>1, <2>1
  <2>2. CASE l = "symbol"
    <3> DEFINE e == [id |-> body[r].cid, at |-> now]
               T == [id : Cid, at : 0 .. MaxTime]
    <3>1. Kept \in Seq(T) /\ e \in T
      BY KeptIsSeq DEF TypeOK, BodyType
    <3>2. e.id = body[r].cid
      OBVIOUS
    <3>3. seen' = Append(Kept, e)
      BY <1>1, <2>2
    <3> HIDE DEF e, T
    <3>4. Ids(Append(Kept, e)) = Ids(Kept) \cup {e.id}
      BY <3>1, IdsOfAppend
    <3> QED
      BY <2>2, <3>2, <3>3, <3>4
  <2> QED
    BY <2>1, <2>2
<1>6. SentOnce'
  BY <1>1, <1>2, <1>3, <1>4 DEF SentOnce, TypeOK
<1>7. OneOpener'
  BY <1>1, <1>2, <1>3, <1>4 DEF OneOpener
<1>8. IdsRemembered'
  BY <1>1, <1>2, <1>5 DEF IdsRemembered
<1>9. AnswersFinal'
  BY <1>1, <1>2, <1>4 DEF AnswersFinal, Goto, TypeOK
<1> QED
  BY <1>6, <1>7, <1>8, <1>9

LEMMA ArriveKeepsIInv ==
    ASSUME IInv, TypeOK', NEW r \in Request, NEW b \in Body, Arrive(r, b)
    PROVE  IInv'
<1> USE DEF IInv, Unsent, Unclaimed, registryVars, history
<1>1. PICK l \in {"price", "positions", "orders", "symbol", "answered"} :
         Goto(r, l) /\ (l = "symbol" => b.kind = "modify_pending")
  BY DEF Arrive
<1>2. /\ pc[r] = "idle" /\ worker[r] = "none" /\ r \notin claimed
      /\ body' = [body EXCEPT ![r] = b]
      /\ UNCHANGED <<seen, book, openedBy, claimed, forgot>>
      /\ pc' = [pc EXCEPT ![r] = l] /\ worker' = worker
  BY <1>1 DEF Arrive, SentOnce, Goto
<1>3. /\ \A q \in Request \ {r} : body'[q] = body[q] /\ IsEntry(q)' = IsEntry(q)
      /\ l = "symbol" => ~IsEntry(r)'
  BY <1>1, <1>2 DEF IsEntry, TypeOK
<1>4. SentOnce'
  BY <1>2, <1>3 DEF SentOnce, TypeOK
<1>5. OneOpener'
  BY <1>2, <1>3 DEF OneOpener, TypeOK
<1>6. IdsRemembered'
  BY <1>2, <1>3 DEF IdsRemembered, TypeOK
<1>7. AnswersFinal'
  BY <1>1, <1>2 DEF AnswersFinal, Goto, TypeOK
<1> QED
  BY <1>4, <1>5, <1>6, <1>7

LEMMA WorkerKeepsIInv ==
    ASSUME IInv, TypeOK', NEW r \in Request, TakeLock(r) \/ Execute(r)
    PROVE  IInv'
<1> USE DEF IInv, Unsent, Unclaimed, registryVars, history
<1>1. /\ worker[r] \notin {"none", "executed", "rejected"}
      /\ UNCHANGED <<pc, body, answer, seen, claimed, forgot>>
      /\ \E w \in {"ipc", "executed", "rejected"} : worker' = [worker EXCEPT ![r] = w]
  BY DEF TakeLock, Execute
<1>2. \A q \in Request : IsEntry(q)' = IsEntry(q)
  BY <1>1 DEF IsEntry
<1>3. SentOnce'
  BY <1>1, <1>2 DEF SentOnce, TypeOK
<1>4. IdsRemembered'
  BY <1>1 DEF IdsRemembered
<1>5. AnswersFinal'
  BY <1>1 DEF AnswersFinal, TypeOK
<1>6. \A t \in Ticket : openedBy[t] # r
  BY <1>1 DEF OneOpener
<1>7. CASE openedBy' = openedBy /\ (IsEntry(r) => worker'[r] # "executed")
                              /\ \A t \in Ticket : book[t].st # "free" => book'[t].st # "free"
  BY <1>1, <1>2, <1>3, <1>4, <1>5, <1>6, <1>7 DEF OneOpener, TypeOK
<1>8. CASE /\ Opened(r, book', openedBy')
           /\ worker' = [worker EXCEPT ![r] = "executed"]
  <2>1. PICK t \in Ticket :
           /\ IsEntry(r) /\ book[t].st = "free"
           /\ book' = [book EXCEPT ![t] =
                        [st |-> IF body[r].kind = "entry" THEN "open" ELSE "working",
                         stop |-> body[r].stop]]
           /\ openedBy' = [openedBy EXCEPT ![t] = r]
    BY <1>8 DEF Opened
  <2>2. r \in claimed
    BY <1>1, <2>1 DEF SentOnce
  <2>3. openedBy[t] \notin Request
    BY <2>1 DEF OneOpener
  <2>4. book'[t].st # "free" /\ \A u \in Ticket \ {t} : book'[u] = book[u]
    BY <2>1 DEF TypeOK
  <2>5. OneOpener'
    BY <1>1, <1>2, <1>6, <1>8, <2>1, <2>2, <2>3, <2>4 DEF OneOpener, TypeOK
  <2> QED
    BY <1>3, <1>4, <1>5, <2>5
<1>9. CASE TakeLock(r)
  BY <1>7, <1>9 DEF TakeLock, TypeOK
<1>10. CASE Execute(r)
  <2>1. CASE Rejected(book', openedBy') /\ worker' = [worker EXCEPT ![r] = "rejected"]
    BY <1>7, <2>1 DEF Rejected, TypeOK
  <2>2. CASE Changed(r, book', openedBy')
    <3>1. openedBy' = openedBy
      BY <2>2 DEF Changed
    <3>2. ~IsEntry(r)
      BY <2>2 DEF Changed, IsEntry
    <3>3. \/ book' = [book EXCEPT ![body[r].ticket].st = "closed"]
          \/ book' = [book EXCEPT ![body[r].ticket].stop = body[r].stop]
      BY <2>2 DEF Changed
    <3>4. \A t \in Ticket : book[t].st # "free" => book'[t].st # "free"
      <4>1. CASE book' = [book EXCEPT ![body[r].ticket].st = "closed"]
        BY <4>1 DEF TypeOK
      <4>2. CASE book' = [book EXCEPT ![body[r].ticket].stop = body[r].stop]
        BY <4>2 DEF TypeOK
      <4> QED
        BY <3>3, <4>1, <4>2
    <3> QED
      BY <1>7, <3>1, <3>2, <3>4
  <2> QED
    BY <1>8, <1>10, <2>1, <2>2, Zenon DEF Execute
<1> QED
  BY <1>9, <1>10

LEMMA EnvironmentKeepsIInv ==
    ASSUME IInv, TypeOK', Environment
    PROVE  IInv'
<1> USE DEF IInv, Unsent, Unclaimed, registryVars, history, threadVars
<1>1. ASSUME NEW t \in Ticket, Fill(t) \/ StopOut(t) \/ OwnerOpens(t) PROVE IInv'
  <2>1. PICK new : BookMoves(t, new) /\ new.st # "free"
    BY <1>1 DEF Fill, StopOut, OwnerOpens, TypeOK
  <2>2. \A u \in Ticket : book[u].st # "free" => book'[u].st # "free"
    BY <2>1 DEF BookMoves, TypeOK
  <2>3. UNCHANGED <<pc, body, answer, worker, seen, openedBy, claimed, forgot>>
    BY <2>1 DEF BookMoves
  <2> QED
    BY <2>2, <2>3
       DEF SentOnce, OneOpener, IdsRemembered, AnswersFinal, IsEntry
<1>2. CASE Tick
  BY <1>2 DEF Tick, SentOnce, OneOpener, IdsRemembered, AnswersFinal, IsEntry
<1>3. CASE Restart
  <2>1. /\ UNCHANGED <<body, book, openedBy, claimed>>
        /\ forgot' = forgot \cup Ids(seen)
        /\ pc' = [r \in Request |-> IF pc[r] = "idle" THEN "idle" ELSE "answered"]
        /\ answer' = [r \in Request |-> IF pc[r] \in {"idle", "answered"}
                                       THEN answer[r] ELSE "unknown"]
        /\ \A r \in Request :
              /\ worker[r] = "none" => worker'[r] = "none"
              /\ worker[r] \in {"executed", "rejected"} => worker'[r] = worker[r]
              /\ worker'[r] # "none" => worker[r] # "none"
              /\ worker'[r] = "executed" => worker[r] = "executed"
    BY <1>3 DEF Restart
  <2>2. SentOnce'
    BY <2>1 DEF SentOnce, IsEntry, TypeOK
  <2>3. OneOpener'
    BY <2>1 DEF OneOpener, IsEntry
  <2>4. IdsRemembered'
    BY <2>1 DEF IdsRemembered
  <2>5. AnswersFinal'
    BY <2>1 DEF AnswersFinal, TypeOK
  <2> QED
    BY <2>2, <2>3, <2>4, <2>5
<1> QED
  BY <1>1, <1>2, <1>3 DEF Environment

LEMMA InductiveInvariant == Spec => []IInv
<1>1. Init => IInv
  <2> SUFFICES ASSUME Init PROVE IInv
    OBVIOUS
  <2>1. TypeOK
    BY InitTypes
  <2> QED
    BY <2>1, NobodyAssumption
       DEF IInv, Init, SentOnce, OneOpener, IdsRemembered, AnswersFinal, Ids
<1>2. IInv /\ [Next]_vars => IInv'
  <2> SUFFICES ASSUME IInv, [Next]_vars PROVE IInv'
    OBVIOUS
  <2>1. TypeOK'
    BY StepTypes DEF IInv
  <2>2. ASSUME NEW r \in Request, HttpStep(r) \/ CheckReturns(r) PROVE IInv'
    <3>1. CASE Claim(r)
      BY <2>1, <3>1, ClaimKeepsIInv
    <3>2. CASE ~Claim(r)
      BY <2>1, <2>2, <3>2, ThreadStep, MovesKeepIInv DEF IInv
    <3> QED
      BY <3>1, <3>2
  <2>3. ASSUME NEW r \in Request, NEW b \in Body, Arrive(r, b) PROVE IInv'
    BY <2>1, <2>3, ArriveKeepsIInv
  <2>4. ASSUME NEW r \in Request, TakeLock(r) \/ Execute(r) PROVE IInv'
    BY <2>1, <2>4, WorkerKeepsIInv
  <2>5. CASE Environment
    BY <2>1, <2>5, EnvironmentKeepsIInv
  <2>6. CASE UNCHANGED vars
    BY <2>1, <2>6 DEF vars, threadVars, registryVars, history, IInv, SentOnce,
       OneOpener, IdsRemembered, AnswersFinal, IsEntry
  <2> QED
    BY <2>2, <2>3, <2>4, <2>5, <2>6 DEF Next
<1> QED
  BY <1>1, <1>2, PTL DEF Spec

-----------------------------------------------------------------------------
(* A client_order_id opens at most one ticket while the registry remembers   *)
(* it, whatever times out, is left behind, is retried or restarts            *)
(* (order_guard.py ClientOrderIdRegistry.claim, runtime.py order_send).      *)
THEOREM OneEntry == Spec => []OneEntryPerId
<1>1. IInv => OneEntryPerId
  BY DEF IInv, OneOpener, IdsRemembered, OneEntryPerId
<1> QED
  BY <1>1, InductiveInvariant, PTL

(* A caller that was told of a definite failure never sees its order         *)
(* executed, and one that was told of a fill has its order (runtime.py       *)
(* order_send, call_mt5_bounded).                                            *)
THEOREM TrueAnswers == Spec => []AnswersAreTrue
<1>1. IInv => AnswersAreTrue
  BY DEF IInv, OneOpener, AnswersFinal, AnswersAreTrue
<1> QED
  BY <1>1, InductiveInvariant, PTL

-----------------------------------------------------------------------------
(* The route implements the order entry: it admits an id when the registry   *)
(* does, and every thread, worker and restart can only lose what was         *)
(* admitted, or execute it once.                                             *)

\* Only entries are admitted.
ClaimsAreEntries ==
    \A r \in Request : r \in claimed \/ pc[r] = "claim" => IsEntry(r)

EInv == IInv /\ ClaimsAreEntries

LEMMA EntryInvariant == Spec => []EInv
<1>1. Init => ClaimsAreEntries
  BY DEF Init, ClaimsAreEntries
<1>2. IInv /\ ClaimsAreEntries /\ [Next]_vars => ClaimsAreEntries'
  <2> SUFFICES ASSUME IInv, ClaimsAreEntries, [Next]_vars PROVE ClaimsAreEntries'
    OBVIOUS
  <2> USE DEF registryVars, history, threadVars
  <2>1. ASSUME NEW r \in Request, NEW b \in Body, Arrive(r, b) PROVE ClaimsAreEntries'
    <3>1. PICK l \in Pc \ {"claim"} : pc' = [pc EXCEPT ![r] = l]
      BY <2>1 DEF Arrive, Goto, Pc
    <3>2. /\ claimed' = claimed /\ r \notin claimed
          /\ \A q \in Request \ {r} : body'[q] = body[q]
      BY <2>1 DEF Arrive, IInv, SentOnce, Unclaimed, Unsent, TypeOK
    <3> QED
      BY <3>1, <3>2 DEF ClaimsAreEntries, IsEntry, IInv, TypeOK
  <2>2. ASSUME NEW r \in Request, Claim(r) PROVE ClaimsAreEntries'
    BY <2>2 DEF Claim, Goto, ClaimsAreEntries, IsEntry, IInv, TypeOK
  <2>3. ASSUME NEW r \in Request, ReadOrders(r) PROVE ClaimsAreEntries'
    <3>1. PICK l \in Pc : pc' = [pc EXCEPT ![r] = l] /\ (l = "claim" => IsEntry(r))
      BY <2>3 DEF ReadOrders, Goto, Pc
    <3>2. UNCHANGED <<body, claimed>>
      BY <2>3 DEF ReadOrders
    <3> QED
      BY <3>1, <3>2 DEF ClaimsAreEntries, IsEntry, IInv, TypeOK
  <2>4. ASSUME NEW r \in Request, HttpStep(r) \/ CheckReturns(r), ~Claim(r), ~ReadOrders(r)
        PROVE  ClaimsAreEntries'
    <3>1. \E l \in Pc \ {"claim"} : pc' = [pc EXCEPT ![r] = l]
      BY <2>4 DEF HttpStep, ReadPrice, ReadPositions, EnsureSymbol, CheckReturns, Refuse,
                  Respond, TimeOut, Goto, Answer, Pc
    <3>2. UNCHANGED <<body, claimed>>
      BY <2>4 DEF HttpStep, ReadPrice, ReadPositions, EnsureSymbol, CheckReturns, Refuse,
                  Respond, TimeOut
    <3> QED
      BY <3>1, <3>2 DEF ClaimsAreEntries, IsEntry, IInv, TypeOK
  <2>5. CASE \/ \E r \in Request : TakeLock(r) \/ Execute(r)
             \/ \E t \in Ticket : Fill(t) \/ StopOut(t) \/ OwnerOpens(t)
             \/ Tick \/ UNCHANGED vars
    BY <2>5 DEF TakeLock, Execute, Fill, StopOut, OwnerOpens, BookMoves, Tick, vars,
                ClaimsAreEntries, IsEntry
  <2>6. CASE Restart
    BY <2>6 DEF Restart, ClaimsAreEntries, IsEntry
  <2> QED
    BY <2>1, <2>2, <2>3, <2>4, <2>5, <2>6 DEF Next, Environment
<1> QED
  BY <1>1, <1>2, InductiveInvariant, PTL DEF Spec, EInv

(* What has become of an admitted entry shows in its thread and its worker.  *)
FateIn(p, w) ==
    CASE w = "executed" -> "open"
      [] w = "rejected" \/ (w = "none" /\ p = "answered") -> "dead"
      [] OTHER -> "flight"

LEMMA FateShows ==
    EInv => \A r \in claimed : FateOf(r) = FateIn(pc[r], worker[r])
<1> SUFFICES ASSUME EInv, NEW r \in claimed PROVE FateOf(r) = FateIn(pc[r], worker[r])
  OBVIOUS
<1>1. r \in Request /\ IsEntry(r)
  BY DEF EInv, IInv, TypeOK, ClaimsAreEntries
<1>2. (\E t \in Ticket : openedBy[t] = r) <=> worker[r] = "executed"
  BY <1>1 DEF EInv, IInv, OneOpener
<1> QED
  BY <1>2 DEF FateOf, FateIn

LEMMA FateShowsNext ==
    (EInv => \A r \in claimed : FateOf(r) = FateIn(pc[r], worker[r]))'
BY FateShows, PTL

(* Forgetting ids is all that a step does to the memory which drops ids from *)
(* the registry and adds none.                                               *)
LEMMA RegistryForgets ==
    ASSUME TypeOK, NEW dropped, dropped \subseteq Ids(seen),
           forgot' = forgot \cup dropped,
           \A i \in Cid \ dropped : i \in Ids(seen)' <=> i \in Ids(seen)
    PROVE  /\ Promise!Forgotten(dropped)
           /\ dropped \in SUBSET Cid
           /\ \A i \in Cid : MemoryOf(i)' = Promise!AfterForgetting(i, dropped)
<1>1. dropped \in SUBSET Cid
  BY IdsTypes DEF TypeOK
<1> QED
  BY <1>1 DEF Promise!Forgotten, Promise!AfterForgetting, MemoryOf

(* A step that only ends orders is one that loses them.                      *)
LEMMA EndingLoses ==
    ASSUME NEW dropped \in SUBSET Cid,
           Promise!Forgotten(dropped),
           \A i \in Cid : MemoryOf(i)' = Promise!AfterForgetting(i, dropped),
           claimed' = claimed,
           \A r \in claimed : body'[r].cid = body[r].cid,
           \A r \in claimed : \/ FateOf(r)' = FateOf(r)
                              \/ FateOf(r) = "flight" /\ FateOf(r)' = "dead"
    PROVE  Promise!Next
<1> DEFINE Rec(r) == [of |-> r, id |-> body[r].cid, fate |-> FateOf(r)]
           Dead(r) == [of |-> r, id |-> body[r].cid, fate |-> "dead"]
           Ending == {r \in claimed : FateOf(r)' # FateOf(r)}
           dying == {Rec(r) : r \in Ending}
<1>1. Admitted = {Rec(r) : r \in claimed}
  BY DEF Admitted
<1>2. \A x \in dying : x.fate = "flight"
  OBVIOUS
<1>3. \A r \in Ending : [Rec(r) EXCEPT !.fate = "dead"] = Dead(r)
  OBVIOUS
<1>4. Admitted' = {[of |-> r, id |-> body[r].cid, fate |-> FateOf(r)'] : r \in claimed}
  BY DEF Admitted
<1>5. Admitted' = (Admitted \ dying) \cup {[x EXCEPT !.fate = "dead"] : x \in dying}
  <2>1. {[x EXCEPT !.fate = "dead"] : x \in dying} = {Dead(r) : r \in Ending}
    <3> HIDE DEF Rec, Dead, Ending
    <3> QED
      BY <1>3
  <2>2. Admitted \ dying = {Rec(r) : r \in claimed \ Ending}
    BY <1>1
  <2>3. \A r \in Ending : FateOf(r)' = "dead"
    OBVIOUS
  <2>4. \A r \in claimed \ Ending : FateOf(r)' = FateOf(r)
    OBVIOUS
  <2> HIDE DEF Ending
  <2>5. Ending \subseteq claimed
    BY DEF Ending
  <2> QED
    BY <1>4, <2>1, <2>2, <2>3, <2>4, <2>5
<1>6. [i \in Cid |-> MemoryOf(i)]' = [i \in Cid |-> Promise!AfterForgetting(i, dropped)]
  OBVIOUS
<1>7. dying \in SUBSET Admitted
  BY <1>1
<1> HIDE DEF dying
<1>8. Promise!Lose(dropped, dying)
  BY <1>2, <1>5, <1>6 DEF Promise!Lose
<1> QED
  BY <1>7, <1>8 DEF Promise!Next

LEMMA EntryInit == Init => Promise!Init
<1> SUFFICES ASSUME Init PROVE Promise!Init
  OBVIOUS
<1>1. \A i \in Cid : MemoryOf(i) = "new"
  BY DEF Init, MemoryOf, Ids
<1>2. Admitted = {}
  BY DEF Init, Admitted
<1> QED
  BY <1>1, <1>2 DEF Promise!Init

(* A step that neither drops nor admits an id leaves the memory alone.       *)
LEMMA NothingForgotten ==
    ASSUME TypeOK, forgot' = forgot, seen' = seen
    PROVE  /\ Promise!Forgotten({})
           /\ \A i \in Cid : MemoryOf(i)' = Promise!AfterForgetting(i, {})
<1>1. Ids(seen)' = Ids(seen) /\ forgot' = forgot \cup {}
  BY DEF Ids
<1> QED
  BY <1>1, RegistryForgets

LEMMA ThreadEntry ==
    ASSUME EInv, EInv', NEW r \in Request, HttpStep(r) \/ CheckReturns(r), ~Claim(r)
    PROVE  Promise!Next
<1>1. PICK l \in Pc : Moves(r, l)
  BY ThreadStep DEF EInv, IInv
<1>2. /\ UNCHANGED <<body, seen, claimed, forgot>>
      /\ pc' = [pc EXCEPT ![r] = l]
      /\ worker' = IF l = "sending" THEN [worker EXCEPT ![r] = "waiting"] ELSE worker
  BY <1>1 DEF Moves
<1>3. l = "sending" => pc[r] \in Unsent /\ worker[r] = "none"
  BY <1>1 DEF Moves, EInv, IInv, SentOnce
<1>4. ASSUME NEW q \in claimed
      PROVE  FateOf(q)' = FateOf(q) \/ (FateOf(q) = "flight" /\ FateOf(q)' = "dead")
  <2>1. q \in Request /\ q \in claimed'
    BY <1>2, <1>4 DEF EInv, IInv, TypeOK
  <2>2. FateOf(q) = FateIn(pc[q], worker[q]) /\ FateOf(q)' = FateIn(pc'[q], worker'[q])
    BY <2>1, <1>4, FateShows, FateShowsNext
  <2>3. CASE q # r
    BY <1>2, <2>1, <2>2, <2>3 DEF EInv, IInv, TypeOK
  <2>4. CASE q = r
    BY <1>1, <1>2, <1>3, <2>1, <2>2, <2>4 DEF EInv, IInv, TypeOK, FateIn, Moves, Unsent
  <2> QED
    BY <2>3, <2>4
<1> QED
  BY <1>2, <1>4, NothingForgotten, EndingLoses DEF EInv, IInv

LEMMA ClaimEntry ==
    ASSUME EInv, EInv', NEW r \in Request, Claim(r)
    PROVE  Promise!Next
<1> USE DEF EInv, IInv
<1> DEFINE dropped == Ids(seen) \ Ids(Kept)
           cid == body[r].cid
<1>1. /\ UNCHANGED <<body, openedBy>> /\ worker' = worker
      /\ forgot' = forgot \cup dropped
      /\ r \notin claimed /\ pc[r] = "claim" /\ cid \in Cid /\ worker[r] = "none"
      /\ \A q \in Request \ {r} : pc'[q] = pc[q]
  BY DEF Claim, Goto, SentOnce, Unclaimed, Unsent, TypeOK, BodyType
<1>2. Ids(Kept) \subseteq Ids(seen)
  BY KeptIsSeq DEF TypeOK, Ids
<1>3. \A q \in claimed : FateOf(q)' = FateOf(q)
  BY <1>1 DEF FateOf, TypeOK
<1>4. CASE cid \in Ids(Kept)
  <2>1. seen' = Kept /\ claimed' = claimed
    BY <1>4 DEF Claim
  <2>2. Ids(seen)' = Ids(Kept)
    BY <2>1 DEF Ids
  <2>3. \A i \in Cid \ dropped : i \in Ids(seen)' <=> i \in Ids(seen)
    BY <1>2, <2>2
  <2> HIDE DEF dropped
  <2>4. /\ Promise!Forgotten(dropped) /\ dropped \in SUBSET Cid
        /\ \A i \in Cid : MemoryOf(i)' = Promise!AfterForgetting(i, dropped)
    BY <1>1, <2>3, RegistryForgets DEF dropped
  <2> QED
    BY <1>1, <1>3, <2>1, <2>4, EndingLoses
<1>5. CASE cid \notin Ids(Kept)
  <2>1. seen' = Append(Kept, [id |-> cid, at |-> now]) /\ claimed' = claimed \cup {r}
    BY <1>5 DEF Claim
  <2>2. Ids(seen)' = Ids(Kept) \cup {cid}
    <3> DEFINE e == [id |-> cid, at |-> now]
               T == [id : Cid, at : 0 .. MaxTime]
    <3>1. Kept \in Seq(T) /\ e \in T /\ e.id = cid
      BY <1>1, KeptIsSeq DEF TypeOK
    <3> HIDE DEF e, T, cid
    <3>2. Ids(Append(Kept, e)) = Ids(Kept) \cup {cid}
      BY <3>1, IdsOfAppend
    <3> QED
      BY <2>1, <3>2 DEF Ids, e
  <2>3. Promise!Forgotten(dropped) /\ dropped \in SUBSET Cid
    BY IdsTypes DEF TypeOK, Promise!Forgotten, MemoryOf
  <2>4. Promise!AfterForgetting(cid, dropped) # "known"
    BY <1>1, <1>5 DEF Promise!AfterForgetting, MemoryOf
  <2>5. \A i \in Cid :
          MemoryOf(i)' = IF i = cid /\ Promise!AfterForgetting(i, dropped) = "new" THEN "known"
                         ELSE Promise!AfterForgetting(i, dropped)
    BY <1>1, <1>2, <1>5, <2>2 DEF Promise!AfterForgetting, MemoryOf
  <2>6. \A x \in Admitted : x.of # r
    BY <1>1 DEF Admitted
  <2>7. FateOf(r)' = "flight"
    <3>1. FateOf(r)' = FateIn(pc'[r], worker'[r])
      BY <2>1, FateShowsNext
    <3>2. pc'[r] = "symbol"
      BY <1>1, <1>5 DEF Claim, Goto, TypeOK
    <3> QED
      BY <1>1, <3>1, <3>2 DEF FateIn
  <2>8. Admitted' = Admitted \cup {[of |-> r, id |-> cid, fate |-> "flight"]}
    BY <1>1, <1>3, <2>1, <2>7 DEF Admitted
  <2> HIDE DEF dropped, cid
  <2>9. Promise!Admit(r, cid, dropped)
    BY <1>1, <2>3, <2>4, <2>5, <2>6, <2>8 DEF Promise!Admit
  <2> QED
    BY <1>1, <2>3, <2>9 DEF Promise!Next
<1> QED
  BY <1>4, <1>5

LEMMA ArriveEntry ==
    ASSUME EInv, EInv', NEW r \in Request, NEW b \in Body, Arrive(r, b)
    PROVE  Promise!Next
<1> USE DEF EInv, IInv, registryVars, history
<1>1. /\ UNCHANGED <<seen, forgot, openedBy, claimed>> /\ worker' = worker
      /\ r \notin claimed
      /\ \A q \in Request \ {r} : pc'[q] = pc[q] /\ body'[q] = body[q]
  BY DEF Arrive, Goto, SentOnce, Unclaimed, Unsent, TypeOK
<1>2. \A q \in claimed : FateOf(q)' = FateOf(q) /\ body'[q].cid = body[q].cid
  BY <1>1 DEF FateOf, TypeOK
<1> QED
  BY <1>1, <1>2, NothingForgotten, EndingLoses

LEMMA WorkerEntry ==
    ASSUME EInv, EInv', NEW r \in Request, TakeLock(r) \/ Execute(r)
    PROVE  Promise!Next
<1> USE DEF EInv, IInv, registryVars, history
<1>1. PICK w \in {"ipc", "executed", "rejected"} :
         worker' = [worker EXCEPT ![r] = w]
  BY DEF TakeLock, Execute
<1>2. UNCHANGED <<pc, body, seen, forgot, claimed>> /\ worker[r] \in {"waiting", "ipc", "detached"}
  BY DEF TakeLock, Execute
<1>3. \A q \in claimed : /\ q \in Request
                        /\ FateOf(q) = FateIn(pc[q], worker[q])
                        /\ FateOf(q)' = FateIn(pc[q], worker'[q])
  BY <1>2, FateShows, FateShowsNext DEF TypeOK
<1>4. \A q \in claimed : q # r => FateOf(q)' = FateOf(q)
  BY <1>1, <1>3 DEF TypeOK
<1>5. CASE r \in claimed /\ w = "executed"
  <2> DEFINE x == [of |-> r, id |-> body[r].cid, fate |-> "flight"]
             y == [of |-> r, id |-> body[r].cid, fate |-> "open"]
  <2>1. FateOf(r) = "flight" /\ FateOf(r)' = "open"
    BY <1>1, <1>2, <1>3, <1>5 DEF FateIn, TypeOK
  <2>2. x \in Admitted /\ [x EXCEPT !.fate = "open"] = y /\ x.fate = "flight"
    BY <1>5, <2>1 DEF Admitted
  <2>3. Admitted' = (Admitted \ {x}) \cup {y}
    BY <1>2, <1>4, <1>5, <2>1 DEF Admitted
  <2>4. [i \in Cid |-> MemoryOf(i)]' = [i \in Cid |-> MemoryOf(i)]
    BY <1>2 DEF MemoryOf, Ids
  <2> HIDE DEF x, y
  <2>5. Promise!Execute(x)
    BY <2>2, <2>3, <2>4 DEF Promise!Execute
  <2> QED
    BY <2>2, <2>5 DEF Promise!Next
<1>6. CASE r \notin claimed \/ w # "executed"
  <2>1. \A q \in claimed : FateOf(q)' = FateOf(q) \/ (FateOf(q) = "flight" /\ FateOf(q)' = "dead")
    BY <1>1, <1>2, <1>3, <1>4, <1>6 DEF FateIn, TypeOK
  <2> QED
    BY <1>2, <2>1, NothingForgotten, EndingLoses
<1> QED
  BY <1>5, <1>6

LEMMA EnvironmentEntry ==
    ASSUME EInv, EInv', Environment
    PROVE  Promise!Next
<1> USE DEF EInv, IInv, registryVars, history, threadVars
<1>1. CASE Tick \/ \E t \in Ticket : Fill(t) \/ StopOut(t) \/ OwnerOpens(t)
  <2>1. UNCHANGED <<pc, worker, body, openedBy, seen, forgot, claimed>>
    BY <1>1 DEF Tick, Fill, StopOut, OwnerOpens, BookMoves
  <2>2. \A q \in claimed : FateOf(q)' = FateOf(q) /\ body'[q].cid = body[q].cid
    BY <2>1 DEF FateOf
  <2> QED
    BY <2>1, <2>2, NothingForgotten, EndingLoses
<1>2. CASE Restart
  <2>1. /\ UNCHANGED <<body, openedBy, claimed>>
        /\ forgot' = forgot \cup Ids(seen) /\ Ids(seen)' = {}
        /\ \A q \in Request : pc[q] # "idle" => pc'[q] = "answered"
        /\ \A q \in Request : worker'[q] = CASE worker[q] = "ipc" -> "detached"
                                            [] worker[q] = "waiting" -> "none"
                                            [] OTHER -> worker[q]
    BY <1>2 DEF Restart, Ids
  <2>2. \A q \in claimed :
          FateOf(q)' = FateOf(q) \/ (FateOf(q) = "flight" /\ FateOf(q)' = "dead")
    <3> SUFFICES ASSUME NEW q \in claimed
                 PROVE  FateOf(q)' = FateOf(q) \/ (FateOf(q) = "flight" /\ FateOf(q)' = "dead")
      OBVIOUS
    <3>1. q \in Request /\ q \in claimed' /\ pc'[q] = "answered"
      BY <2>1 DEF TypeOK, SentOnce, Unclaimed, Unsent
    <3>2. FateOf(q) = FateIn(pc[q], worker[q]) /\ FateOf(q)' = FateIn("answered", worker'[q])
      BY <3>1, FateShows, FateShowsNext
    <3> QED
      BY <2>1, <3>1, <3>2 DEF FateIn
  <2>3. /\ Promise!Forgotten(Ids(seen)) /\ Ids(seen) \in SUBSET Cid
        /\ \A i \in Cid : MemoryOf(i)' = Promise!AfterForgetting(i, Ids(seen))
    <3>1. Ids(seen) \subseteq Cid
      BY IdsTypes DEF TypeOK
    <3> QED
      BY <2>1, <3>1, RegistryForgets
  <2> QED
    BY <2>1, <2>2, <2>3, EndingLoses
<1> QED
  BY <1>1, <1>2 DEF Environment

LEMMA EntryStep == EInv /\ EInv' /\ [Next]_vars => [Promise!Next]_(Promise!vars)
<1> SUFFICES ASSUME EInv, EInv', [Next]_vars PROVE [Promise!Next]_(Promise!vars)
  OBVIOUS
<1>1. ASSUME NEW r \in Request, HttpStep(r) \/ CheckReturns(r) PROVE Promise!Next
  BY <1>1, ThreadEntry, ClaimEntry
<1>2. ASSUME NEW r \in Request, NEW b \in Body, Arrive(r, b) PROVE Promise!Next
  BY <1>2, ArriveEntry
<1>3. ASSUME NEW r \in Request, TakeLock(r) \/ Execute(r) PROVE Promise!Next
  BY <1>3, WorkerEntry
<1>4. CASE Environment
  BY <1>4, EnvironmentEntry
<1>5. CASE UNCHANGED vars
  <2>1. UNCHANGED <<pc, worker, body, openedBy, seen, forgot, claimed>>
    BY <1>5 DEF vars, threadVars, registryVars, history
  <2> QED
    BY <2>1 DEF Promise!vars, Admitted, FateOf, MemoryOf, Ids
<1> QED
  BY <1>1, <1>2, <1>3, <1>4, <1>5 DEF Next

(* Whatever times out, is left behind, dropped from the registry or lost in  *)
(* a restart: the route lets an order pass only under an id that is not      *)
(* remembered, executes it at most once, and an order that was refused or    *)
(* lost stays so (ClientOrderIdRegistry.claim, order_send,                   *)
(* call_mt5_bounded).                                                        *)
THEOREM RouteImplementsEntry == Spec => ImplementsOrderEntry
BY EntryInit, EntryStep, EntryInvariant, PTL DEF Spec, ImplementsOrderEntry, Promise!Spec

-----------------------------------------------------------------------------
(* What OrderEntry promises is kept by every behaviour that implements it,   *)
(* the route's among them: nothing below looks behind Promise.               *)

EntryOrder == [of : Request, id : Cid, fate : {"flight", "open", "dead"}]
Mem == [i \in Cid |-> MemoryOf(i)]

Once ==
    /\ Mem \in [Cid -> {"new", "known", "forgotten"}]
    /\ Admitted \subseteq EntryOrder
    /\ \A x \in Admitted : Mem[x.id] # "new"
    /\ \A x, y \in Admitted : x.of = y.of => x = y
    /\ \A x, y \in Admitted : x.id = y.id /\ Mem[x.id] # "forgotten" => x = y

LEMMA OnceStep == Once /\ [Promise!Next]_(Promise!vars) => Once'
<1> SUFFICES ASSUME Once, [Promise!Next]_(Promise!vars) PROVE Once'
  OBVIOUS
<1> DEFINE After(i, dropped) == IF i \in dropped THEN "forgotten" ELSE Mem[i]
<1>0. \A i \in Cid : \A dropped : Promise!AfterForgetting(i, dropped) = After(i, dropped)
  BY DEF Promise!AfterForgetting, Mem
<1>1. ASSUME NEW r \in Request, NEW i \in Cid, NEW dropped \in SUBSET Cid,
             Promise!Admit(r, i, dropped)
      PROVE  Once'
  <2> DEFINE z == [of |-> r, id |-> i, fate |-> "flight"]
  <2>1. /\ \A x \in Admitted : x.of # r
        /\ After(i, dropped) # "known"
        /\ Mem' = [j \in Cid |-> IF j = i /\ After(j, dropped) = "new" THEN "known"
                                 ELSE After(j, dropped)]
        /\ Admitted' = Admitted \cup {z}
    BY <1>0, <1>1 DEF Promise!Admit, Mem
  <2>2. z \in EntryOrder /\ z.id = i /\ z.of = r
    BY DEF EntryOrder
  <2> HIDE DEF z
  <2>3. \A x \in Admitted : x.id \in Cid /\ x.of \in Request
    BY DEF Once, EntryOrder
  <2>4. \A j \in Cid : /\ Mem[j] # "new" => Mem'[j] # "new"
                       /\ Mem'[j] # "forgotten" => Mem[j] # "forgotten"
    BY <2>1
  <2>5. Mem'[i] = "forgotten" \/ Mem[i] = "new"
    BY <2>1 DEF Once
  <2>6. Mem'[i] # "new" /\ Mem' \in [Cid -> {"new", "known", "forgotten"}]
    BY <2>1 DEF Once
  <2> QED
    BY <2>1, <2>2, <2>3, <2>4, <2>5, <2>6 DEF Once
<1>2. ASSUME NEW dropped \in SUBSET Cid, NEW changed \in SUBSET Admitted,
             NEW fate \in {"open", "dead"},
             Mem' = [i \in Cid |-> After(i, dropped)],
             Admitted' = (Admitted \ changed) \cup {[x EXCEPT !.fate = fate] : x \in changed}
      PROVE  Once'
  <2>1. \A x \in Admitted : [x EXCEPT !.fate = fate] \in EntryOrder
                            /\ [x EXCEPT !.fate = fate].of = x.of
                            /\ [x EXCEPT !.fate = fate].id = x.id
    BY DEF Once, EntryOrder
  <2>2. \A y \in Admitted' : \E x \in Admitted :
           /\ y.of = x.of /\ y.id = x.id /\ y \in EntryOrder
           /\ y = IF x \in changed THEN [x EXCEPT !.fate = fate] ELSE x
    <3> SUFFICES ASSUME NEW y \in Admitted'
                 PROVE  \E x \in Admitted :
                          /\ y.of = x.of /\ y.id = x.id /\ y \in EntryOrder
                          /\ y = IF x \in changed THEN [x EXCEPT !.fate = fate] ELSE x
      OBVIOUS
    <3>1. CASE y \in Admitted \ changed
      BY <3>1 DEF Once
    <3>2. CASE y \in {[x EXCEPT !.fate = fate] : x \in changed}
      BY <2>1, <3>2
    <3> QED
      BY <1>2, <3>1, <3>2
  <2>3. \A j \in Cid : /\ Mem[j] # "new" => Mem'[j] # "new"
                       /\ Mem'[j] # "forgotten" => Mem[j] # "forgotten"
    BY <1>2
  <2>4. Mem' \in [Cid -> {"new", "known", "forgotten"}]
    BY <1>2 DEF Once
  <2>5. \A x \in Admitted : x.id \in Cid
    BY DEF Once, EntryOrder
  <2>6. Admitted' \subseteq EntryOrder /\ \A y \in Admitted' : Mem'[y.id] # "new"
    BY <2>2, <2>3, <2>5 DEF Once
  <2>7. \A y, w \in Admitted' : y.of = w.of => y = w
    BY <2>2 DEF Once
  <2>8. \A y, w \in Admitted' : y.id = w.id /\ Mem'[y.id] # "forgotten" => y = w
    BY <2>2, <2>3, <2>5 DEF Once
  <2> QED
    BY <2>4, <2>6, <2>7, <2>8 DEF Once
<1>3. \A x : {[y EXCEPT !.fate = "open"] : y \in {x}} = {[x EXCEPT !.fate = "open"]}
  OBVIOUS
<1>4. ASSUME NEW x \in Admitted, Promise!Execute(x) PROVE Once'
  <2>1. /\ Mem' = [i \in Cid |-> After(i, {})]
        /\ Admitted' = (Admitted \ {x}) \cup {[y EXCEPT !.fate = "open"] : y \in {x}}
    BY <1>3, <1>4 DEF Promise!Execute, Mem
  <2> HIDE DEF After
  <2> QED
    BY <1>2, <2>1
<1>5. ASSUME NEW dropped \in SUBSET Cid, NEW dying \in SUBSET Admitted,
             Promise!Lose(dropped, dying)
      PROVE  Once'
  <2>1. Mem' = [i \in Cid |-> After(i, dropped)]
    BY <1>0, <1>5 DEF Promise!Lose, Mem
  <2>2. Admitted' = (Admitted \ dying) \cup {[x EXCEPT !.fate = "dead"] : x \in dying}
    BY <1>5 DEF Promise!Lose
  <2> HIDE DEF After
  <2> QED
    BY <1>2, <2>1, <2>2
<1>6. CASE UNCHANGED Promise!vars
  BY <1>6 DEF Promise!vars, Mem, Once
<1> QED
  BY <1>1, <1>4, <1>5, <1>6 DEF Promise!Next

(* The entries that were let pass under one id are one, whatever became of   *)
(* them, until the registry forgets the id: OneOrderPerId, which says more   *)
(* than OneEntryPerId, for it holds of the orders that are not, or not yet,  *)
(* executed too (ClientOrderIdRegistry.claim).                               *)
THEOREM OneOrder == Spec => []Promise!OneOrderPerId
<1>1. Promise!Init => Once
  BY DEF Promise!Init, Once, Mem
<1>2. Promise!Spec => []Once
  BY <1>1, OnceStep, PTL DEF Promise!Spec
<1>3. Once => Promise!OneOrderPerId
  BY DEF Once, Promise!OneOrderPerId, Mem
<1> QED
  BY <1>2, <1>3, RouteImplementsEntry, PTL DEF ImplementsOrderEntry

(* An entry that was executed stays so, and one that was refused, or whose   *)
(* worker died with the process before it sent anything, never reaches the   *)
(* broker (order_send, call_mt5_bounded).                                    *)
THEOREM FinalFates == Spec => Promise!FateIsFinal
<1>1. [Promise!Next]_(Promise!vars)
        => [\A x \in Admitted : x.fate # "flight" => x \in Admitted']_(Promise!vars)
  <2> SUFFICES ASSUME Promise!Next, NEW x \in Admitted, x.fate # "flight"
               PROVE  x \in Admitted'
    OBVIOUS
  <2> QED
    BY DEF Promise!Next, Promise!Admit, Promise!Execute, Promise!Lose
<1> QED
  BY <1>1, RouteImplementsEntry, PTL DEF ImplementsOrderEntry, Promise!Spec, Promise!FateIsFinal

-----------------------------------------------------------------------------
(* What the guard compared stays with the request until its worker is done.  *)

Inside == {"claim", "symbol", "checking", "sending"}
Busy == {"waiting", "ipc", "detached"}

\* What the guard found acceptable when a request passed it is so still of the
\* rows the request has read: the entry fits, or the stop is no wider.
Judged(r) ==
    pc[r] \in Inside \/ worker[r] \in Busy =>
        /\ IsEntry(r) => EntryAllowed(r, rows[r])
        /\ body[r].kind = "sltp" => MayMoveStop(r, rows[r])

\* The book and what is read of it are finite.
Countable == IsFiniteSet(Live) /\ \A r \in Request : IsFiniteSet(DOMAIN rows[r])

JInv == IInv /\ Countable /\ \A r \in Request : Judged(r)

LEMMA ReadsAreFinite ==
    ASSUME Countable, NEW r \in Request
    PROVE  /\ IsFiniteSet(DOMAIN NoRows)
           /\ IsFiniteSet(DOMAIN StopsOf(Positions)) /\ IsFiniteSet(DOMAIN StopsOf(Working))
           /\ \A got : IsFiniteSet(DOMAIN got) => IsFiniteSet(DOMAIN Merged(got, rows[r]))
<1>1. IsFiniteSet(DOMAIN NoRows)
  BY FS_EmptySet DEF NoRows
<1>2. DOMAIN StopsOf(Positions) = Positions /\ DOMAIN StopsOf(Working) = Working
  BY DEF StopsOf
<1>3. Positions \in SUBSET Live /\ Working \in SUBSET Live
  BY DEF Live
<1>4. IsFiniteSet(Positions) /\ IsFiniteSet(Working)
  BY <1>3, FS_Subset DEF Countable
<1>5. ASSUME NEW got, IsFiniteSet(DOMAIN got)
      PROVE  IsFiniteSet(DOMAIN Merged(got, rows[r]))
  <2>1. DOMAIN Merged(got, rows[r]) = DOMAIN got \cup DOMAIN rows[r]
    BY DEF Merged
  <2>2. IsFiniteSet(DOMAIN rows[r])
    BY DEF Countable
  <2> QED
    BY <1>5, <2>1, <2>2, FS_Union
<1> QED
  BY <1>1, <1>2, <1>4, <1>5

(* Only a read changes the rows, and only they and the request's own steps   *)
(* decide whether it is judged.                                              *)
LEMMA OwnStepJudged ==
    ASSUME JInv, NEW r \in Request, HttpStep(r) \/ CheckReturns(r)
    PROVE  /\ \A q \in Request : Judged(q)'
           /\ \A q \in Request : IsFiniteSet(DOMAIN rows'[q])
<1> USE DEF registryVars, history, Inside, Busy, EntryAllowed, EntryFits, MayMoveStop, IsEntry
<1>0. TypeOK /\ SentOnce /\ Countable /\ Judged(r)
  BY DEF JInv, IInv
<1>1. /\ UNCHANGED body
      /\ \A q \in Request \ {r} : /\ pc'[q] = pc[q] /\ worker'[q] = worker[q]
                                  /\ rows'[q] = rows[q]
  BY <1>0 DEF HttpStep, CheckReturns, ReadPrice, ReadPositions, ReadOrders, Claim, EnsureSymbol,
              Refuse, Respond, TimeOut, Goto, Answer, TypeOK
<1>2. \A q \in Request \ {r} : Judged(q)' /\ IsFiniteSet(DOMAIN rows'[q])
  BY <1>1 DEF JInv, Judged, Countable
<1>3. CASE ReadPositions(r)
  <2>1. PICK got \in {StopsOf(Positions), NoRows} :
           /\ rows' = [rows EXCEPT ![r] = IF body[r].kind = "cancel" THEN @ ELSE got]
           /\ Goto(r, CASE IsEntry(r) /\ EntryFits(r, got) -> "orders"
                     [] body[r].kind = "close" /\ MayClose(r, got) -> "symbol"
                     [] body[r].kind = "sltp" /\ MayMoveStop(r, got) -> "symbol"
                     [] body[r].kind = "cancel" /\ MayCancel(r, got) -> "sending"
                     [] OTHER -> "answered")
    BY <1>3 DEF ReadPositions
  <2>2. pc[r] = "positions" /\ worker[r] = "none"
    BY <1>0, <1>3 DEF ReadPositions, SentOnce, Unsent
  <2>3. IsFiniteSet(DOMAIN rows'[r])
    BY <1>0, <2>1, ReadsAreFinite DEF Countable, TypeOK
  <2>4. CASE IsEntry(r)
    <3>1. pc'[r] \in {"orders", "answered"} /\ worker'[r] = "none"
      BY <1>0, <2>1, <2>2, <2>4 DEF Goto, TypeOK
    <3> QED
      BY <1>2, <2>3, <3>1 DEF Judged
  <2>5. CASE body[r].kind = "sltp"
    <3>1. \/ pc'[r] = "symbol" /\ MayMoveStop(r, got) /\ worker'[r] = "none"
          \/ pc'[r] = "answered" /\ worker'[r] = "none"
      BY <1>0, <2>1, <2>2, <2>5 DEF Goto, TypeOK
    <3>2. rows'[r] = got /\ body'[r] = body[r]
      BY <1>0, <1>1, <2>1, <2>5 DEF TypeOK
    <3> QED
      BY <1>2, <2>3, <2>5, <3>1, <3>2 DEF Judged
  <2>6. CASE ~ IsEntry(r) /\ body[r].kind # "sltp"
    BY <1>1, <1>2, <2>3, <2>6 DEF Judged
  <2> QED
    BY <2>4, <2>5, <2>6
<1>4. CASE ReadOrders(r)
  <2>1. PICK got \in {StopsOf(Working), NoRows} :
           /\ rows' = [rows EXCEPT ![r] = Merged(got, rows[r])]
           /\ Goto(r, CASE body[r].kind = "cancel" -> "positions"
                     [] IsEntry(r) /\ EntryAllowed(r, Merged(got, rows[r])) -> "claim"
                     [] OTHER -> "answered")
    BY <1>4 DEF ReadOrders
  <2>2. pc[r] = "orders" /\ worker[r] = "none"
    BY <1>0, <1>4 DEF ReadOrders, SentOnce, Unsent
  <2>3. rows'[r] = Merged(got, rows[r]) /\ IsFiniteSet(DOMAIN rows'[r])
    BY <1>0, <2>1, ReadsAreFinite DEF TypeOK
  <2>4. \/ pc'[r] = "claim" /\ IsEntry(r) /\ EntryAllowed(r, Merged(got, rows[r]))
        \/ pc'[r] \in {"positions", "answered"}
    BY <1>0, <2>1 DEF Goto, TypeOK
  <2>5. worker'[r] = "none"
    BY <1>0, <2>1, <2>2 DEF Goto, TypeOK
  <2>6. IsEntry(r) => body[r].kind # "sltp"
    OBVIOUS
  <2> QED
    BY <1>1, <1>2, <2>3, <2>4, <2>5, <2>6 DEF Judged
<1>5. CASE ~ ReadPositions(r) /\ ~ ReadOrders(r)
  <2>1. rows' = rows
    BY <1>5 DEF HttpStep, CheckReturns, ReadPrice, Claim, EnsureSymbol, Refuse, Respond, TimeOut
  <2>2. pc'[r] \in Inside \/ worker'[r] \in Busy => pc[r] \in Inside \/ worker[r] \in Busy
    <3>1. CASE ReadPrice(r) \/ Claim(r) \/ EnsureSymbol(r)
      BY <1>0, <3>1 DEF ReadPrice, Claim, EnsureSymbol, Goto, TypeOK
    <3>2. CASE CheckReturns(r) \/ Refuse(r) \/ Respond(r) \/ TimeOut(r)
      BY <1>0, <3>2 DEF CheckReturns, Refuse, Respond, TimeOut, Goto, Answer, TypeOK
    <3> QED
      BY <1>5, <3>1, <3>2 DEF HttpStep
  <2>3. Judged(r)'
    BY <1>0, <1>1, <2>1, <2>2 DEF Judged
  <2> QED
    BY <1>0, <1>2, <2>1, <2>3 DEF Countable
<1> QED
  BY <1>3, <1>4, <1>5

(* The book grows by the ticket of one step at most.                         *)
LEMMA LiveGrows ==
    ASSUME TypeOK, [Next]_vars
    PROVE  \E t : Live' \subseteq Live \cup {t}
<1>1. CASE book' = book
  BY <1>1 DEF Live, Positions, Working
<1>2. ASSUME NEW t \in Ticket, NEW new, BookMoves(t, new)
      PROVE  Live' \subseteq Live \cup {t}
  BY <1>2 DEF BookMoves, Live, Positions, Working, TypeOK
<1>3. ASSUME NEW r \in Request, Execute(r)
      PROVE  \E t : Live' \subseteq Live \cup {t}
  <2>1. CASE Rejected(book', openedBy')
    BY <1>1, <2>1 DEF Rejected
  <2>2. CASE Opened(r, book', openedBy')
    <3>1. PICK t \in Ticket : \A u \in Ticket \ {t} : book'[u] = book[u]
      BY <2>2 DEF Opened, TypeOK
    <3> QED
      BY <3>1 DEF Live, Positions, Working
  <2>3. CASE Changed(r, book', openedBy')
    <3>1. \/ book' = [book EXCEPT ![body[r].ticket].st = "closed"]
          \/ book' = [book EXCEPT ![body[r].ticket].stop = body[r].stop]
      BY <2>3 DEF Changed
    <3>2. \A u \in Ticket \ {body[r].ticket} : book'[u] = book[u]
      BY <3>1 DEF TypeOK
    <3> QED
      BY <3>2 DEF Live, Positions, Working
  <2> QED
    BY <1>3, <2>1, <2>2, <2>3, Zenon DEF Execute
<1>4. CASE \E r \in Request : \/ \E b \in Body : Arrive(r, b)
                              \/ HttpStep(r) \/ CheckReturns(r) \/ TakeLock(r)
  BY <1>1, <1>4 DEF Arrive, HttpStep, CheckReturns, TakeLock, ReadPrice, ReadPositions, ReadOrders,
                    Claim, EnsureSymbol, Refuse, Respond, TimeOut
<1>5. CASE Environment
  <2>1. CASE Tick \/ Restart
    BY <1>1, <2>1 DEF Tick, Restart
  <2>2. CASE \E t \in Ticket : Fill(t) \/ StopOut(t) \/ OwnerOpens(t)
    BY <1>2, <2>2 DEF Fill, StopOut, OwnerOpens
  <2> QED
    BY <1>5, <2>1, <2>2 DEF Environment
<1>6. CASE UNCHANGED vars
  BY <1>1, <1>6 DEF vars
<1> QED
  BY <1>3, <1>4, <1>5, <1>6 DEF Next

LEMMA JudgedInvariant == Spec => []JInv
<1>1. Init => Countable /\ \A r \in Request : Judged(r)
  <2> SUFFICES ASSUME Init PROVE Countable /\ \A r \in Request : Judged(r)
    OBVIOUS
  <2>1. Live = {} /\ \A r \in Request : DOMAIN rows[r] = {}
    BY DEF Init, Live, Positions, Working, NoRows
  <2>2. Countable
    BY <2>1, FS_EmptySet DEF Countable
  <2> QED
    BY <2>2 DEF Init, Judged, Inside, Busy
<1>2. JInv /\ IInv' /\ [Next]_vars => JInv'
  <2> SUFFICES ASSUME JInv, IInv', [Next]_vars PROVE JInv'
    OBVIOUS
  <2>0. TypeOK /\ SentOnce /\ Countable
    BY DEF JInv, IInv
  <2>1. IsFiniteSet(Live')
    <3>1. PICK t : Live' \subseteq Live \cup {t}
      BY <2>0, LiveGrows
    <3>2. IsFiniteSet(Live \cup {t})
      BY <2>0, FS_AddElement DEF Countable
    <3> QED
      BY <3>1, <3>2, FS_Subset
  <2>2. ASSUME NEW r \in Request, HttpStep(r) \/ CheckReturns(r) PROVE JInv'
    BY <2>1, <2>2, OwnStepJudged DEF JInv, Countable
  <2>3. ASSUME UNCHANGED rows, \A q \in Request : Judged(q)'
        PROVE  JInv'
    BY <2>0, <2>1, <2>3 DEF JInv, Countable
  <2>4. ASSUME NEW r \in Request, NEW b \in Body, Arrive(r, b) PROVE JInv'
    <3>1. pc[r] = "idle" /\ worker[r] = "none" /\ b \in BodyType
      BY <2>0, <2>4, BodyAssumption DEF Arrive, SentOnce, Unsent
    <3>2. /\ body' = [body EXCEPT ![r] = b] /\ rows' = rows
          /\ pc'[r] \in Inside => b.kind = "modify_pending"
          /\ worker'[r] = "none"
          /\ \A q \in Request \ {r} : pc'[q] = pc[q] /\ worker'[q] = worker[q]
      BY <2>0, <2>4, <3>1 DEF Arrive, Goto, TypeOK, Inside
    <3>3. Judged(r)'
      BY <2>0, <3>2 DEF Judged, IsEntry, Busy, TypeOK
    <3>4. \A q \in Request \ {r} : Judged(q)'
      BY <2>0, <3>2 DEF JInv, Judged, IsEntry, EntryAllowed, EntryFits, MayMoveStop, TypeOK
    <3> QED
      BY <2>3, <3>2, <3>3, <3>4
  <2>5. ASSUME UNCHANGED <<body, rows>>,
               \A q \in Request : pc'[q] \in Inside \/ worker'[q] \in Busy
                                     => pc[q] \in Inside \/ worker[q] \in Busy
        PROVE  JInv'
    <3>1. \A q \in Request : Judged(q)'
      BY <2>5 DEF JInv, Judged, IsEntry, EntryAllowed, EntryFits, MayMoveStop
    <3> QED
      BY <2>3, <2>5, <3>1
  <2>6. ASSUME NEW r \in Request, TakeLock(r) \/ Execute(r) PROVE JInv'
    <3>1. UNCHANGED <<pc, body, rows>>
      BY <2>6 DEF TakeLock, Execute
    <3>2. /\ \A q \in Request \ {r} : worker'[q] = worker[q]
          /\ worker[r] \in Busy
      BY <2>0, <2>6 DEF TakeLock, Execute, TypeOK, Busy
    <3> QED
      BY <2>5, <3>1, <3>2
  <2>7. CASE Environment
    <3>1. CASE Restart
      <4>1. /\ UNCHANGED <<body, rows>>
            /\ \A q \in Request : pc'[q] \in {"idle", "answered"}
            /\ \A q \in Request : worker'[q] \in Busy => worker[q] \in Busy
        BY <2>0, <3>1 DEF Restart, Busy, TypeOK
      <4> QED
        BY <2>5, <4>1 DEF Inside
    <3>2. CASE Tick \/ \E t \in Ticket : Fill(t) \/ StopOut(t) \/ OwnerOpens(t)
      <4>1. UNCHANGED <<pc, worker, body, rows>>
        BY <3>2 DEF Tick, Fill, StopOut, OwnerOpens, BookMoves, threadVars
      <4> QED
        BY <2>5, <4>1
    <3> QED
      BY <2>7, <3>1, <3>2 DEF Environment
  <2>8. CASE UNCHANGED vars
    <3>1. UNCHANGED <<pc, worker, body, rows>>
      BY <2>8 DEF vars, threadVars
    <3> QED
      BY <2>5, <3>1
  <2> QED
    BY <2>2, <2>4, <2>6, <2>7, <2>8 DEF Next
<1> QED
  BY <1>1, <1>2, InductiveInvariant, PTL DEF Spec, JInv

-----------------------------------------------------------------------------
(* The cap: an entry that was not overtaken is sent into a book that is part *)
(* of the rows it has counted.                                               *)

Counted == GatewayOpened \ overtaken

LEMMA CountedIsFinite ==
    ASSUME JInv
    PROVE  IsFiniteSet(Counted) /\ Cardinality(Counted) \in Nat
<1>1. Counted \in SUBSET Live
  BY DEF Counted, GatewayOpened
<1>2. IsFiniteSet(Counted)
  BY <1>1, FS_Subset DEF JInv, Countable
<1> QED
  BY <1>2, FS_CardinalityType

\* What no order joins stays within the cap.
LEMMA FewerStayWithin ==
    ASSUME JInv, CapHeldUnlessOvertaken, Counted' \subseteq Counted
    PROVE  CapHeldUnlessOvertaken'
<1>1. IsFiniteSet(Counted) /\ Cardinality(Counted) \in Nat
  BY CountedIsFinite
<1>2. Counted' \in SUBSET Counted
  OBVIOUS
<1>3. IsFiniteSet(Counted') /\ Cardinality(Counted') <= Cardinality(Counted)
  BY <1>1, <1>2, FS_Subset
<1>4. Cardinality(Counted') \in Nat
  BY <1>3, FS_CardinalityType
<1>5. Cardinality(Counted) <= MaxPositions /\ MaxPositions \in Nat
  BY BoundsAssumption DEF CapHeldUnlessOvertaken, Counted
<1>6. Cardinality(Counted') <= MaxPositions
  BY <1>1, <1>3, <1>4, <1>5
<1> QED
  BY <1>6 DEF CapHeldUnlessOvertaken, Counted

LEMMA OpenedStaysWithin ==
    ASSUME JInv, CapHeldUnlessOvertaken, NEW r \in Request, Execute(r),
           Opened(r, book', openedBy')
    PROVE  CapHeldUnlessOvertaken'
<1>0. TypeOK /\ OneOpener /\ Judged(r)
  BY DEF JInv, IInv
<1>1. PICK t \in Ticket :
         /\ IsEntry(r) /\ book[t].st = "free"
         /\ book' = [book EXCEPT ![t] =
                       [st |-> IF body[r].kind = "entry" THEN "open" ELSE "working",
                        stop |-> body[r].stop]]
         /\ openedBy' = [openedBy EXCEPT ![t] = r]
  BY DEF Opened
<1>2. openedBy[t] # r /\ openedBy'[t] = r
  BY <1>0, <1>1 DEF OneOpener, TypeOK
<1>3. GatewayOpened' \subseteq GatewayOpened \cup {t}
  BY <1>0, <1>1 DEF GatewayOpened, Live, Positions, Working, TypeOK
<1>4. CASE Live \subseteq DOMAIN rows[r]
  <2>1. overtaken' = overtaken
    BY <1>4 DEF Execute
  <2>2. EntryFits(r, rows[r])
    <3>1. worker[r] \in Busy
      BY DEF Execute, Busy
    <3> QED
      BY <1>0, <1>1, <3>1 DEF Judged, EntryAllowed
  <2>3. Counted' \subseteq DOMAIN rows[r] \cup {t}
    BY <1>3, <1>4, <2>1 DEF Counted, GatewayOpened
  <2>4. IsFiniteSet(DOMAIN rows[r]) /\ Cardinality(DOMAIN rows[r]) \in Nat
    <3>1. IsFiniteSet(DOMAIN rows[r])
      BY DEF JInv, Countable
    <3> QED
      BY <3>1, FS_CardinalityType
  <2>5. /\ IsFiniteSet(DOMAIN rows[r] \cup {t})
        /\ Cardinality(DOMAIN rows[r] \cup {t}) \in
                {Cardinality(DOMAIN rows[r]), Cardinality(DOMAIN rows[r]) + 1}
    BY <2>4, FS_AddElement
  <2>6. Counted' \in SUBSET (DOMAIN rows[r] \cup {t})
    BY <2>3
  <2>7. IsFiniteSet(Counted') /\ Cardinality(Counted') <= Cardinality(DOMAIN rows[r] \cup {t})
    BY <2>5, <2>6, FS_Subset
  <2>8. Cardinality(Counted') \in Nat
    BY <2>7, FS_CardinalityType
  <2>9. Cardinality(DOMAIN rows[r]) < MaxPositions /\ MaxPositions \in Nat
    BY <2>2, BoundsAssumption DEF EntryFits
  <2>10. Cardinality(Counted') <= MaxPositions
    BY <2>4, <2>5, <2>7, <2>8, <2>9
  <2> QED
    BY <2>10 DEF CapHeldUnlessOvertaken, Counted
<1>5. CASE ~ (Live \subseteq DOMAIN rows[r])
  <2>1. t \in overtaken' /\ overtaken \subseteq overtaken'
    BY <1>2, <1>5 DEF Execute
  <2>2. Counted' \subseteq Counted
    BY <1>3, <2>1 DEF Counted
  <2> QED
    BY <2>2, FewerStayWithin
<1> QED
  BY <1>4, <1>5

(* Entries judged on a complete view of the book keep it within the maximum, *)
(* whatever the broker, the owner and other requests do (_check_entry).      *)
THEOREM CapHeld == Spec => []CapHeldUnlessOvertaken
<1>1. Init => CapHeldUnlessOvertaken
  <2> SUFFICES ASSUME Init PROVE CapHeldUnlessOvertaken
    OBVIOUS
  <2>1. GatewayOpened \ overtaken = {}
    BY DEF Init, GatewayOpened, Live, Positions, Working
  <2> QED
    BY <2>1, FS_EmptySet, BoundsAssumption DEF CapHeldUnlessOvertaken
<1>2. JInv /\ CapHeldUnlessOvertaken /\ [Next]_vars => CapHeldUnlessOvertaken'
  <2> SUFFICES ASSUME JInv, CapHeldUnlessOvertaken, [Next]_vars
               PROVE  CapHeldUnlessOvertaken'
    OBVIOUS
  <2>0. TypeOK /\ OneOpener
    BY DEF JInv, IInv
  <2>1. ASSUME openedBy' = openedBy, overtaken \subseteq overtaken',
               \A t \in Ticket : t \in Live' /\ t \notin Live => openedBy[t] \notin Request
        PROVE  CapHeldUnlessOvertaken'
    <3>1. Live' \subseteq Ticket
      BY DEF Live, Positions, Working
    <3>2. Counted' \subseteq Counted
      BY <2>1, <3>1 DEF Counted, GatewayOpened
    <3> QED
      BY <3>2, FewerStayWithin
  <2>2. ASSUME UNCHANGED <<book, openedBy, overtaken>>
        PROVE  CapHeldUnlessOvertaken'
    BY <2>1, <2>2 DEF Live, Positions, Working
  <2>3. ASSUME NEW r \in Request, Execute(r) PROVE CapHeldUnlessOvertaken'
    <3>1. overtaken \subseteq overtaken'
      BY <2>3 DEF Execute
    <3>2. CASE Opened(r, book', openedBy')
      BY <2>3, <3>2, OpenedStaysWithin
    <3>3. CASE Rejected(book', openedBy')
      BY <2>1, <3>1, <3>3 DEF Rejected, Live, Positions, Working
    <3>4. CASE Changed(r, book', openedBy')
      <4>1. \/ book' = [book EXCEPT ![body[r].ticket].st = "closed"]
            \/ book' = [book EXCEPT ![body[r].ticket].stop = body[r].stop]
        BY <3>4 DEF Changed
      <4>3. \A u \in Ticket : book'[u].st \in {book[u].st, "closed"}
        <5>1. ASSUME book' = [book EXCEPT ![body[r].ticket].st = "closed"], NEW u \in Ticket
              PROVE  book'[u].st \in {book[u].st, "closed"}
          BY <2>0, <5>1 DEF TypeOK
        <5>2. ASSUME book' = [book EXCEPT ![body[r].ticket].stop = body[r].stop],
                     NEW u \in Ticket
              PROVE  book'[u].st = book[u].st
          BY <2>0, <5>2 DEF TypeOK
        <5> QED
          BY <4>1, <5>1, <5>2
      <4>2. Live' \subseteq Live
        BY <4>3 DEF Live, Positions, Working
      <4> QED
        BY <2>1, <3>1, <3>4, <4>2 DEF Changed
    <3> QED
      BY <2>3, <3>2, <3>3, <3>4, Zenon DEF Execute
  <2>4. CASE \E r \in Request : \/ \E b \in Body : Arrive(r, b)
                                \/ HttpStep(r) \/ CheckReturns(r) \/ TakeLock(r)
    BY <2>2, <2>4 DEF Arrive, HttpStep, CheckReturns, TakeLock, ReadPrice, ReadPositions,
                      ReadOrders, Claim, EnsureSymbol, Refuse, Respond, TimeOut, history
  <2>5. CASE Environment
    <3>1. CASE Tick \/ Restart
      BY <2>2, <3>1 DEF Tick, Restart, history
    <3>2. ASSUME NEW t \in Ticket, Fill(t) \/ StopOut(t) \/ OwnerOpens(t)
          PROVE  CapHeldUnlessOvertaken'
      <4>1. UNCHANGED <<openedBy, overtaken>>
        BY <3>2 DEF Fill, StopOut, OwnerOpens, BookMoves, history
      <4>2. \A u \in Ticket \ {t} : book'[u] = book[u]
        BY <2>0, <3>2 DEF Fill, StopOut, OwnerOpens, BookMoves, TypeOK
      <4>3. t \notin Live => openedBy[t] \notin Request \/ t \notin Live'
        BY <2>0, <3>2 DEF Fill, StopOut, OwnerOpens, BookMoves, Live, Positions, Working, OneOpener,
                          TypeOK
      <4> QED
        BY <2>1, <4>1, <4>2, <4>3 DEF Live, Positions, Working
    <3> QED
      BY <2>5, <3>1, <3>2 DEF Environment
  <2>6. CASE UNCHANGED vars
    BY <2>2, <2>6 DEF vars, history
  <2> QED
    BY <2>3, <2>4, <2>5, <2>6 DEF Next
<1> QED
  BY <1>1, <1>2, JudgedInvariant, PTL DEF Spec

-----------------------------------------------------------------------------
(* The aggregate risk: rows that were read stay an upper bound of the stops  *)
(* they were read of, except of the stops that are widened later.            *)

RowsKeepUp ==
    \A r \in Request : \A t \in DOMAIN rows[r] :
        /\ t \in Ticket /\ book[t].st # "free"
        /\ t \in Live \ widened => book[t].stop <= rows[r][t]

(* What a step may do to a ticket that is not free any more.                 *)
LEMMA TicketsOnlyTighten ==
    ASSUME TypeOK, [Next]_vars, NEW t \in Ticket, book[t].st # "free"
    PROVE  /\ book'[t].st # "free" /\ widened \subseteq widened'
           /\ t \in Live' \ widened' => t \in Live /\ book'[t].stop <= book[t].stop
<1>0. /\ book \in [Ticket -> [st : TicketState, stop : 0 .. MaxStop]]
      /\ book[t] \in [st : TicketState, stop : 0 .. MaxStop]
      /\ book[t].stop \in Nat
  BY BoundsAssumption DEF TypeOK
<1>1. CASE book'[t] = book[t] /\ widened \subseteq widened'
  BY <1>0, <1>1 DEF Live, Positions, Working
<1>2. ASSUME NEW u \in Ticket, NEW new, BookMoves(u, new),
             u = t => new.st \in {"open", "closed"} /\ new.stop = book[t].stop /\ t \in Live
      PROVE  /\ book'[t].st # "free" /\ widened \subseteq widened'
             /\ t \in Live' \ widened' => t \in Live /\ book'[t].stop <= book[t].stop
  <2>1. book' = [book EXCEPT ![u] = new] /\ widened' = widened
    BY <1>2 DEF BookMoves, history
  <2>2. CASE u # t
    BY <1>0, <1>1, <2>1, <2>2
  <2>3. CASE u = t
    <3>1. book'[t] = new
      BY <1>0, <2>1, <2>3
    <3> QED
      BY <1>0, <1>2, <2>1, <2>3, <3>1
  <2> QED
    BY <2>2, <2>3
<1>3. ASSUME NEW r \in Request, Execute(r)
      PROVE  /\ book'[t].st # "free" /\ widened \subseteq widened'
             /\ t \in Live' \ widened' => t \in Live /\ book'[t].stop <= book[t].stop
  <2>1. widened' = widened \cup {u \in Live : book'[u].stop > book[u].stop}
    BY <1>3 DEF Execute
  <2>2. CASE Rejected(book', openedBy')
    BY <1>1, <2>1, <2>2 DEF Rejected
  <2>3. CASE Opened(r, book', openedBy')
    <3>1. book'[t] = book[t]
      BY <1>0, <2>3 DEF Opened
    <3> QED
      BY <1>1, <2>1, <3>1
  <2>4. CASE Changed(r, book', openedBy')
    <3> DEFINE u == body[r].ticket
    <3>1. \/ book' = [book EXCEPT ![u].st = "closed"]
          \/ u \in Live /\ book' = [book EXCEPT ![u].stop = body[r].stop]
      BY <2>4 DEF Changed, Live
    <3>2. body[r].stop \in Nat
      BY BoundsAssumption DEF TypeOK, BodyType, Stop
    <3> HIDE DEF u
    <3>3. CASE u # t
      <4>1. book'[t] = book[t]
        BY <1>0, <3>1, <3>3
      <4> QED
        BY <1>1, <2>1, <4>1
    <3>4. CASE u = t /\ book' = [book EXCEPT ![u].st = "closed"]
      <4>1. book'[t].st = "closed"
        BY <1>0, <3>4
      <4> QED
        BY <2>1, <4>1 DEF Live, Positions, Working
    <3>5. CASE u = t /\ u \in Live /\ book' = [book EXCEPT ![u].stop = body[r].stop]
      <4>1. book'[t].st = book[t].st /\ book'[t].stop = body[r].stop
        BY <1>0, <3>5
      <4>2. t \in Live /\ (t \notin widened' => ~ (book'[t].stop > book[t].stop))
        BY <2>1, <3>5
      <4>3. t \notin widened' => book'[t].stop <= book[t].stop
        BY <1>0, <3>2, <4>1, <4>2
      <4> QED
        BY <2>1, <4>1, <4>2, <4>3
    <3> QED
      BY <3>1, <3>3, <3>4, <3>5
  <2> QED
    BY <1>3, <2>2, <2>3, <2>4, Zenon DEF Execute
<1>4. CASE \E r \in Request : \/ \E b \in Body : Arrive(r, b)
                              \/ HttpStep(r) \/ CheckReturns(r) \/ TakeLock(r)
  <2>1. UNCHANGED <<book, widened>>
    BY <1>4 DEF Arrive, HttpStep, CheckReturns, TakeLock, ReadPrice, ReadPositions, ReadOrders,
                Claim, EnsureSymbol, Refuse, Respond, TimeOut, history
  <2> QED
    BY <1>1, <2>1
<1>5. CASE Environment
  <2>1. CASE Tick \/ Restart
    <3>1. UNCHANGED <<book, widened>>
      BY <2>1 DEF Tick, Restart, history
    <3> QED
      BY <1>1, <3>1
  <2>2. ASSUME NEW u \in Ticket, Fill(u) \/ StopOut(u)
        PROVE  /\ book'[t].st # "free" /\ widened \subseteq widened'
               /\ t \in Live' \ widened' => t \in Live /\ book'[t].stop <= book[t].stop
    <3>1. PICK s \in {"open", "closed"} :
             BookMoves(u, [book[u] EXCEPT !.st = s]) /\ book[u].st \in {"working", "open"}
      BY <2>2 DEF Fill, StopOut
    <3> DEFINE new == [book[u] EXCEPT !.st = s]
    <3>2. u = t => new.st \in {"open", "closed"} /\ new.stop = book[t].stop /\ t \in Live
      BY <1>0, <3>1 DEF Live, Positions, Working
    <3> HIDE DEF new
    <3> QED
      BY <1>2, <3>1, <3>2 DEF new
  <2>3. ASSUME NEW u \in Ticket, OwnerOpens(u)
        PROVE  /\ book'[t].st # "free" /\ widened \subseteq widened'
               /\ t \in Live' \ widened' => t \in Live /\ book'[t].stop <= book[t].stop
    <3>1. PICK new : BookMoves(u, new) /\ u # t
      BY <2>3 DEF OwnerOpens
    <3> QED
      BY <1>2, <3>1
  <2> QED
    BY <1>5, <2>1, <2>2, <2>3 DEF Environment
<1>6. CASE UNCHANGED vars
  <2>1. UNCHANGED <<book, widened>>
    BY <1>6 DEF vars, history
  <2> QED
    BY <1>1, <2>1
<1> QED
  BY <1>3, <1>4, <1>5, <1>6 DEF Next

LEMMA RowsKeepUpInvariant == Spec => []RowsKeepUp
<1>1. Init => RowsKeepUp
  BY DEF Init, RowsKeepUp, NoRows
<1>2. TypeOK /\ RowsKeepUp /\ [Next]_vars => RowsKeepUp'
  <2> SUFFICES ASSUME TypeOK, RowsKeepUp, [Next]_vars, NEW r \in Request,
                      NEW t \in DOMAIN rows'[r]
               PROVE  /\ t \in Ticket /\ book'[t].st # "free"
                      /\ t \in Live' \ widened' => book'[t].stop <= rows'[r][t]
    BY DEF RowsKeepUp
  <2>1. CASE rows'[r] = rows[r]
    <3>1. t \in DOMAIN rows[r] /\ t \in Ticket /\ book[t].st # "free"
      BY <2>1 DEF RowsKeepUp
    <3>2. /\ book'[t].st # "free" /\ widened \subseteq widened'
          /\ t \in Live' \ widened' => t \in Live /\ book'[t].stop <= book[t].stop
      BY <3>1, TicketsOnlyTighten
    <3>3. t \in Live \ widened => book[t].stop <= rows[r][t]
      BY <3>1 DEF RowsKeepUp
    <3>4. book[t].stop \in Int /\ book'[t].stop \in Int /\ rows[r][t] \in Int
      <4>1. TypeOK'
        BY StepTypes
      <4> QED
        BY <3>1, <4>1, BoundsAssumption DEF TypeOK
    <3> QED
      BY <2>1, <3>1, <3>2, <3>3, <3>4
  <2>2. ASSUME NEW S \in SUBSET Live, NEW got \in {StopsOf(S), NoRows},
               UNCHANGED <<book, widened>>,
               rows'[r] = got \/ rows'[r] = Merged(got, rows[r])
        PROVE  /\ t \in Ticket /\ book'[t].st # "free"
               /\ t \in Live' \ widened' => book'[t].stop <= rows'[r][t]
    <3>1. Live' = Live
      BY <2>2 DEF Live, Positions, Working
    <3>2. CASE t \in DOMAIN got
      <4>1. t \in S /\ rows'[r][t] = book[t].stop
        BY <2>2, <3>2 DEF StopsOf, NoRows, Merged
      <4>2. t \in Ticket /\ book[t].st # "free" /\ book[t].stop \in Nat
        BY <4>1, BoundsAssumption DEF Live, Positions, Working, TypeOK
      <4> QED
        BY <2>2, <4>1, <4>2
    <3>3. CASE t \notin DOMAIN got
      <4>1. t \in DOMAIN rows[r] /\ rows'[r][t] = rows[r][t]
        BY <2>2, <3>3 DEF Merged
      <4> QED
        BY <2>2, <3>1, <4>1 DEF RowsKeepUp
    <3> QED
      BY <3>2, <3>3
  <2>3. ASSUME NEW q \in Request, ReadPositions(q) \/ ReadOrders(q)
        PROVE  /\ t \in Ticket /\ book'[t].st # "free"
               /\ t \in Live' \ widened' => book'[t].stop <= rows'[r][t]
    <3>0. UNCHANGED <<book, widened>> /\ Positions \in SUBSET Live /\ Working \in SUBSET Live
      BY <2>3 DEF ReadPositions, ReadOrders, Live
    <3>1. CASE q # r
      <4>1. rows'[r] = rows[r]
        BY <2>3, <3>1 DEF ReadPositions, ReadOrders, TypeOK
      <4> QED
        BY <2>1, <4>1
    <3>2. CASE q = r /\ ReadPositions(r)
      <4>1. PICK got \in {StopsOf(Positions), NoRows} :
               rows' = [rows EXCEPT ![r] = IF body[r].kind = "cancel" THEN @ ELSE got]
        BY <3>2 DEF ReadPositions
      <4>2. rows'[r] = rows[r] \/ rows'[r] = got
        BY <4>1 DEF TypeOK
      <4> QED
        BY <2>1, <2>2, <3>0, <4>1, <4>2
    <3>3. CASE q = r /\ ReadOrders(r)
      <4>1. PICK got \in {StopsOf(Working), NoRows} :
               rows' = [rows EXCEPT ![r] = Merged(got, rows[r])]
        BY <3>3 DEF ReadOrders
      <4>2. rows'[r] = Merged(got, rows[r])
        BY <4>1 DEF TypeOK
      <4> QED
        BY <2>2, <3>0, <4>1, <4>2
    <3> QED
      BY <2>3, <3>1, <3>2, <3>3
  <2>4. CASE rows' = rows
    BY <2>1, <2>4
  <2>5. CASE \E q \in Request :
                \/ \E b \in Body : Arrive(q, b)
                \/ HttpStep(q) /\ ~ ReadPositions(q) /\ ~ ReadOrders(q)
                \/ CheckReturns(q) \/ TakeLock(q) \/ Execute(q)
    BY <2>4, <2>5 DEF Arrive, HttpStep, CheckReturns, TakeLock, Execute, ReadPrice, Claim,
                      EnsureSymbol, Refuse, Respond, TimeOut
  <2>6. CASE Environment \/ UNCHANGED vars
    BY <2>4, <2>6 DEF Environment, Fill, StopOut, OwnerOpens, BookMoves, Tick, Restart,
                      threadVars, vars
  <2> QED
    BY <2>3, <2>5, <2>6 DEF Next
<1> QED
  BY <1>1, <1>2, TypeCorrect, PTL DEF Spec

\* The entries that were not overtaken, with a stop nobody moved away.
Within == GatewayOpened \ (overtaken \cup widened)

LEMMA WithinIsFinite ==
    ASSUME JInv
    PROVE  Within \subseteq Live \cap Ticket /\ IsFiniteSet(Within)
<1>1. Within \in SUBSET Live /\ Within \in SUBSET Ticket
  BY DEF Within, GatewayOpened, Live, Positions, Working
<1>2. IsFiniteSet(Within)
  BY <1>1, FS_Subset DEF JInv, Countable
<1> QED
  BY <1>1, <1>2

\* The planned risk of the tickets of S, for any book.
LEMMA RiskIsSum ==
    ASSUME NEW S, IsFiniteSet(S), NEW f, DOMAIN f = S, \A t \in S : f[t] \in Nat
    PROVE  PlannedRisk(f) = Sum(f, S) /\ Sum(f, S) \in Nat
<1>1. Sum(f, S) \in Nat
  BY SumSplits
<1> QED
  BY <1>1 DEF PlannedRisk, Sum

LEMMA RiskOfWithin ==
    ASSUME JInv
    PROVE  /\ \A t \in Within : StopsOf(Within)[t] = book[t].stop /\ book[t].stop \in Nat
           /\ PlannedRisk(StopsOf(Within)) = Sum(StopsOf(Within), Within)
           /\ Sum(StopsOf(Within), Within) \in Nat
<1>1. \A t \in Within : StopsOf(Within)[t] = book[t].stop /\ book[t].stop \in Nat
  BY WithinIsFinite, BoundsAssumption DEF StopsOf, JInv, IInv, TypeOK
<1>2. DOMAIN StopsOf(Within) = Within
  BY DEF StopsOf
<1> QED
  BY <1>1, <1>2, WithinIsFinite, RiskIsSum

\* What no order joins and no stop of which grows stays within the cap.
LEMMA LessStaysWithin ==
    ASSUME JInv, TypeOK', BookRiskUnlessOvertaken, Within' \subseteq Within,
           \A t \in Within' : book'[t].stop <= book[t].stop
    PROVE  BookRiskUnlessOvertaken'
<1> DEFINE f == StopsOf(Within)
           h == [t \in Within' |-> book'[t].stop]
<1>1. /\ IsFiniteSet(Within) /\ Within' \in SUBSET Within /\ Within \subseteq Ticket
      /\ \A t \in Within : f[t] = book[t].stop /\ f[t] \in Nat
      /\ PlannedRisk(f) = Sum(f, Within) /\ Sum(f, Within) \in Nat
  BY WithinIsFinite, RiskOfWithin
<1>2. /\ IsFiniteSet(Within') /\ DOMAIN h = Within'
      /\ \A t \in Within' : h[t] = book'[t].stop /\ h[t] \in Nat
  BY <1>1, FS_Subset, BoundsAssumption DEF TypeOK
<1>3. \A t \in Within' : h[t] \in Nat /\ h[t] <= f[t]
  BY <1>1, <1>2
<1>4. PlannedRisk(StopsOf(GatewayOpened \ (overtaken \cup widened)))' = PlannedRisk(h)
  BY DEF StopsOf, Within
<1>5. Sum(f, Within) <= BookCap /\ BookCap \in Nat
  BY <1>1, BoundsAssumption DEF BookRiskUnlessOvertaken, Within
<1> HIDE DEF f, h
<1>6. PlannedRisk(h) = Sum(h, Within') /\ Sum(h, Within') \in Nat
  BY <1>2, RiskIsSum
<1>7. Sum(h, Within') <= Sum(f, Within)
  BY <1>1, <1>3, SumMonotone
<1>8. PlannedRisk(h) <= BookCap
  BY <1>1, <1>5, <1>6, <1>7
<1> QED
  BY <1>4, <1>8 DEF BookRiskUnlessOvertaken

\* An entry that was not overtaken adds its own stop to what it has counted.
LEMMA OpenedStaysWithinRisk ==
    ASSUME JInv, TypeOK', RowsKeepUp, BookRiskUnlessOvertaken, [Next]_vars,
           NEW r \in Request, Execute(r), Opened(r, book', openedBy')
    PROVE  BookRiskUnlessOvertaken'
<1>0. TypeOK /\ OneOpener /\ Judged(r) /\ IsFiniteSet(DOMAIN rows[r])
  BY DEF JInv, IInv, Countable
<1>1. PICK t \in Ticket :
         /\ IsEntry(r) /\ book[t].st = "free"
         /\ book' = [book EXCEPT ![t] =
                       [st |-> IF body[r].kind = "entry" THEN "open" ELSE "working",
                        stop |-> body[r].stop]]
         /\ openedBy' = [openedBy EXCEPT ![t] = r]
  BY DEF Opened
<1>2. /\ openedBy[t] # r /\ openedBy'[t] = r /\ book'[t].stop = body[r].stop
      /\ \A u \in Ticket \ {t} : book'[u] = book[u] /\ openedBy'[u] = openedBy[u]
  BY <1>0, <1>1 DEF OneOpener, TypeOK
<1>3. Within' \subseteq Ticket /\ widened \subseteq widened' /\ overtaken \subseteq overtaken'
  BY DEF Within, GatewayOpened, Live, Positions, Working, Execute
<1>4. Within' \ {t} \subseteq Within
  BY <1>2, <1>3 DEF Within, GatewayOpened, Live, Positions, Working
<1>5. CASE ~ (Live \subseteq DOMAIN rows[r])
  <2>1. t \in overtaken'
    BY <1>2, <1>5 DEF Execute
  <2>2. Within' \subseteq Within
    BY <1>4, <2>1 DEF Within
  <2>3. t \notin Within'
    BY <2>1 DEF Within
  <2>4. ASSUME NEW u \in Within' PROVE book'[u].stop <= book[u].stop
    <3>1. u \in Ticket \ {t} /\ book'[u] = book[u]
      BY <1>2, <1>3, <2>3
    <3>2. book[u].stop \in Nat
      BY <1>0, <3>1, BoundsAssumption DEF TypeOK
    <3> QED
      BY <3>1, <3>2
  <2> QED
    BY <2>2, <2>4, LessStaysWithin
<1>6. CASE Live \subseteq DOMAIN rows[r]
  <2> DEFINE S == DOMAIN rows[r]
             T == Within' \ {t}
             h == [u \in Within' |-> book'[u].stop]
  <2>1. EntryAllowed(r, rows[r])
    <3>1. worker[r] \in Busy
      BY DEF Execute, Busy
    <3> QED
      BY <1>0, <1>1, <3>1 DEF Judged
  <2>2. /\ IsFiniteSet(S) /\ \A u \in S : rows[r][u] \in Nat
    BY <1>0, BoundsAssumption DEF TypeOK
  <2>3. PlannedRisk(rows[r]) = Sum(rows[r], S) /\ Sum(rows[r], S) \in Nat
    BY <2>2, RiskIsSum
  <2>4. T \in SUBSET S /\ T \subseteq Within
    BY <1>4, <1>6, WithinIsFinite
  <2>5. \A u \in T : h[u] \in Nat /\ h[u] <= rows[r][u]
    <3> SUFFICES ASSUME NEW u \in T PROVE h[u] \in Nat /\ h[u] <= rows[r][u]
      OBVIOUS
    <3>1. u \in Ticket /\ u \in S /\ u \in Live \ widened
      BY <2>4, WithinIsFinite DEF Within
    <3>2. book[u].stop <= rows[r][u]
      BY <3>1 DEF RowsKeepUp
    <3>3. h[u] = book[u].stop /\ book[u].stop \in Nat
      BY <1>0, <1>2, <3>1, BoundsAssumption DEF TypeOK
    <3> QED
      BY <3>2, <3>3
  <2>6. IsFiniteSet(T) /\ IsFiniteSet(Within')
    <3>1. IsFiniteSet(T)
      BY <2>2, <2>4, FS_Subset
    <3>2. IsFiniteSet(T \cup {t}) /\ Within' \in SUBSET (T \cup {t})
      BY <3>1, FS_AddElement
    <3> QED
      BY <3>1, <3>2, FS_Subset
  <2>7. /\ DOMAIN h = Within' /\ \A u \in Within' : h[u] = book'[u].stop /\ h[u] \in Nat
    BY <1>3, BoundsAssumption DEF TypeOK
  <2>8. PlannedRisk(StopsOf(GatewayOpened \ (overtaken \cup widened)))' = PlannedRisk(h)
    BY DEF StopsOf, Within
  <2>9. t \in Within' => h[t] = body[r].stop
    BY <1>2
  <2>10. Sum(rows[r], S) + body[r].stop <= BookCap /\ body[r].stop \in Nat /\ BookCap \in Nat
    BY <1>0, <2>1, <2>3, BoundsAssumption DEF EntryAllowed, TypeOK, BodyType, Stop
  <2> HIDE DEF h, S
  <2>11. Sum(h, T) <= Sum(rows[r], S) /\ Sum(h, T) \in Nat
    <3>1. Sum(h, T) <= Sum(rows[r], S)
      BY <2>2, <2>4, <2>5, SumMonotone
    <3>2. \A u \in T : h[u] \in Nat
      BY <2>5
    <3> HIDE DEF T
    <3>3. Sum(h, T) \in Nat
      BY <2>6, <3>2, SumSplits
    <3> QED
      BY <3>1, <3>3
  <2>12. PlannedRisk(h) = Sum(h, Within') /\ Sum(h, Within') \in Nat
    BY <2>6, <2>7, RiskIsSum
  <2>13. Sum(h, Within') = Sum(h, T) \/ Sum(h, Within') = body[r].stop + Sum(h, T)
    <3>1. CASE t \notin Within'
      <4>1. T = Within'
        BY <3>1
      <4> QED
        BY <4>1
    <3>2. CASE t \in Within'
      <4>1. \A u \in Within' : Sum(h, Within') = h[u] + Sum(h, Within' \ {u})
        BY <2>6, <2>7, SumSplits
      <4> QED
        BY <2>9, <3>2, <4>1
    <3> QED
      BY <3>1, <3>2
  <2>14. PlannedRisk(h) <= BookCap
    BY <2>3, <2>10, <2>11, <2>12, <2>13
  <2> QED
    BY <2>8, <2>14 DEF BookRiskUnlessOvertaken
<1> QED
  BY <1>5, <1>6

(* The stops of the entries judged on a complete view of the book add up to  *)
(* no more than the aggregate cap, unless one was widened later: a request   *)
(* added its own stop to rows that bound the stops still standing            *)
(* (order_guard.py _check_entry).                                            *)
THEOREM BookRiskHeld == Spec => []BookRiskUnlessOvertaken
<1>1. Init => BookRiskUnlessOvertaken
  <2> SUFFICES ASSUME Init PROVE BookRiskUnlessOvertaken
    OBVIOUS
  <2>1. GatewayOpened \ (overtaken \cup widened) = {}
    BY DEF Init, GatewayOpened, Live, Positions, Working
  <2> DEFINE f == StopsOf({})
  <2>2. IsFiniteSet({}) /\ DOMAIN f = {}
    BY FS_EmptySet DEF StopsOf
  <2> HIDE DEF f
  <2>3. PlannedRisk(f) = Sum(f, {}) /\ Sum(f, {}) = 0
    BY <2>2, RiskIsSum, SumSplits
  <2> QED
    BY <2>1, <2>3, BoundsAssumption DEF BookRiskUnlessOvertaken, f
<1>2. JInv /\ TypeOK' /\ RowsKeepUp /\ BookRiskUnlessOvertaken /\ [Next]_vars
        => BookRiskUnlessOvertaken'
  <2> SUFFICES ASSUME JInv, TypeOK', RowsKeepUp, BookRiskUnlessOvertaken, [Next]_vars
               PROVE  BookRiskUnlessOvertaken'
    OBVIOUS
  <2>0. TypeOK /\ OneOpener
    BY DEF JInv, IInv
  <2>1. CASE \E r \in Request : Execute(r) /\ Opened(r, book', openedBy')
    BY <2>1, OpenedStaysWithinRisk
  <2>2. ASSUME openedBy' = openedBy, overtaken \subseteq overtaken'
        PROVE  BookRiskUnlessOvertaken'
    <3>1. ASSUME NEW t \in Within' PROVE t \in Within /\ book'[t].stop <= book[t].stop
      <4>1. /\ t \in Ticket /\ t \in Live' \ widened'
            /\ openedBy[t] \in Request /\ t \notin overtaken
        BY <2>2 DEF Within, GatewayOpened, Live, Positions, Working
      <4>2. book[t].st # "free"
        BY <2>0, <4>1 DEF OneOpener
      <4>3. t \in Live /\ book'[t].stop <= book[t].stop /\ t \notin widened
        BY <2>0, <4>1, <4>2, TicketsOnlyTighten
      <4> QED
        BY <4>1, <4>3 DEF Within, GatewayOpened
    <3> QED
      BY <3>1, LessStaysWithin
  <2>3. ASSUME NEW r \in Request, Execute(r), ~ Opened(r, book', openedBy')
        PROVE  BookRiskUnlessOvertaken'
    <3>1. openedBy' = openedBy
      BY <2>3 DEF Execute, Rejected, Changed
    <3>2. overtaken \subseteq overtaken'
      BY <2>3 DEF Execute
    <3> QED
      BY <2>2, <3>1, <3>2
  <2>4. CASE \E r \in Request : \/ \E b \in Body : Arrive(r, b)
                                \/ HttpStep(r) \/ CheckReturns(r) \/ TakeLock(r)
    BY <2>2, <2>4 DEF Arrive, HttpStep, CheckReturns, TakeLock, ReadPrice, ReadPositions,
                      ReadOrders, Claim, EnsureSymbol, Refuse, Respond, TimeOut, history
  <2>5. CASE Environment \/ UNCHANGED vars
    BY <2>2, <2>5 DEF Environment, Tick, Restart, Fill, StopOut, OwnerOpens, BookMoves,
                      history, vars
  <2> QED
    BY <2>1, <2>3, <2>4, <2>5 DEF Next
<1> QED
  BY <1>1, <1>2, JudgedInvariant, RowsKeepUpInvariant, TypeCorrect, PTL DEF Spec

-----------------------------------------------------------------------------
(* A stop moves away from the price only when the one the guard compared     *)
(* with had moved since (order_guard.py _check_sltp).                        *)
THEOREM WidensStale == Spec => WidenOnlyStale
<1> DEFINE Excused(t) ==
        \E r \in Request : /\ worker[r] \in {"ipc", "detached"}
                           /\ body[r].kind = "sltp" /\ t \in DOMAIN rows[r]
                           /\ rows[r][t] # book[t].stop
           A == \A t \in Positions :
                    book[t].stop # NoStop /\ book'[t].stop > book[t].stop => Excused(t)
<1>1. JInv /\ [Next]_vars => [A]_vars
  <2> SUFFICES ASSUME JInv, [Next]_vars,
                      NEW t \in Positions, book[t].stop # NoStop,
                      book'[t].stop > book[t].stop
               PROVE  Excused(t)
    OBVIOUS
  <2>0. TypeOK /\ t \in Ticket /\ book[t].st = "open"
    BY DEF JInv, IInv, Positions
  <2>1. book[t].stop \in Nat
    BY <2>0, BoundsAssumption DEF TypeOK
  <2>2. book'[t].stop # book[t].stop
    BY <2>1
  <2>3. ASSUME NEW r \in Request, Execute(r) PROVE Excused(t)
    <3>1. ~ Rejected(book', openedBy')
      BY <2>2 DEF Rejected
    <3>2. ~ Opened(r, book', openedBy')
      BY <2>0, <2>2 DEF Opened, TypeOK
    <3>3. Changed(r, book', openedBy') /\ worker[r] \in {"ipc", "detached"}
      BY <2>3, <3>1, <3>2, Zenon DEF Execute
    <3>4. t = body[r].ticket /\ body[r].kind = "sltp" /\ book'[t].stop = body[r].stop
      <4> DEFINE k == body[r].kind
                 u == body[r].ticket
      <4>1. book \in [Ticket -> [st : TicketState, stop : 0 .. MaxStop]]
        BY <2>0 DEF TypeOK
      <4>2. ASSUME u \in Ticket, book' = [book EXCEPT ![u].st = "closed"] PROVE FALSE
        BY <2>0, <2>2, <4>1, <4>2
      <4>3. ASSUME u \in Ticket, book[u].st = "working",
                   book' = [book EXCEPT ![u].stop = body[r].stop]
            PROVE  FALSE
        BY <2>0, <2>2, <4>1, <4>3
      <4>4. ASSUME u \in Ticket, book' = [book EXCEPT ![u].stop = body[r].stop]
            PROVE  t = u /\ book'[t].stop = body[r].stop
        BY <2>0, <2>2, <4>1, <4>4
      <4>5. k \notin {"close", "cancel"}
        BY <3>3, <4>2 DEF Changed, Positions, Working
      <4>6. k # "modify_pending"
        BY <3>3, <4>3 DEF Changed, Working
      <4>7. k = "sltp" /\ u \in Ticket /\ book' = [book EXCEPT ![u].stop = body[r].stop]
        BY <3>3, <4>5, <4>6 DEF Changed, Positions
      <4> QED
        BY <4>4, <4>7
    <3>5. MayMoveStop(r, rows[r])
      BY <3>3, <3>4 DEF JInv, Judged, Busy
    <3>6. t \in DOMAIN rows[r] /\ rows[r][t] # book[t].stop
      <4>1. rows[r][t] = NoStop \/ body[r].stop <= rows[r][t]
        BY <3>4, <3>5 DEF MayMoveStop
      <4>2. body[r].stop > book[t].stop
        BY <3>4
      <4>3. body[r].stop \in Nat
        BY <2>0, BoundsAssumption DEF TypeOK, BodyType, Stop
      <4>4. t \in DOMAIN rows[r]
        BY <3>4, <3>5 DEF MayMoveStop
      <4> QED
        BY <2>1, <4>1, <4>2, <4>3, <4>4
    <3> QED
      BY <3>3, <3>4, <3>6
  <2>4. CASE \E r \in Request : \/ \E b \in Body : Arrive(r, b)
                                \/ HttpStep(r) \/ CheckReturns(r) \/ TakeLock(r)
    BY <2>2, <2>4 DEF Arrive, HttpStep, CheckReturns, TakeLock, ReadPrice, ReadPositions,
                      ReadOrders, Claim, EnsureSymbol, Refuse, Respond, TimeOut
  <2>5. CASE Environment
    <3>1. CASE Tick \/ Restart
      BY <2>2, <3>1 DEF Tick, Restart
    <3>2. ASSUME NEW u \in Ticket, Fill(u) \/ StopOut(u) \/ OwnerOpens(u)
          PROVE  FALSE
      <4>1. book \in [Ticket -> [st : TicketState, stop : 0 .. MaxStop]]
        BY <2>0 DEF TypeOK
      <4>2. ASSUME NEW s, book' = [book EXCEPT ![u] = [book[u] EXCEPT !.st = s]] PROVE FALSE
        BY <2>0, <2>2, <4>1, <4>2
      <4>3. CASE OwnerOpens(u)
        BY <2>0, <2>2, <4>1, <4>3 DEF OwnerOpens, BookMoves
      <4> QED
        BY <3>2, <4>2, <4>3 DEF Fill, StopOut, BookMoves
    <3> QED
      BY <2>5, <3>1, <3>2 DEF Environment
  <2>6. CASE UNCHANGED vars
    BY <2>2, <2>6 DEF vars
  <2> QED
    BY <2>3, <2>4, <2>5, <2>6 DEF Next
<1> QED
  BY <1>1, JudgedInvariant, PTL DEF Spec, WidenOnlyStale
-----------------------------------------------------------------------------
(* The terminal is called by one send at a time, and the lock that the other *)
(* workers wait for has an owner that is in the terminal, whether somebody   *)
(* still waits for its answer or not; only a restart detaches a call.        *)
OneSendInTerminal ==
    /\ \A r \in Request : worker[r] = "ipc" <=> opsLock = r
    /\ \A r \in Request : worker[r] = "detached" => restarts > 0

LEMMA LockStep == IInv /\ OneSendInTerminal /\ [Next]_vars => OneSendInTerminal'
<1> SUFFICES ASSUME IInv, OneSendInTerminal, [Next]_vars PROVE OneSendInTerminal'
  OBVIOUS
<1> TypeOK
  BY DEF IInv
<1> USE DEF registryVars, history, threadVars
<1>1. ASSUME NEW r \in Request,
             \/ \E b \in Body : Arrive(r, b)
             \/ HttpStep(r) \/ CheckReturns(r)
      PROVE  OneSendInTerminal'
  <2>1. opsLock' = opsLock /\ restarts' = restarts
    BY <1>1 DEF Arrive, HttpStep, CheckReturns, ReadPrice, ReadPositions, ReadOrders, Claim,
                EnsureSymbol, Refuse, Respond, TimeOut
  <2>2. worker' = worker \/ (worker[r] = "none" /\ worker' = [worker EXCEPT ![r] = "waiting"])
    <3>1. CASE \E b \in Body : Arrive(r, b)
      BY <3>1 DEF Arrive, Goto
    <3>2. CASE Claim(r)
      BY <3>2 DEF Claim, Goto
    <3>3. CASE ~Claim(r) /\ (HttpStep(r) \/ CheckReturns(r))
      <4>1. PICK l \in Pc : Moves(r, l)
        BY <3>3, ThreadStep DEF IInv
      <4> QED
        BY <4>1 DEF Moves, IInv, SentOnce
    <3> QED
      BY <1>1, <3>1, <3>2, <3>3
  <2> QED
    BY <2>1, <2>2 DEF OneSendInTerminal, IInv, TypeOK
<1>2. ASSUME NEW r \in Request, TakeLock(r) PROVE OneSendInTerminal'
  BY <1>2, NobodyAssumption DEF TakeLock, OneSendInTerminal, TypeOK
<1>3. ASSUME NEW r \in Request, Execute(r) PROVE OneSendInTerminal'
  <2>1. /\ opsLock' = IF opsLock = r THEN Nobody ELSE opsLock
        /\ restarts' = restarts
        /\ \E w \in {"rejected", "executed"} : worker' = [worker EXCEPT ![r] = w]
    BY <1>3 DEF Execute
  <2> QED
    BY <2>1, NobodyAssumption DEF OneSendInTerminal, TypeOK
<1>4. CASE Restart
  <2>1. /\ opsLock' = Nobody /\ restarts' = restarts + 1 /\ restarts \in Nat
        /\ \A r \in Request : worker'[r] # "ipc"
    BY <1>4, BoundsAssumption DEF Restart, TypeOK
  <2> QED
    BY <2>1, NobodyAssumption DEF OneSendInTerminal
<1>5. CASE \/ \E t \in Ticket : Fill(t) \/ StopOut(t) \/ OwnerOpens(t)
           \/ Tick \/ UNCHANGED vars
  BY <1>5 DEF Fill, StopOut, OwnerOpens, BookMoves, Tick, vars, OneSendInTerminal
<1> QED
  BY <1>1, <1>2, <1>3, <1>4, <1>5 DEF Next, Environment

(* At most one send is in the terminal, it holds _mt5_ops_lock, and the lock *)
(* has no other owner: a worker whose caller timed out keeps it until the    *)
(* terminal answers, a restart frees it (call_mt5_bounded).                  *)
THEOREM LockIsTheTerminal == Spec => []OneSendInTerminal
<1>1. Init => OneSendInTerminal
  BY NobodyAssumption DEF Init, OneSendInTerminal
<1> QED
  BY <1>1, LockStep, InductiveInvariant, PTL DEF Spec
=============================================================================
