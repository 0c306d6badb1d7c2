-------------------------- MODULE FeeSimLoop_proofs --------------------------
(***************************************************************************)
(* Theorems about the main loop of the simulator, for frames of any size,  *)
(* any scenes, settings, periods and numbers of writes of the client.      *)
(***************************************************************************)
EXTENDS FeeSimLoop, FiniteSetTheorems, SequenceTheorems, WellFoundedInduction, TLAPS

-----------------------------------------------------------------------------
(* Counting pixels in the order of the loops.                              *)

LEMMA WindowFinite == Window \subseteq Nat /\ IsFiniteSet(Window)
<1> DEFINE A == (2 .. ROWS - 3) \X (2 .. COLS - 3)
           f == [x \in A |-> x[1] * COLS + x[2]]
<1>1. ROWS \in Nat /\ COLS \in Nat
  BY EventDetectionAssumption
<1>2. \A r \in 2 .. ROWS - 3, c \in 2 .. COLS - 3 : r * COLS + c \in Nat
  BY <1>1
<1>3. IsFiniteSet(A)
  <2>1. IsFiniteSet(2 .. ROWS - 3)
    BY <1>1, FS_Interval
  <2>2. IsFiniteSet(2 .. COLS - 3)
    BY <1>1, FS_Interval
  <2>3. QED BY <2>1, <2>2, FS_Product
<1>4. f \in Surjection(A, Window)
  <2>1. f \in [A -> Window]
    <3>1. ASSUME NEW x \in A PROVE x[1] * COLS + x[2] \in Window
      <4>1. x[1] \in 2 .. ROWS - 3 /\ x[2] \in 2 .. COLS - 3
        OBVIOUS
      <4>2. \A r \in 2 .. ROWS - 3, c \in 2 .. COLS - 3 : r * COLS + c \in Window
        BY DEF Window
      <4>3. QED BY <4>1, <4>2
    <3>2. QED BY <3>1
  <2>2. ASSUME NEW w \in Window PROVE \E x \in A : f[x] = w
    <3>1. PICK r \in 2 .. ROWS - 3, c \in 2 .. COLS - 3 : w = r * COLS + c
      BY DEF Window
    <3>2. <<r, c>> \in A /\ f[<<r, c>>] = w
      BY <3>1
    <3>3. QED BY <3>2
  <2>3. QED BY <2>1, <2>2, Zenon DEF Surjection
<1>5. IsFiniteSet(Window)
  BY <1>3, <1>4, FS_Surjection
<1>6. QED BY <1>2, <1>5 DEF Window

LEMMA RankType ==
    ASSUME NEW S \in SUBSET Nat, IsFiniteSet(S), NEW i
    PROVE  Rank(S, i) \in Nat /\ IsFiniteSet({k \in S : k < i})
BY FS_Subset, FS_CardinalityType DEF Rank

LEMMA RankGrows ==
    ASSUME NEW S \in SUBSET Nat, IsFiniteSet(S), NEW i \in S, NEW j \in Nat, i < j
    PROVE  Rank(S, i) < Rank(S, j)
<1> DEFINE below(x) == {k \in S : k < x}
<1> i \in Nat
  OBVIOUS
<1>1. below(i) \subseteq below(j) /\ i \in below(j) /\ i \notin below(i)
  <2>1. \A k \in S : k \in Nat
    OBVIOUS
  <2>2. \A k \in S : k < i => k < j
    BY <2>1
  <2>3. i \in below(j) /\ i \notin below(i)
    OBVIOUS
  <2>4. below(i) \subseteq below(j)
    BY <2>2
  <2>5. QED BY <2>3, <2>4
<1>2. IsFiniteSet(below(j)) /\ Rank(S, i) \in Nat /\ Rank(S, j) \in Nat
  BY RankType
<1>3. Cardinality(below(i)) <= Cardinality(below(j)) /\ Cardinality(below(i)) # Cardinality(below(j))
  BY <1>1, <1>2, FS_Subset
<1>4. QED BY <1>2, <1>3 DEF Rank

\* No more than the limit are sent.
LEMMA FewRanked ==
    ASSUME NEW S \in SUBSET Nat, IsFiniteSet(S), NEW m \in Nat
    PROVE  LET T == {i \in S : Rank(S, i) < m}
           IN  IsFiniteSet(T) /\ Cardinality(T) \in 0 .. m
<1> DEFINE T == {i \in S : Rank(S, i) < m}
           f == [i \in T |-> Rank(S, i)]
<1>1. IsFiniteSet(T)
  BY FS_Subset
<1>2. f \in [T -> 0 .. m - 1]
  <2>1. \A i \in T : Rank(S, i) \in Nat /\ Rank(S, i) < m
    BY RankType
  <2>2. \A i \in T : Rank(S, i) \in 0 .. m - 1
    BY <2>1
  <2>3. QED BY <2>2
<1>3. \A i, j \in T : i # j => f[i] # f[j]
  <2> SUFFICES ASSUME NEW i \in T, NEW j \in T, i < j PROVE Rank(S, i) # Rank(S, j)
    OBVIOUS
  <2>1. Rank(S, i) < Rank(S, j) /\ Rank(S, i) \in Nat /\ Rank(S, j) \in Nat
    BY RankGrows, RankType
  <2>2. QED BY <2>1
<1>4. f \in Injection(T, 0 .. m - 1)
  BY <1>2, <1>3 DEF Injection, IsInjective
<1>5. IsFiniteSet(0 .. m - 1) /\ Cardinality(0 .. m - 1) = m
  BY FS_Interval
<1>6. Cardinality(T) <= m
  BY <1>4, <1>5, FS_Injection
<1>7. QED BY <1>1, <1>6, FS_CardinalityType

\* Whoever has sent fewer than the limit has not left out any.
LEMMA NoneOmitted ==
    ASSUME NEW S \in SUBSET Nat, IsFiniteSet(S), NEW m \in Nat,
           Cardinality({i \in S : Rank(S, i) < m}) < m
    PROVE  \A i \in Nat : Rank(S, i) < m
<1> DEFINE T == {i \in S : Rank(S, i) < m}
           late == {i \in Nat : ~(Rank(S, i) < m)}
<1> SUFFICES ASSUME late # {} PROVE FALSE
  OBVIOUS
<1>1. PICK i \in late : \A j \in late : ~(<<j, i>> \in OpToRel(<, Nat))
  BY NatLessThanWellFounded, WFMin
<1>2. \A j \in Nat : j < i => Rank(S, j) < m
  BY <1>1 DEF OpToRel
<1>3. {k \in S : k < i} \subseteq T
  BY <1>2
<1>4. IsFiniteSet(T)
  BY FS_Subset
<1>5. Rank(S, i) <= Cardinality(T)
  BY <1>3, <1>4, FS_Subset DEF Rank
<1>6. Rank(S, i) \in Nat /\ Cardinality(T) \in Nat
  BY <1>4, RankType, FS_CardinalityType
<1>7. Cardinality(T) < m /\ i \in Nat /\ ~(Rank(S, i) < m)
  OBVIOUS
<1>8. QED BY <1>5, <1>6, <1>7

\* The order of the loops has each pixel once.
LEMMA ScanOrderShape ==
    ASSUME NEW S \in SUBSET Nat, IsFiniteSet(S)
    PROVE  /\ Cardinality(S) \in Nat
           /\ InScanOrder(S) \in [1 .. Cardinality(S) -> S]
           /\ \A i \in S : \E k \in 1 .. Cardinality(S) : InScanOrder(S)[k] = i
<1> DEFINE n == Cardinality(S)
           f == [i \in S |-> Rank(S, i) + 1]
<1>1. n \in Nat
  BY FS_CardinalityType
<1>2. \A i \in S : Rank(S, i) \in 0 .. n - 1
  <2> SUFFICES ASSUME NEW i \in S PROVE Rank(S, i) \in 0 .. n - 1
    OBVIOUS
  <2>1. {k \in S : k < i} \subseteq S \ {i}
    OBVIOUS
  <2>2. IsFiniteSet(S \ {i}) /\ Cardinality(S \ {i}) = n - 1
    BY FS_RemoveElement
  <2>3. Rank(S, i) <= n - 1
    BY <2>1, <2>2, FS_Subset DEF Rank
  <2>4. Rank(S, i) \in Nat
    BY RankType
  <2>5. QED BY <1>1, <2>3, <2>4
<1>3. \A i, j \in S : Rank(S, i) = Rank(S, j) => i = j
  <2> SUFFICES ASSUME NEW i \in S, NEW j \in S, i < j PROVE Rank(S, i) # Rank(S, j)
    OBVIOUS
  <2>1. Rank(S, i) < Rank(S, j) /\ Rank(S, i) \in Nat /\ Rank(S, j) \in Nat
    BY RankGrows, RankType
  <2>2. QED BY <2>1
<1> HIDE DEF n
<1>4. f \in Injection(S, 1 .. n)
  <2>1. f \in [S -> 1 .. n]
    BY <1>1, <1>2
  <2>2. \A i, j \in S : f[i] = f[j] => i = j
    BY <1>1, <1>2, <1>3
  <2>3. QED BY <2>1, <2>2 DEF Injection, IsInjective
<1>5. IsFiniteSet(1 .. n) /\ Cardinality(1 .. n) = n
  BY <1>1, FS_Interval
<1>6. f \in Surjection(S, 1 .. n)
  BY <1>4, <1>5, FS_Injection DEF n
<1>7. \A k \in 1 .. n : \E i \in S : Rank(S, i) = k - 1
  <2> SUFFICES ASSUME NEW k \in 1 .. n PROVE \E i \in S : Rank(S, i) = k - 1
    OBVIOUS
  <2>1. PICK i \in S : f[i] = k
    BY <1>6 DEF Surjection
  <2>2. QED BY <1>1, <1>2, <2>1
<1>8. \A k \in 1 .. n : InScanOrder(S)[k] \in S /\ Rank(S, InScanOrder(S)[k]) = k - 1
  BY <1>7 DEF InScanOrder, n
<1>9. InScanOrder(S) \in [1 .. n -> S]
  BY <1>8 DEF InScanOrder, n
<1>10. ASSUME NEW i \in S PROVE \E k \in 1 .. n : InScanOrder(S)[k] = i
  <2>1. Rank(S, i) \in 0 .. n - 1
    BY <1>2
  <2>2. PICK k \in 1 .. n : k - 1 = Rank(S, i)
    <3>1. ASSUME NEW r \in 0 .. n - 1 PROVE \E k \in 1 .. n : k - 1 = r
      <4>1. r + 1 \in 1 .. n /\ (r + 1) - 1 = r
        BY <1>1
      <4>2. QED BY <4>1
    <3>2. QED BY <2>1, <3>1
  <2>3. InScanOrder(S)[k] \in S /\ Rank(S, InScanOrder(S)[k]) = Rank(S, i)
    BY <1>8, <2>2
  <2>4. InScanOrder(S)[k] = i
    BY <1>3, <2>3
  <2>5. QED BY <2>4
<1>11. QED BY <1>1, <1>9, <1>10 DEF n


-----------------------------------------------------------------------------
(* The order in which the nodes are read out.                              *)

Lists(s, nodes) ==
    /\ s \in Seq(nodes)
    /\ \A i, j \in DOMAIN s : s[i] = s[j] => i = j
    /\ \A n \in nodes : \E i \in DOMAIN s : s[i] = n

LEMMA ListsMore ==
    ASSUME NEW s, NEW S, Lists(s, S), NEW n, n \notin S, NEW nodes
    PROVE  Lists(s \o Part(n, nodes), S \cup (nodes \cap {n}))
<1> USE DEF Lists
<1>1. CASE n \in nodes
  <2> DEFINE t == Append(s, n)
             T == S \cup {n}
  <2>1. s \o Part(n, nodes) = t /\ S \cup (nodes \cap {n}) = T
    BY <1>1 DEF Part
  <2>2. s \in Seq(T) /\ t \in Seq(T) /\ Len(t) = Len(s) + 1 /\ Len(s) \in Nat
    OBVIOUS
  <2>3. \A i \in 1 .. Len(s) : t[i] = s[i] /\ s[i] \in S
    OBVIOUS
  <2>4. t[Len(s) + 1] = n
    OBVIOUS
  <2>5. DOMAIN t = 1 .. Len(s) + 1 /\ DOMAIN s = 1 .. Len(s)
    OBVIOUS
  <2> HIDE DEF t, T
  <2>6. \A i, j \in 1 .. Len(s) + 1 : t[i] = t[j] => i = j
    <3> SUFFICES ASSUME NEW i \in 1 .. Len(s) + 1, NEW j \in 1 .. Len(s) + 1, t[i] = t[j]
                 PROVE  i = j
      OBVIOUS
    <3>1. CASE i \in 1 .. Len(s) /\ j \in 1 .. Len(s)
      BY <3>1, <2>3, <2>5
    <3>2. CASE i = Len(s) + 1 /\ j \in 1 .. Len(s)
      BY <3>2, <2>3, <2>4
    <3>3. CASE j = Len(s) + 1 /\ i \in 1 .. Len(s)
      BY <3>3, <2>3, <2>4
    <3>4. QED BY <3>1, <3>2, <3>3, <2>2
  <2>7. \A x \in T : \E i \in 1 .. Len(s) + 1 : t[i] = x
    BY <2>2, <2>3, <2>4, <2>5 DEF T
  <2>8. QED BY <2>1, <2>2, <2>5, <2>6, <2>7
<1>2. CASE n \notin nodes
  <2>1. s \o Part(n, nodes) = s /\ S \cup (nodes \cap {n}) = S
    BY <1>2 DEF Part
  <2>2. QED BY <2>1
<1>3. QED BY <1>1, <1>2

LEMMA InOrderShape ==
    ASSUME NEW nodes \in SUBSET Nodes
    PROVE  Lists(InOrder(nodes), nodes)
<1>0. Lists(<<>>, {})
  BY DEF Lists
<1>1. Lists(Part("E2", nodes), nodes \cap {"E2"})
  <2>1. <<>> \o Part("E2", nodes) = Part("E2", nodes)
    BY DEF Part
  <2>2. Lists(<<>> \o Part("E2", nodes), {} \cup (nodes \cap {"E2"}))
    BY <1>0, ListsMore
  <2>3. QED BY <2>1, <2>2
<1>2. Lists(Part("E2", nodes) \o Part("F2", nodes),
            (nodes \cap {"E2"}) \cup (nodes \cap {"F2"}))
  BY <1>1, ListsMore
<1>3. Lists(Part("E2", nodes) \o Part("F2", nodes) \o Part("E4", nodes),
            (nodes \cap {"E2"}) \cup (nodes \cap {"F2"}) \cup (nodes \cap {"E4"}))
  BY <1>2, ListsMore
<1>4. Lists(InOrder(nodes), (nodes \cap {"E2"}) \cup (nodes \cap {"F2"})
               \cup (nodes \cap {"E4"}) \cup (nodes \cap {"F4"}))
  BY <1>3, ListsMore DEF InOrder
<1>5. nodes = (nodes \cap {"E2"}) \cup (nodes \cap {"F2"})
               \cup (nodes \cap {"E4"}) \cup (nodes \cap {"F4"})
  BY DEF Nodes
<1>6. QED BY <1>4, <1>5

-----------------------------------------------------------------------------
(* One call of fee_sim_detect_events.                                      *)

LEMMA DetectionShape ==
    ASSUME NEW E \in SUBSET Window, NEW m \in Nat, NEW w
    PROVE  LET found == Detected(E, m, w)
               all == found.ev \cup found.mask
           IN  /\ IsFiniteSet(found.ev) /\ Cardinality(found.ev) \in 0 .. m
               /\ found.ev \subseteq Window /\ found.mask \subseteq Window
               /\ IsFiniteSet(all) /\ Cardinality(all) \in Nat
<1> DEFINE found == Detected(E, m, w)
<1>1. E \in SUBSET Nat /\ IsFiniteSet(E)
  BY WindowFinite, FS_Subset
<1>2. IsFiniteSet(found.ev) /\ Cardinality(found.ev) \in 0 .. m
  BY <1>1, FewRanked DEF Detected
<1>3. found.ev \subseteq Window /\ found.mask \subseteq Window
  BY DEF Detected
<1>4. IsFiniteSet(found.ev \cup found.mask)
  BY <1>3, WindowFinite, FS_Subset
<1>5. QED BY <1>2, <1>3, <1>4, FS_CardinalityType

-----------------------------------------------------------------------------
(* Types.                                                                  *)

Word == [mode : ClientModes \cup {"ON"}, event_detection : BOOLEAN]
Line == {"poll", "clear", "exec", "node", "move", "sync", "wait", "check", "load",
         "store", "sleep", "again"}

Flags == /\ execute_op \in BOOLEAN /\ sync_sel \in BOOLEAN
         /\ called \in BOOLEAN /\ touched \in BOOLEAN

Given == settings \in Settings /\ scene \in Scenes

\* A cycle that waits has not come to the end of the longest period.
Clock == /\ int_sync_period \in Periods
         /\ elapsed \in 0 .. 2 * Long
         /\ pc \in {"check", "sleep"} => elapsed < Long

Register == reg_21 \in Word /\ loaded \in Word

Control == /\ pc \in Line
           /\ mode \in ClientModes \cup {"ON"}
           /\ pc = "node" => mode \in Scanned

Nodewise == /\ ev_cnt \in [{"CCD2", "CCD4"} -> 0 .. settings.limit]
            /\ todo \in Seq(settings.nodes)

Mask == wmask \in (2 .. ROWS - 2) \X (2 .. COLS - 2)

Types == Flags /\ Given /\ Clock /\ Register /\ Control /\ Nodewise /\ Mask

LEMMA LongBounds ==
    /\ Long \in Nat
    /\ \A p \in Periods : p \in Nat /\ p <= Long /\ p * Slices \in Nat /\ p * Slices <= Long
<1> DEFINE top == CHOOSE p \in Periods : \A q \in Periods : q <= p
<1>1. top \in Periods /\ \A q \in Periods : q <= top
  BY FeeSimLoopAssumption
<1>2. Slices \in Nat /\ Slices >= 1 /\ Periods \subseteq Nat
  BY FeeSimLoopAssumption
<1>3. Long = Slices * top
  BY DEF Long
<1> HIDE DEF top
<1>4. \A p \in Nat, q \in Nat : p <= q => p * Slices <= Slices * q /\ p <= Slices * q
  <2>1. SUFFICES ASSUME NEW p \in Nat, NEW q \in Nat, p <= q
                 PROVE  p * Slices <= Slices * q /\ p <= Slices * q
    OBVIOUS
  <2>2. p * Slices <= Slices * q
    BY <2>1, <1>2
  <2>3. q <= Slices * q
    BY <1>2
  <2>4. Slices * q \in Nat
    BY <1>2
  <2>5. QED BY <2>1, <2>2, <2>3, <2>4
<1>5. QED BY <1>1, <1>2, <1>3, <1>4

LEMMA SettingsType ==
    ASSUME NEW s \in Settings
    PROVE  /\ s.limit \in Nat /\ s.nodes \subseteq Nodes
           /\ s.digitise_en \in BOOLEAN /\ s.wmask_en \in BOOLEAN
BY FeeSimLoopAssumption

LEMMA TypesInit == Init => Types
<1> SUFFICES ASSUME Init PROVE Types
  OBVIOUS
<1> USE DEF Init
<1>1. Flags /\ Given /\ Control
  BY DEF Flags, Given, Control, Line
<1>2. Clock
  BY LongBounds DEF Clock
<1>3. Register
  BY DEF Register, Word
<1>4. Nodewise
  BY SettingsType DEF Nodewise
<1>5. Mask
  BY EventDetectionAssumption DEF Mask
<1>6. QED BY <1>1, <1>2, <1>3, <1>4, <1>5 DEF Types

LEMMA EventsInWindow ==
    ASSUME NEW st \in Settings, NEW sc \in Scenes, NEW node \in Nodes
    PROVE  EventsIn[st][sc][node] \in SUBSET Window
BY DEF EventsIn

LEMMA LeftShape ==
    ASSUME NEW E \in SUBSET Window, NEW m \in Nat, NEW node, NEW on \in BOOLEAN, NEW w
    PROVE  DetectEvents(node, E, m, on, w).left \in 0 .. m
<1> DEFINE res == DetectEvents(node, E, m, on, w)
<1>1. CASE m = 0
  BY <1>1 DEF DetectEvents
<1>2. CASE m > 0 /\ ~on
  BY <1>2 DEF DetectEvents
<1>3. CASE m > 0 /\ on
  <2>1. res.left = m - Cardinality(Detected(E, m, w).ev)
    BY <1>3 DEF DetectEvents
  <2>2. Cardinality(Detected(E, m, w).ev) \in 0 .. m
    BY DetectionShape
  <2>3. QED BY <2>1, <2>2
<1>4. QED BY <1>1, <1>2, <1>3

LEMMA TypesNext == Types /\ [Next]_vars => Types'
<1> SUFFICES ASSUME Types, [Next]_vars PROVE Types'
  OBVIOUS
<1> USE DEF Types
<1>f. UNCHANGED <<execute_op, sync_sel, called, touched>> => Flags'
  BY DEF Flags
<1>g. UNCHANGED <<settings, scene>> => Given'
  BY DEF Given
<1>t. UNCHANGED <<int_sync_period, elapsed>> /\ pc' \notin {"check", "sleep"} => Clock'
  BY DEF Clock
<1>r. UNCHANGED <<reg_21, loaded>> => Register'
  BY DEF Register
<1>c. UNCHANGED mode /\ pc' \in Line \ {"node"} => Control'
  BY DEF Control
<1>n. UNCHANGED <<settings, ev_cnt, todo>> => Nodewise'
  BY DEF Nodewise
<1>m. UNCHANGED wmask => Mask'
  BY DEF Mask
<1> USE DEF registers, execution
<1>1. ASSUME WriteExecuteOp PROVE Types'
  <2>1. Flags'
    BY <1>1 DEF WriteExecuteOp, Write, Flags
  <2>2. Clock' /\ Control'
    BY <1>1 DEF WriteExecuteOp, Write, Clock, Control
  <2>3. QED BY <1>1, <2>1, <2>2, <1>g, <1>r, <1>n, <1>m DEF WriteExecuteOp, Write
<1>2. ASSUME WriteSync PROVE Types'
  <2>1. Flags'
    BY <1>2 DEF WriteSync, Write, Flags
  <2>2. Clock' /\ Control'
    BY <1>2 DEF WriteSync, Write, Clock, Control
  <2>3. QED BY <1>2, <2>1, <2>2, <1>g, <1>r, <1>n, <1>m DEF WriteSync, Write
<1>3. ASSUME WriteMode PROVE Types'
  <2>1. Register'
    BY <1>3 DEF WriteMode, Write, Register, Word
  <2>2. touched' \in BOOLEAN
    BY <1>3 DEF WriteMode, Flags
  <2>3. Flags'
    BY <1>3, <2>2 DEF WriteMode, Write, Flags
  <2>4. Clock' /\ Control'
    BY <1>3 DEF WriteMode, Write, Clock, Control
  <2>5. QED BY <1>3, <2>1, <2>3, <2>4, <1>g, <1>n, <1>m DEF WriteMode, Write
<1>4. ASSUME Poll PROVE Types'
  BY <1>4, <1>f, <1>g, <1>t, <1>r, <1>c, <1>n, <1>m DEF Poll, Line
<1>5. ASSUME Clear PROVE Types'
  <2>1. Flags'
    BY <1>5 DEF Clear, Flags
  <2>2. Clock'
    BY <1>5, LongBounds DEF Clear, Clock
  <2>3. QED BY <1>5, <2>1, <2>2, <1>g, <1>r, <1>c, <1>n, <1>m DEF Clear, Line
<1>6. ASSUME Exec PROVE Types'
  <2>1. Flags'
    BY <1>6 DEF Exec, Flags
  <2>2. Clock'
    BY <1>6 DEF Exec, Clock
  <2>3. Control'
    <3>1. mode' = reg_21.mode /\ reg_21.mode \in ClientModes \cup {"ON"}
      BY <1>6 DEF Exec, Register, Word
    <3>2. pc' \in {"node", "move"} /\ (pc' = "node" => reg_21.mode \in Scanned)
      BY <1>6 DEF Exec, Scanned
    <3>3. QED BY <3>1, <3>2 DEF Control, Line
  <2>4. Nodewise'
    <3>1. settings.limit \in Nat /\ settings.nodes \subseteq Nodes
      BY SettingsType DEF Given
    <3>2. InOrder(settings.nodes) \in Seq(settings.nodes)
      BY <3>1, InOrderShape DEF Lists
    <3>3. settings' = settings /\ (todo' = InOrder(settings.nodes) \/ todo' = <<>>)
      BY <1>6, Zenon DEF Exec
    <3>4. ev_cnt' \in [{"CCD2", "CCD4"} -> 0 .. settings.limit]
      BY <1>6, <3>1 DEF Exec
    <3>5. todo' \in Seq(settings.nodes)
      <4>1. <<>> \in Seq(settings.nodes)
        OBVIOUS
      <4>2. QED BY <3>2, <3>3, <4>1, Zenon
    <3>6. QED BY <3>3, <3>4, <3>5 DEF Nodewise
  <2>5. QED BY <1>6, <2>1, <2>2, <2>3, <2>4, <1>g, <1>r, <1>m DEF Exec
<1>7. ASSUME Readout PROVE Types'
  <2>1. Clock' /\ Control'
    BY <1>7 DEF Readout, Clock, Control
  <2>2. Nodewise'
    <3> DEFINE node == Head(todo)
               w == IF settings.wmask_en THEN wmask ELSE <<>>
               E == EventsIn[settings][scene][node]
               c == Ccd(node)
    <3>0. todo # <<>> /\ todo \in Seq(settings.nodes)
      BY <1>7, Zenon DEF Readout, Nodewise
    <3>1. node \in settings.nodes /\ Tail(todo) \in Seq(settings.nodes)
      BY <3>0
    <3>2. node \in Nodes /\ settings.limit \in Nat
      BY <3>1, SettingsType DEF Given
    <3>3. E \in SUBSET Window
      BY <3>2, EventsInWindow DEF Given
    <3>4. c \in {"CCD2", "CCD4"} /\ ev_cnt[c] \in 0 .. settings.limit
      BY DEF Ccd, Nodewise
    <3>5. reg_21.event_detection \in BOOLEAN
      BY DEF Register, Word
    <3> HIDE DEF node, w, E, c
    <3>6. DetectEvents(node, E, ev_cnt[c], reg_21.event_detection, w).left \in 0 .. ev_cnt[c]
      BY <3>2, <3>3, <3>4, <3>5, LeftShape
    <3>7. DetectEvents(node, E, ev_cnt[c], reg_21.event_detection, w).left \in 0 .. settings.limit
      BY <3>2, <3>4, <3>6
    <3>8. ev_cnt' = [ev_cnt EXCEPT ![c] = DetectEvents(node, E, ev_cnt[c], reg_21.event_detection, w).left]
      BY <1>7 DEF Readout, node, w, E, c
    <3>9. QED BY <1>7, <3>1, <3>7, <3>8 DEF Readout, Nodewise
  <2>3. QED BY <1>7, <2>1, <2>2, <1>f, <1>g, <1>r, <1>m DEF Readout
<1>8. ASSUME Finish PROVE Types'
  BY <1>8, <1>f, <1>g, <1>t, <1>r, <1>c, <1>n, <1>m DEF Finish, Line
<1>9. ASSUME Move PROVE Types'
  <2>1. Clock'
    <3>1. elapsed' \in {elapsed, Long}
      BY <1>9 DEF Move
    <3>2. QED BY <1>9, <3>1, LongBounds DEF Move, Clock
  <2>2. Mask'
    BY <1>9, EventDetectionAssumption DEF Move, MoveMask, Mask
  <2>3. QED BY <1>9, <2>1, <2>2, <1>f, <1>g, <1>r, <1>c, <1>n DEF Move, Line
<1>10. ASSUME Sync PROVE Types'
  BY <1>10, <1>f, <1>g, <1>t, <1>r, <1>c, <1>n, <1>m DEF Sync, Goto, Line
<1>11. ASSUME Wait PROVE Types'
  <2>1. Clock'
    <3>1. elapsed \in Nat /\ int_sync_period * Slices \in Nat /\ int_sync_period * Slices <= Long
          /\ Long \in Nat
      BY LongBounds DEF Clock
    <3>2. pc' # "sleep" /\ (pc' = "check" => elapsed < int_sync_period * Slices)
      BY <1>11 DEF Wait, Goto
    <3>3. pc' \in {"check", "sleep"} => elapsed < Long
      BY <3>1, <3>2
    <3>4. QED BY <1>11, <3>3 DEF Wait, Goto, Clock
  <2>2. QED BY <1>11, <2>1, <1>f, <1>g, <1>r, <1>c, <1>n, <1>m DEF Wait, Goto, Line
<1>12. ASSUME Check PROVE Types'
  <2>1. Clock'
    BY <1>12 DEF Check, Goto, Clock
  <2>2. QED BY <1>12, <2>1, <1>f, <1>g, <1>r, <1>c, <1>n, <1>m DEF Check, Goto, Line
<1>13. ASSUME Load PROVE Types'
  <2>1. Register'
    BY <1>13 DEF Load, Goto, Register
  <2>2. QED BY <1>13, <2>1, <1>f, <1>g, <1>t, <1>c, <1>n, <1>m DEF Load, Goto, Line
<1>14. ASSUME Store PROVE Types'
  <2>1. Register'
    BY <1>14 DEF Store, Register, Word
  <2>2. QED BY <1>14, <2>1, <1>f, <1>g, <1>t, <1>c, <1>n, <1>m DEF Store, Line
<1>15. ASSUME Sleep PROVE Types'
  <2>1. Clock'
    <3>1. elapsed < Long /\ elapsed \in Nat /\ int_sync_period \in Nat /\ int_sync_period <= Long
          /\ Long \in Nat
      BY <1>15, LongBounds DEF Sleep, Goto, Clock
    <3>2. elapsed' = elapsed + int_sync_period /\ pc' = "wait" /\ UNCHANGED int_sync_period
      BY <1>15 DEF Sleep, Goto
    <3>3. QED BY <3>1, <3>2 DEF Clock
  <2>2. QED BY <1>15, <2>1, <1>f, <1>g, <1>r, <1>c, <1>n, <1>m DEF Sleep, Goto, Line
<1>16. ASSUME Again PROVE Types'
  BY <1>16, <1>f, <1>g, <1>t, <1>r, <1>c, <1>n, <1>m DEF Again, Goto, Line
<1>17. ASSUME UNCHANGED vars PROVE Types'
  <2>1. Clock' /\ Control'
    BY <1>17 DEF vars, Clock, Control
  <2>2. QED BY <1>17, <2>1, <1>f, <1>g, <1>r, <1>n, <1>m DEF vars
<1>18. QED
  BY <1>1, <1>2, <1>3, <1>4, <1>5, <1>6, <1>7, <1>8, <1>9, <1>10, <1>11, <1>12, <1>13,
     <1>14, <1>15, <1>16, <1>17 DEF Next, MainLoop, Client

LEMMA TypesAlways == Spec => []Types
<1>1. QED BY TypesInit, TypesNext, PTL DEF Spec

-----------------------------------------------------------------------------
(* The register of mode and event detection.                               *)

\* Between the check of the mode and the store the register is the one checked,
\* and the one loaded, but for what the client has written meanwhile.
Late == {"mode", "event_detection"}

Old == /\ overtaken \subseteq Late
       /\ pc \notin {"load", "store"} => overtaken = {}
       /\ pc \in {"load", "store"} => reg_21.mode = "IMM_ON" \/ "mode" \in overtaken
       /\ pc = "store" => \/ loaded.event_detection = reg_21.event_detection
                          \/ "event_detection" \in overtaken

Counted == writes \in Nat

LEMMA OldNext == Old /\ [Next]_vars => Old'
<1> SUFFICES ASSUME Old, [Next]_vars PROVE Old'
  OBVIOUS
<1> USE DEF Old, Late
<1>1. ASSUME WriteMode PROVE Old'
  <2>1. pc' = pc /\ loaded' = loaded
    BY <1>1 DEF WriteMode, Write
  <2>2. CASE pc = "load"
    <3>1. overtaken' = {"mode"}
      BY <1>1, <2>2 DEF WriteMode
    <3>2. QED BY <2>1, <2>2, <3>1
  <2>3. CASE pc = "store"
    <3>1. overtaken' = {"mode", "event_detection"}
      BY <1>1, <2>3 DEF WriteMode
    <3>2. QED BY <2>1, <2>3, <3>1
  <2>4. CASE pc \notin {"load", "store"}
    <3>1. overtaken' = overtaken
      BY <1>1, <2>4 DEF WriteMode
    <3>2. QED BY <2>1, <2>4, <3>1
  <2>5. QED BY <2>2, <2>3, <2>4
<1>2. ASSUME WriteExecuteOp \/ WriteSync PROVE Old'
  BY <1>2 DEF WriteExecuteOp, WriteSync, Write
<1>3. ASSUME Poll \/ Clear \/ Exec \/ Readout \/ Finish \/ Move PROVE Old'
  <2>1. pc' \notin {"load", "store"} /\ pc \notin {"load", "store"} /\ overtaken' = overtaken
    BY <1>3 DEF Poll, Clear, Exec, Readout, Finish, Move
  <2>2. QED BY <2>1
<1>4. ASSUME Sync \/ Wait \/ Sleep \/ Again PROVE Old'
  <2>1. pc' \notin {"load", "store"} /\ pc \notin {"load", "store"} /\ overtaken' = overtaken
    BY <1>4 DEF Sync, Wait, Sleep, Again, Goto
  <2>2. QED BY <2>1
<1>5. ASSUME Store PROVE Old'
  <2>1. pc' = "poll" /\ overtaken' = {}
    BY <1>5 DEF Store
  <2>2. QED BY <2>1
<1>6. ASSUME Check PROVE Old'
  BY <1>6 DEF Check, Goto, registers
<1>7. ASSUME Load PROVE Old'
  BY <1>7 DEF Load, Goto, registers
<1>8. ASSUME UNCHANGED vars PROVE Old'
  BY <1>8 DEF vars, registers
<1>9. QED BY <1>1, <1>2, <1>3, <1>4, <1>5, <1>6, <1>7, <1>8 DEF Next, MainLoop, Client

LEMMA OldAlways == Spec => []Old
<1>1. Init => Old
  BY DEF Init, Old
<1>2. QED BY <1>1, OldNext, PTL DEF Spec

\* The registers, the counters and the clock keep their ranges: the wandering
\* mask stays inside of the image, no CCD is left a negative number of events,
\* and the time taken passes twice the longest period in no cycle.
THEOREM TypeCorrect == Spec => []TypeOK
<1>1. Types /\ Old => TypeOK
  BY DEF Types, Old, Late, TypeOK, Flags, Given, Clock, Register, Control, Nodewise, Mask, Word, Line
<1>2. QED BY TypesAlways, OldAlways, <1>1, PTL

\* The loop's load and store of the register lose no write of the client but
\* those that fall between the check of the mode and the store; before the load
\* only the mode of such a write is lost.
THEOREM OnlyOvertakenLostCorrect == Spec => OnlyOvertakenLost
<1>w. Init => Counted
  BY DEF Init, Counted
<1>v. Counted /\ [Next]_vars => Counted'
  <2>1. [Next]_vars => writes' \in {writes, writes + 1}
    <3>1. Client => writes' = writes + 1
      BY DEF Client, WriteExecuteOp, WriteSync, WriteMode, Write
    <3>2. Poll \/ Clear \/ Exec \/ Readout \/ Finish \/ Move => writes' = writes
      BY DEF Poll, Clear, Exec, Readout, Finish, Move
    <3>3. Sync \/ Wait \/ Check \/ Load \/ Store \/ Sleep \/ Again => writes' = writes
      BY DEF Sync, Wait, Check, Load, Store, Sleep, Again, Goto
    <3>4. UNCHANGED vars => writes' = writes
      BY DEF vars
    <3>5. QED BY <3>1, <3>2, <3>3, <3>4 DEF Next, MainLoop
  <2>2. QED BY <2>1 DEF Counted
<1>1. Old /\ Types /\ Counted /\ [Next]_vars =>
        [writes' = writes /\ reg_21' # reg_21 =>
           /\ reg_21'.mode = "ON"
           /\ reg_21.mode = "IMM_ON" \/ "mode" \in overtaken
           /\ \/ reg_21'.event_detection = reg_21.event_detection
              \/ "event_detection" \in overtaken]_vars
  <2> SUFFICES ASSUME Old, Types, Counted, [Next]_vars, writes' = writes, reg_21' # reg_21
               PROVE  /\ reg_21'.mode = "ON"
                      /\ reg_21.mode = "IMM_ON" \/ "mode" \in overtaken
                      /\ \/ reg_21'.event_detection = reg_21.event_detection
                         \/ "event_detection" \in overtaken
    OBVIOUS
  <2>1. CASE Store
    <3>1. pc = "store" /\ reg_21' = [loaded EXCEPT !.mode = "ON"]
      BY <2>1 DEF Store
    <3>2. loaded \in Word
      BY DEF Types, Register
    <3>3. reg_21'.mode = "ON" /\ reg_21'.event_detection = loaded.event_detection
      BY <3>1, <3>2 DEF Word
    <3>4. QED BY <3>1, <3>3, Zenon DEF Old
  <2>2. ASSUME Poll \/ Clear \/ Exec \/ Readout \/ Finish \/ Move PROVE FALSE
    BY <2>2 DEF Poll, Clear, Exec, Readout, Finish, Move, registers
  <2>3. ASSUME Sync \/ Wait \/ Check \/ Load \/ Sleep \/ Again PROVE FALSE
    BY <2>3 DEF Sync, Wait, Check, Load, Sleep, Again, Goto, registers
  <2>4. ASSUME WriteExecuteOp \/ WriteSync PROVE FALSE
    BY <2>4 DEF WriteExecuteOp, WriteSync
  <2>5. ASSUME WriteMode PROVE FALSE
    BY <2>5 DEF WriteMode, Write, Counted
  <2>6. ASSUME UNCHANGED vars PROVE FALSE
    BY <2>6 DEF vars, registers
  <2>7. QED BY <2>1, <2>2, <2>3, <2>4, <2>5, <2>6 DEF Next, MainLoop, Client
<1>2. QED BY <1>w, <1>v, <1>1, OldAlways, TypesAlways, PTL DEF Spec, OnlyOvertakenLost

-----------------------------------------------------------------------------
(* The packets of one call, and the ends among them.                       *)

Found(type, node, i) == EvPacket(type, node, i, FALSE)

Packets == {HkPacket, FramePackets} \cup {Marker(node) : node \in Nodes} \cup
           {Found(type, node, i) : type \in {"EV_DET", "WMASK"}, node \in Nodes, i \in Nat}

IsEnd(p) == p.type = "EV_DET" /\ p.last

EndsOf(s) == {k \in DOMAIN s : IsEnd(s[k])}

\* Packets of one node, of which only the last is an end.
Batch(s, node) ==
    /\ s \in Seq(Packets)
    /\ \A k \in 1 .. Len(s) : s[k].node = node /\ s[k] # FramePackets
    /\ \A k \in 1 .. Len(s) : IsEnd(s[k]) <=> k = Len(s)

\* Only a packet marked so is an end.
LEMMA FoundShape ==
    ASSUME NEW type \in {"EV_DET", "WMASK"}, NEW node \in Nodes, NEW i \in Nat
    PROVE  LET p == Found(type, node, i)
           IN  /\ p \in Packets /\ p # FramePackets
               /\ p.node = node /\ p.type = type /\ ~IsEnd(p)
<1> DEFINE p == Found(type, node, i)
<1>1. p \in Packets
  BY DEF Packets
<1>2. p.node = node /\ p.type = type
  BY Zenon DEF Found, EvPacket
<1>3. FramePackets.type = "DATA"
  BY DEF FramePackets
<1>4. ~IsEnd(p)
  BY Zenon DEF Found, EvPacket, IsEnd
<1>5. QED BY <1>1, <1>2, <1>3, <1>4

LEMMA MarkerShape ==
    ASSUME NEW node \in Nodes
    PROVE  LET p == Marker(node)
           IN  p \in Packets /\ p # FramePackets /\ p.node = node /\ p.type = "EV_DET" /\ IsEnd(p)
<1> DEFINE p == Marker(node)
<1>1. p \in Packets
  BY DEF Packets
<1>2. p.node = node /\ p.type = "EV_DET"
  BY Zenon DEF EvPacket, Marker
<1>3. FramePackets.type = "DATA"
  BY DEF FramePackets
<1>4. IsEnd(p)
  BY Zenon DEF EvPacket, IsEnd, Marker
<1>5. QED BY <1>1, <1>2, <1>3, <1>4

LEMMA OneMarker ==
    ASSUME NEW node \in Nodes
    PROVE  Batch(<<Marker(node)>>, node) /\ <<Marker(node)>> # <<>>
<1> DEFINE p == Marker(node)
           s == <<p>>
<1>1. p \in Packets /\ p # FramePackets /\ p.node = node /\ IsEnd(p)
  BY MarkerShape
<1> HIDE DEF p
<1>2. s \in Seq(Packets) /\ Len(s) = 1 /\ s[1] = p
  BY <1>1
<1>3. 1 .. Len(s) = {1}
  BY <1>2
<1> HIDE DEF s
<1>4. Batch(s, node)
  BY <1>1, <1>2, <1>3 DEF Batch
<1>5. s # <<>>
  BY <1>2
<1>6. QED BY <1>4, <1>5 DEF p, s

\* The packets of the pixels in the order of the loops, and the marker.
LEMMA BatchOfMany ==
    ASSUME NEW node \in Nodes, NEW n \in Nat, NEW f \in [1 .. n -> Packets],
           \A k \in 1 .. n : f[k].node = node /\ f[k] # FramePackets /\ ~IsEnd(f[k])
    PROVE  Batch(f \o <<Marker(node)>>, node) /\ f \o <<Marker(node)>> # <<>>
<1> DEFINE p == Marker(node)
           s == f \o <<p>>
<1>1. p \in Packets /\ p # FramePackets /\ p.node = node /\ IsEnd(p)
  BY MarkerShape
<1> HIDE DEF p
<1>2. f \in Seq(Packets) /\ Len(f) = n
  OBVIOUS
<1>3. s \in Seq(Packets) /\ Len(s) = n + 1 /\ s[n + 1] = p
  BY <1>1, <1>2
<1>4. \A k \in 1 .. n : s[k] = f[k]
  BY <1>2
<1> HIDE DEF s
<1>5. ASSUME NEW k \in 1 .. n + 1
      PROVE  s[k].node = node /\ s[k] # FramePackets /\ (IsEnd(s[k]) <=> k = n + 1)
  <2>1. CASE k = n + 1
    BY <1>1, <1>3, <2>1
  <2>2. CASE k \in 1 .. n
    BY <1>4, <2>2
  <2>3. QED BY <2>1, <2>2
<1>6. Batch(s, node)
  BY <1>3, <1>5 DEF Batch
<1>7. s # <<>>
  BY <1>3
<1>8. QED BY <1>6, <1>7 DEF p, s

\* What one call sends, whatever it finds and has left.
LEMMA DetectBatch ==
    ASSUME NEW node \in Nodes, NEW E \in SUBSET Window, NEW m \in Nat,
           NEW on \in BOOLEAN, NEW w
    PROVE  LET pkts == DetectEvents(node, E, m, on, w).pkts
           IN  Batch(pkts, node) /\ (on => pkts # <<>>)
<1> DEFINE res == DetectEvents(node, E, m, on, w)
<1>1. CASE m = 0
  <2>1. res.pkts = <<Marker(node)>>
    BY <1>1 DEF DetectEvents
  <2>2. QED BY <2>1, OneMarker
<1>2. CASE m > 0 /\ ~on
  <2>1. res.pkts = <<>>
    BY <1>2 DEF DetectEvents
  <2>2. Batch(<<>>, node)
    BY DEF Batch
  <2>3. QED BY <1>2, <2>1, <2>2
<1>3. CASE m > 0 /\ on
  <2> DEFINE found == Detected(E, m, w)
             all == found.ev \cup found.mask
             order == InScanOrder(all)
             n == Cardinality(all)
             kind(i) == IF i \in found.ev THEN "EV_DET" ELSE "WMASK"
             pkt(i) == Found(kind(i), node, i)
             f == [k \in DOMAIN order |-> pkt(order[k])]
  <2>1. res.pkts = f \o <<Marker(node)>>
    <3>1. m # 0
      BY <1>3
    <3>2. QED BY <1>3, <3>1, Zenon DEF DetectEvents, Found
  <2>2. all \subseteq Nat /\ IsFiniteSet(all)
    BY DetectionShape, WindowFinite
  <2>3. n \in Nat /\ order \in [1 .. n -> all]
    BY <2>2, ScanOrderShape
  <2> HIDE DEF order, n, all
  <2>4. \A i \in Nat : pkt(i) \in Packets /\ pkt(i).node = node /\ pkt(i) # FramePackets
                          /\ ~IsEnd(pkt(i))
    <3> TAKE i \in Nat
    <3>1. kind(i) \in {"EV_DET", "WMASK"}
      OBVIOUS
    <3> HIDE DEF kind
    <3>2. node \in Nodes /\ i \in Nat
      OBVIOUS
    <3>3. QED BY <3>1, <3>2, FoundShape
  <2> HIDE DEF pkt
  <2>5. f \in [1 .. n -> Packets]
    BY <2>2, <2>3, <2>4
  <2>6. \A k \in 1 .. n : f[k].node = node /\ f[k] # FramePackets /\ ~IsEnd(f[k])
    BY <2>2, <2>3, <2>4
  <2> HIDE DEF f
  <2>7. Batch(f \o <<Marker(node)>>, node) /\ f \o <<Marker(node)>> # <<>>
    BY <2>3, <2>5, <2>6, BatchOfMany
  <2>8. QED BY <2>1, <2>7
<1>4. QED BY <1>1, <1>2, <1>3

-----------------------------------------------------------------------------
(* The ends of a frame.                                                    *)

\* Each of the nodes has its end in a sequence of packets.
Ended(s, nodes) ==
    /\ IsFiniteSet(EndsOf(s)) /\ Cardinality(EndsOf(s)) = Cardinality(nodes)
    /\ \A n \in nodes : \E k \in EndsOf(s) :
          /\ s[k].node = n
          /\ \A j \in k + 1 .. Len(s) : s[j].node = n => j \in EndsOf(s)

\* A batch has one end more, its last packet.
LEMMA EndsMore ==
    ASSUME NEW s \in Seq(Packets), NEW node, NEW b, Batch(b, node), b # <<>>
    PROVE  LET t == s \o b
           IN  /\ t \in Seq(Packets) /\ Len(t) = Len(s) + Len(b) /\ Len(b) \in Nat \ {0}
               /\ \A k \in 1 .. Len(s) : t[k] = s[k]
               /\ \A k \in Len(s) + 1 .. Len(t) : t[k].node = node /\ t[k] # FramePackets
               /\ EndsOf(t) = EndsOf(s) \cup {Len(t)}
               /\ EndsOf(s) \subseteq 1 .. Len(s)
<1> DEFINE t == s \o b
<1>1. b \in Seq(Packets)
  BY DEF Batch
<1>2. t \in Seq(Packets) /\ Len(t) = Len(s) + Len(b) /\ Len(b) \in Nat \ {0} /\ Len(s) \in Nat
  BY <1>1
<1>3. \A k \in 1 .. Len(s) : t[k] = s[k]
  BY <1>1
<1>4. \A k \in Len(s) + 1 .. Len(t) : t[k] = b[k - Len(s)] /\ k - Len(s) \in 1 .. Len(b)
  BY <1>1, <1>2
<1>5. DOMAIN t = 1 .. Len(t) /\ DOMAIN s = 1 .. Len(s)
  BY <1>2
<1> HIDE DEF t
<1>6. \A k \in Len(s) + 1 .. Len(t) : t[k].node = node /\ t[k] # FramePackets
  BY <1>4 DEF Batch
<1>7. \A k \in Len(s) + 1 .. Len(t) : IsEnd(t[k]) <=> k = Len(t)
  <2> TAKE k \in Len(s) + 1 .. Len(t)
  <2>1. t[k] = b[k - Len(s)] /\ k - Len(s) \in 1 .. Len(b)
    BY <1>4
  <2>2. IsEnd(b[k - Len(s)]) <=> k - Len(s) = Len(b)
    BY <2>1 DEF Batch
  <2>3. k - Len(s) = Len(b) <=> k = Len(t)
    BY <1>2
  <2>4. QED BY <2>1, <2>2, <2>3
<1>8. EndsOf(s) \subseteq 1 .. Len(s)
  BY <1>5 DEF EndsOf
<1>9. EndsOf(t) = EndsOf(s) \cup {Len(t)}
  <2>1. ASSUME NEW k \in 1 .. Len(t) PROVE IsEnd(t[k]) <=> k \in EndsOf(s) \cup {Len(t)}
    <3>1. CASE k \in 1 .. Len(s)
      <4>1. k # Len(t)
        BY <1>2, <3>1
      <4>2. QED BY <1>3, <1>5, <3>1, <4>1 DEF EndsOf
    <3>2. CASE k \in Len(s) + 1 .. Len(t)
      <4>1. k \notin EndsOf(s)
        BY <1>2, <1>8, <3>2
      <4>2. QED BY <1>7, <3>2, <4>1
    <3>3. QED BY <1>2, <3>1, <3>2
  <2>2. Len(t) \in 1 .. Len(t) /\ EndsOf(s) \subseteq 1 .. Len(t)
    BY <1>2, <1>8
  <2>3. QED BY <1>5, <2>1, <2>2 DEF EndsOf
<1>10. QED BY <1>2, <1>3, <1>6, <1>8, <1>9 DEF t

LEMMA EndedMore ==
    ASSUME NEW s \in Seq(Packets), NEW done, IsFiniteSet(done), Ended(s, done),
           NEW node, node \notin done, NEW b, Batch(b, node), b # <<>>
    PROVE  Ended(s \o b, done \cup {node})
<1> DEFINE t == s \o b
           A == EndsOf(s)
<1>1. /\ Len(t) = Len(s) + Len(b) /\ Len(b) \in Nat \ {0} /\ Len(s) \in Nat
      /\ \A k \in 1 .. Len(s) : t[k] = s[k]
      /\ \A k \in Len(s) + 1 .. Len(t) : t[k].node = node
      /\ EndsOf(t) = A \cup {Len(t)} /\ A \subseteq 1 .. Len(s)
  BY EndsMore
<1>2. IsFiniteSet(A) /\ Cardinality(A) = Cardinality(done)
  BY DEF Ended
<1>3. \A n \in done : \E k \in A :
         s[k].node = n /\ \A j \in k + 1 .. Len(s) : s[j].node = n => j \in A
  BY DEF Ended
<1> HIDE DEF t, A
<1>4. Len(t) \notin A
  BY <1>1
<1>5. IsFiniteSet(EndsOf(t)) /\ Cardinality(EndsOf(t)) = Cardinality(done) + 1
  BY <1>1, <1>2, <1>4, FS_AddElement
<1>6. Cardinality(done \cup {node}) = Cardinality(done) + 1
  BY FS_AddElement
<1>7. ASSUME NEW n \in done \cup {node}
      PROVE  \E k \in EndsOf(t) : /\ t[k].node = n
                                  /\ \A j \in k + 1 .. Len(t) : t[j].node = n => j \in EndsOf(t)
  <2>1. CASE n = node
    <3>1. Len(t) \in EndsOf(t) /\ t[Len(t)].node = n /\ Len(t) + 1 .. Len(t) = {}
      BY <1>1, <2>1
    <3>2. QED BY <3>1
  <2>2. CASE n \in done
    <3>1. n # node
      BY <2>2
    <3>2. PICK k \in A : s[k].node = n /\ \A j \in k + 1 .. Len(s) : s[j].node = n => j \in A
      BY <1>3, <2>2
    <3>3. k \in EndsOf(t) /\ k \in 1 .. Len(s) /\ t[k].node = n
      BY <1>1, <3>2
    <3>4. ASSUME NEW j \in k + 1 .. Len(t), t[j].node = n PROVE j \in EndsOf(t)
      <4>1. CASE j \in k + 1 .. Len(s)
        <5>1. j \in 1 .. Len(s)
          BY <3>3, <4>1
        <5>2. QED BY <1>1, <3>2, <3>4, <4>1, <5>1
      <4>2. CASE j \in Len(s) + 1 .. Len(t)
        BY <1>1, <3>1, <3>4, <4>2
      <4>3. QED BY <1>1, <3>3, <4>1, <4>2
    <3>5. QED BY <3>3, <3>4
  <2>3. QED BY <2>1, <2>2
<1>8. QED BY <1>5, <1>6, <1>7 DEF Ended, t

\* The empty event after the last node, whichever node it names.
LEMMA FinalMarker ==
    ASSUME NEW s \in Seq(Packets), NEW nodes, IsFiniteSet(nodes), Ended(s, nodes),
           NEW last \in Nodes
    PROVE  LET t == s \o <<Marker(last)>>
           IN  /\ Cardinality(EndsOf(t)) = Cardinality(nodes) + 1
               /\ Len(t) \in EndsOf(t)
               /\ \A n \in nodes : \E k \in EndsOf(t) :
                     t[k].node = n /\ \A j \in k + 1 .. Len(t) : t[j].node = n => j \in EndsOf(t)
<1> DEFINE b == <<Marker(last)>>
           t == s \o b
           A == EndsOf(s)
<1>1. Batch(b, last) /\ b # <<>> /\ Len(b) = 1
  BY OneMarker
<1> HIDE DEF b
<1>2. /\ Len(t) = Len(s) + 1 /\ Len(s) \in Nat
      /\ \A k \in 1 .. Len(s) : t[k] = s[k]
      /\ EndsOf(t) = A \cup {Len(t)} /\ A \subseteq 1 .. Len(s)
  BY <1>1, EndsMore
<1>3. IsFiniteSet(A) /\ Cardinality(A) = Cardinality(nodes)
  BY DEF Ended
<1>4. \A n \in nodes : \E k \in A :
         s[k].node = n /\ \A j \in k + 1 .. Len(s) : s[j].node = n => j \in A
  BY DEF Ended
<1> HIDE DEF t, A
<1>5. Len(t) \notin A
  BY <1>2
<1>6. Cardinality(EndsOf(t)) = Cardinality(nodes) + 1
  BY <1>2, <1>3, <1>5, FS_AddElement
<1>7. ASSUME NEW n \in nodes
      PROVE  \E k \in EndsOf(t) :
               t[k].node = n /\ \A j \in k + 1 .. Len(t) : t[j].node = n => j \in EndsOf(t)
  <2>1. PICK k \in A : s[k].node = n /\ \A j \in k + 1 .. Len(s) : s[j].node = n => j \in A
    BY <1>4
  <2>2. k \in EndsOf(t) /\ k \in 1 .. Len(s) /\ t[k].node = n
    BY <1>2, <2>1
  <2>3. ASSUME NEW j \in k + 1 .. Len(t), t[j].node = n PROVE j \in EndsOf(t)
    <3>1. CASE j \in k + 1 .. Len(s)
      <4>1. j \in 1 .. Len(s)
        BY <2>2, <3>1
      <4>2. QED BY <1>2, <2>1, <2>3, <3>1, <4>1
    <3>2. CASE j = Len(t)
      BY <1>2, <3>2
    <3>3. QED BY <1>2, <2>2, <3>1, <3>2
  <2>4. QED BY <2>2, <2>3
<1>8. QED BY <1>2, <1>6, <1>7 DEF t, b

LEMMA NoEnds ==
    ASSUME NEW s, s = <<>> \/ s = <<HkPacket>>
    PROVE  s \in Seq(Packets) /\ FramePackets \notin Range(s) /\ Ended(s, {})
<1>1. HkPacket \in Packets
  BY DEF Packets
<1>2. ~IsEnd(HkPacket) /\ HkPacket # FramePackets
  BY DEF HkPacket, IsEnd, FramePackets
<1>3. s \in Seq(Packets)
  <2>1. <<>> \in Seq(Packets) /\ <<HkPacket>> \in Seq(Packets)
    BY <1>1
  <2>2. QED BY <2>1, Zenon
<1>4. \A k \in DOMAIN s : s[k] = HkPacket
  OBVIOUS
<1>5. FramePackets \notin Range(s)
  BY <1>2, <1>4 DEF Range
<1>6. EndsOf(s) = {}
  BY <1>2, <1>4 DEF EndsOf
<1>7. Ended(s, {})
  BY <1>6, FS_EmptySet DEF Ended
<1>8. QED BY <1>3, <1>5, <1>7

LEMMA NoFrame ==
    ASSUME NEW s \in Seq(Packets), FramePackets \notin Range(s), NEW node, NEW b, Batch(b, node)
    PROVE  s \o b \in Seq(Packets) /\ FramePackets \notin Range(s \o b)
<1>1. b \in Seq(Packets) /\ \A k \in 1 .. Len(b) : b[k] # FramePackets
  BY DEF Batch
<1>2. \A k \in 1 .. Len(s) : s[k] # FramePackets
  BY DEF Range
<1>3. s \o b \in Seq(Packets) /\ Len(s \o b) = Len(s) + Len(b) /\ Len(s) \in Nat /\ Len(b) \in Nat
  BY <1>1
<1>4. ASSUME NEW k \in 1 .. Len(s \o b) PROVE (s \o b)[k] # FramePackets
  <2>1. CASE k \in 1 .. Len(s)
    BY <1>1, <1>2, <2>1
  <2>2. CASE k \in Len(s) + 1 .. Len(s) + Len(b)
    <3>1. k - Len(s) \in 1 .. Len(b) /\ (s \o b)[k] = b[k - Len(s)]
      BY <1>1, <1>3, <2>2
    <3>2. QED BY <1>1, <3>1
  <2>3. QED BY <1>3, <2>1, <2>2
<1>5. DOMAIN (s \o b) = 1 .. Len(s \o b)
  BY <1>3
<1>6. QED BY <1>3, <1>4, <1>5 DEF Range

\* Of the nodes to be read out each is there once; the others are done.
Members(s) == {s[k] : k \in DOMAIN s}
Distinct(s) == \A i, j \in DOMAIN s : s[i] = s[j] => i = j

ToDo == Members(todo)
Done == settings.nodes \ ToDo

Once == Distinct(todo)

Sending == sent \in Seq(Packets)

On == reg_21.event_detection

\* So far each node that is done has its end, and there is no image.
EndsSoFar ==
    pc = "node" /\ ~touched =>
        FramePackets \notin Range(sent) /\ (On => Ended(sent, Done))

FrameInv == Once /\ Sending /\ EndsSoFar /\ FrameEnds

LEMMA HeadDone ==
    ASSUME NEW nodes, NEW s \in Seq(nodes), s # <<>>, Distinct(s)
    PROVE  /\ Head(s) \in nodes /\ Head(s) \in Members(s) /\ Members(s) \subseteq nodes
           /\ Members(Tail(s)) = Members(s) \ {Head(s)} /\ Distinct(Tail(s))
<1> DEFINE t == Tail(s)
<1>1. Len(s) \in Nat \ {0} /\ DOMAIN s = 1 .. Len(s) /\ Head(s) = s[1] /\ s[1] \in nodes
  OBVIOUS
<1>2. t \in Seq(nodes) /\ Len(t) = Len(s) - 1 /\ DOMAIN t = 1 .. Len(t)
  OBVIOUS
<1>3. \A k \in 1 .. Len(t) : t[k] = s[k + 1] /\ k + 1 \in DOMAIN s
  BY <1>1, <1>2
<1> HIDE DEF t
<1>4. ASSUME NEW k \in 2 .. Len(s) PROVE \E i \in 1 .. Len(t) : t[i] = s[k]
  <2>1. k - 1 \in 1 .. Len(t) /\ (k - 1) + 1 = k
    BY <1>1, <1>2
  <2>2. t[k - 1] = s[k]
    BY <1>3, <2>1
  <2>3. QED BY <2>1, <2>2
<1>5. Members(t) = Members(s) \ {Head(s)}
  <2>1. ASSUME NEW k \in DOMAIN t PROVE t[k] \in Members(s) \ {Head(s)}
    <3>1. t[k] = s[k + 1] /\ k + 1 \in DOMAIN s /\ k + 1 # 1
      BY <1>2, <1>3
    <3>2. s[k + 1] # s[1]
      BY <1>1, <3>1 DEF Distinct
    <3>3. QED BY <1>1, <3>1, <3>2 DEF Members
  <2>2. ASSUME NEW k \in DOMAIN s, s[k] # Head(s) PROVE s[k] \in Members(t)
    <3>1. k \in 2 .. Len(s)
      BY <1>1, <2>2
    <3>2. QED BY <1>2, <1>4, <3>1 DEF Members
  <2>3. QED BY <2>1, <2>2 DEF Members
<1>6. ASSUME NEW i \in DOMAIN t, NEW j \in DOMAIN t, t[i] = t[j] PROVE i = j
  <2>1. s[i + 1] = s[j + 1] /\ i + 1 \in DOMAIN s /\ j + 1 \in DOMAIN s
    BY <1>2, <1>3, <1>6
  <2>2. i + 1 = j + 1
    BY <2>1 DEF Distinct
  <2>3. QED BY <1>2, <2>2
<1>7. Distinct(t)
  BY <1>6 DEF Distinct
<1>8. Head(s) \in Members(s) /\ Members(s) \subseteq nodes
  BY <1>1 DEF Members
<1>9. QED BY <1>1, <1>5, <1>7, <1>8 DEF t

LEMMA FrameInit == Init => FrameInv
<1> SUFFICES ASSUME Init PROVE FrameInv
  OBVIOUS
<1>1. todo = <<>> /\ sent = <<>> /\ pc = "poll"
  BY DEF Init
<1>2. Once
  BY <1>1 DEF Once, Distinct
<1>3. EndsSoFar /\ FrameEnds
  BY <1>1 DEF EndsSoFar, FrameEnds
<1>4. Sending
  BY <1>1 DEF Sending
<1>5. QED BY <1>2, <1>3, <1>4 DEF FrameInv

LEMMA NodesFinite ==
    ASSUME NEW S \in SUBSET Nodes
    PROVE  IsFiniteSet(S)
<1>1. IsFiniteSet(Nodes)
  <2>1. IsFiniteSet({"E2"})
    BY FS_Singleton
  <2>2. IsFiniteSet({"E2"} \cup {"F2"} \cup {"E4"} \cup {"F4"})
    <3>1. IsFiniteSet({"E2"} \cup {"F2"})
      BY <2>1, FS_AddElement
    <3>2. IsFiniteSet({"E2"} \cup {"F2"} \cup {"E4"})
      BY <3>1, FS_AddElement
    <3>3. QED BY <3>2, FS_AddElement
  <2>3. Nodes = {"E2"} \cup {"F2"} \cup {"E4"} \cup {"F4"}
    BY DEF Nodes
  <2>4. QED BY <2>2, <2>3
<1>2. QED BY <1>1, FS_Subset

\* A node is read out.
LEMMA FrameReadout == Types /\ FrameInv /\ Readout => FrameInv'
<1> SUFFICES ASSUME Types, FrameInv, Readout PROVE FrameInv'
  OBVIOUS
<1> DEFINE node == Head(todo)
           w == IF settings.wmask_en THEN wmask ELSE <<>>
           E == EventsIn[settings][scene][node]
           c == Ccd(node)
           b == DetectEvents(node, E, ev_cnt[c], On, w).pkts
<1>1. /\ todo \in Seq(settings.nodes) /\ todo # <<>> /\ settings.nodes \subseteq Nodes
      /\ Distinct(todo)
  BY SettingsType DEF Readout, Types, Nodewise, FrameInv, Once, Given
<1>2. /\ node \in settings.nodes /\ node \in ToDo /\ ToDo \subseteq settings.nodes
      /\ Members(Tail(todo)) = ToDo \ {node} /\ Distinct(Tail(todo))
  BY <1>1, HeadDone DEF ToDo
<1>3. E \in SUBSET Window /\ node \in Nodes
  BY <1>1, <1>2, EventsInWindow DEF Types, Given
<1>4. ev_cnt[c] \in Nat
  <2>1. c \in {"CCD2", "CCD4"}
    BY DEF Ccd
  <2>2. settings.limit \in Nat
    BY SettingsType DEF Types, Given
  <2>3. QED BY <2>1, <2>2 DEF Types, Nodewise
<1>5. On \in BOOLEAN
  BY DEF Types, Register, Word, On
<1>6. sent' = sent \o b /\ todo' = Tail(todo) /\ UNCHANGED <<settings, touched, reg_21>> /\ pc = "node" /\ pc' = "node"
  BY Zenon DEF Readout, registers, On
<1> HIDE DEF node, w, E, c
<1>7. Batch(b, node) /\ (On => b # <<>>)
  BY <1>3, <1>4, <1>5, DetectBatch
<1> HIDE DEF b
<1>8. Once'
  BY <1>2, <1>6 DEF Once
<1>9. sent \in Seq(Packets)
  BY DEF FrameInv, Sending
<1>10. Sending'
  <2>1. b \in Seq(Packets)
    BY <1>7 DEF Batch
  <2>2. QED BY <1>6, <1>9, <2>1 DEF Sending
<1>11. Done' = Done \cup {node} /\ node \notin Done /\ IsFiniteSet(Done)
  <2>1. ToDo' = ToDo \ {node} /\ settings' = settings
    BY <1>2, <1>6 DEF ToDo
  <2>2. IsFiniteSet(Done)
    BY <1>1, NodesFinite DEF Done
  <2>3. QED BY <1>2, <2>1, <2>2 DEF Done
<1>12. EndsSoFar'
  <2> SUFFICES ASSUME ~touched' PROVE FramePackets \notin Range(sent') /\ (On' => Ended(sent', Done'))
    BY DEF EndsSoFar
  <2>1. ~touched
    BY <1>6
  <2>2. FramePackets \notin Range(sent) /\ (On => Ended(sent, Done))
    BY <1>6, <2>1 DEF FrameInv, EndsSoFar
  <2>3. FramePackets \notin Range(sent')
    BY <1>6, <1>7, <1>9, <2>2, NoFrame
  <2>4. On' => On
    BY <1>6, Zenon DEF On
  <2>5. ASSUME On PROVE Ended(sent', Done')
    BY <1>6, <1>7, <1>9, <1>11, <2>2, <2>5, EndedMore
  <2>6. QED BY <2>3, <2>4, <2>5
<1>13. FrameEnds'
  BY <1>6 DEF FrameEnds
<1>14. QED BY <1>8, <1>10, <1>12, <1>13 DEF FrameInv

\* An execution begins: nothing is done, and what is sent has no end.
LEMMA FrameExec == Types /\ Exec => FrameInv'
<1> SUFFICES ASSUME Types, Exec PROVE FrameInv'
  OBVIOUS
<1>1. settings.nodes \subseteq Nodes /\ settings' = settings
  BY SettingsType DEF Types, Given, Exec
<1>2. Lists(InOrder(settings.nodes), settings.nodes)
  BY <1>1, InOrderShape
<1>3. pc' = "node" => reg_21.mode \in {"FT", "EVSIM"}
  BY DEF Exec
<1>4. pc' = "move" => mode' \notin Scanned
  BY DEF Exec, Scanned
<1>5. todo' = InOrder(settings.nodes) \/ todo' = <<>>
  BY Zenon DEF Exec
<1>6. Once'
  <2>1. Distinct(InOrder(settings.nodes)) /\ Distinct(<<>>)
    BY <1>2 DEF Lists, Distinct
  <2>2. QED BY <1>5, <2>1 DEF Once
<1>7. sent' = <<>> \/ sent' = <<HkPacket>> \/ sent' = <<HkPacket, FramePackets>>
  BY Zenon DEF Exec
<1>8. Sending'
  <2>1. HkPacket \in Packets /\ FramePackets \in Packets
    BY DEF Packets
  <2>2. <<>> \in Seq(Packets) /\ <<HkPacket>> \in Seq(Packets)
        /\ <<HkPacket, FramePackets>> \in Seq(Packets)
    BY <2>1
  <2>3. QED BY <1>7, <2>2, Zenon DEF Sending
<1>9. EndsSoFar'
  <2> SUFFICES ASSUME pc' = "node" PROVE FramePackets \notin Range(sent') /\ Ended(sent', Done')
    BY DEF EndsSoFar
  <2>1. sent' = <<>> \/ sent' = <<HkPacket>>
    BY <1>3 DEF Exec
  <2>2. todo' = InOrder(settings.nodes)
    BY <1>3 DEF Exec
  <2>3. Members(todo') = settings.nodes
    BY <1>2, <2>2 DEF Lists, Members
  <2>4. Done' = {}
    BY <1>1, <2>3 DEF Done, ToDo
  <2>5. QED BY <2>1, <2>4, NoEnds
<1>10. FrameEnds'
  BY <1>4 DEF FrameEnds
<1>11. QED BY <1>6, <1>8, <1>9, <1>10 DEF FrameInv

LEMMA EndMarkerShape ==
    ASSUME NEW nodes \in SUBSET Nodes
    PROVE  \E n \in Nodes : Marker(IF InOrder(nodes) = <<>> THEN "F2" ELSE Last(InOrder(nodes)))
                            = Marker(n)
<1>1. InOrder(nodes) \in Seq(nodes)
  BY InOrderShape DEF Lists
<1> DEFINE s == InOrder(nodes)
<1> HIDE DEF s
<1>2. CASE s = <<>>
  BY <1>2 DEF s, Nodes
<1>3. CASE s # <<>>
  <2>1. s \in Seq(nodes)
    BY <1>1 DEF s
  <2>2. Last(s) = s[Len(s)]
    BY DEF Last
  <2>3. Len(s) \in 1 .. Len(s)
    BY <1>3, <2>1
  <2>4. Last(s) \in Nodes
    BY <2>1, <2>2, <2>3
  <2>5. QED BY <1>3, <2>4 DEF s
<1>4. QED BY <1>2, <1>3

\* The last node is read out: the frame ends.
LEMMA FrameFinish == Types /\ FrameInv /\ Finish => FrameInv'
<1> SUFFICES ASSUME Types, FrameInv, Finish PROVE FrameInv'
  OBVIOUS
<1>1. /\ pc = "node" /\ pc' = "move" /\ todo = <<>>
      /\ UNCHANGED <<settings, mode, todo, reg_21, touched>>
  BY DEF Finish, registers
<1>2. settings.nodes \subseteq Nodes /\ mode \in {"FT", "EVSIM"}
  BY <1>1, SettingsType DEF Types, Given, Control, Scanned
<1>3. sent \in Seq(Packets)
  BY DEF FrameInv, Sending
<1>4. PICK last \in Nodes : EndMarker = Marker(last)
  BY <1>2, EndMarkerShape DEF EndMarker
<1>5. Marker(last) \in Packets /\ HkPacket \in Packets /\ FramePackets \in Packets
  BY MarkerShape DEF Packets
<1>6. sent' = sent \o <<EndMarker>> \/ sent' = sent \o <<HkPacket, FramePackets>> \/ sent' = sent \o <<>>
  BY Zenon DEF Finish
<1>7. Sending'
  <2>1. sent \o <<Marker(last)>> \in Seq(Packets) /\ sent \o <<>> \in Seq(Packets)
    BY <1>3, <1>5
  <2>2. sent \o <<HkPacket, FramePackets>> \in Seq(Packets)
    BY <1>3, <1>5
  <2>3. QED BY <1>4, <1>6, <2>1, <2>2, Zenon DEF Sending
<1>8. Once' /\ EndsSoFar'
  BY <1>1 DEF FrameInv, Once, EndsSoFar
<1>9. Done = settings.nodes
  BY <1>1 DEF Done, ToDo, Members
<1>10. FrameEnds'
  <2> SUFFICES ASSUME ~touched' PROVE FrameEnds'
    BY DEF FrameEnds
  <2>1. FramePackets \notin Range(sent) /\ (On => Ended(sent, settings.nodes))
    BY <1>1, <1>9 DEF FrameInv, EndsSoFar
  <2>2. CASE On
    <3>1. sent' = sent \o <<Marker(last)>>
      BY <1>4, <2>2, Zenon DEF Finish, On
    <3>2. IsFiniteSet(settings.nodes)
      BY <1>2, NodesFinite
    <3>3. /\ Cardinality(EndsOf(sent')) = Cardinality(settings.nodes) + 1
          /\ Len(sent') \in EndsOf(sent')
          /\ \A n \in settings.nodes : \E k \in EndsOf(sent') :
                /\ sent'[k].node = n
                /\ \A j \in k + 1 .. Len(sent') : sent'[j].node = n => j \in EndsOf(sent')
      BY <1>3, <2>1, <2>2, <3>1, <3>2, FinalMarker
    <3>4. FramePackets \notin Range(sent')
      BY <1>3, <2>1, <3>1, OneMarker, NoFrame
    <3>5. Ends' = EndsOf(sent')
      BY Zenon DEF Ends, EndsOf, IsEnd
    <3>6. reg_21'.event_detection /\ settings' = settings
      BY <1>1, <2>2, Zenon DEF On
    <3>7. QED BY <3>3, <3>4, <3>5, <3>6, Zenon DEF FrameEnds
  <2>3. CASE ~On
    <3>1. ~reg_21'.event_detection /\ mode' = mode /\ settings' = settings
      BY <1>1, <2>3, Zenon DEF On
    <3>2. SUFFICES ASSUME mode = "FT"
                   PROVE  FramePackets \in Range(sent')
                            <=> settings.digitise_en /\ Last(sent') = FramePackets
      BY <3>1, Zenon DEF FrameEnds
    <3>3. CASE settings.digitise_en
      <4>1. sent' = sent \o <<HkPacket, FramePackets>>
        BY <2>3, <3>2, <3>3 DEF Finish, On
      <4>2. sent' \in Seq(Packets) /\ Len(sent') = Len(sent) + 2 /\ Len(sent) \in Nat
            /\ sent'[Len(sent) + 2] = FramePackets
        BY <1>3, <1>5, <4>1
      <4>3. Last(sent') = FramePackets /\ Len(sent') \in DOMAIN sent'
        BY <4>2 DEF Last
      <4>4. FramePackets \in Range(sent')
        BY <4>2, <4>3 DEF Range
      <4>5. QED BY <3>3, <4>3, <4>4
    <3>4. CASE ~settings.digitise_en
      <4>1. sent' = sent \o <<>>
        BY <2>3, <3>2, <3>4 DEF Finish, On
      <4>2. sent' = sent
        BY <1>3, <4>1
      <4>3. QED BY <2>1, <3>4, <4>2
    <3>5. QED BY <3>3, <3>4
  <2>4. QED BY <2>2, <2>3
<1>11. QED BY <1>7, <1>8, <1>10 DEF FrameInv

\* Outside of an execution's readout nothing of this changes; a client that
\* changes event_detection in it is remembered.
LEMMA FrameKept ==
    ASSUME UNCHANGED <<todo, sent, settings, mode, touched>>,
           pc' \in {"node", "move"} => pc' = pc /\ (~touched' => On' = On),
           FrameInv
    PROVE  FrameInv'
<1>1. Once' /\ Sending'
  BY DEF FrameInv, Once, Sending
<1>2. EndsSoFar'
  BY DEF FrameInv, EndsSoFar, Done, ToDo
<1>3. FrameEnds'
  <2> SUFFICES ASSUME pc' = "move", mode' \in Scanned, ~touched' PROVE FrameEnds'
    BY DEF FrameEnds
  <2>1. pc = "move" /\ mode \in Scanned /\ ~touched /\ On' = On
    OBVIOUS
  <2>2. Ends' = Ends
    BY DEF Ends
  <2>3. CASE reg_21.event_detection
    <3>1. reg_21'.event_detection
      BY <2>1, <2>3, Zenon DEF On
    <3>2. /\ Cardinality(Ends) = Cardinality(settings.nodes) + 1
          /\ Len(sent) \in Ends /\ FramePackets \notin Range(sent)
          /\ \A n \in settings.nodes : \E k \in Ends :
                sent[k].node = n /\ \A j \in k + 1 .. Len(sent) : sent[j].node = n => j \in Ends
      BY <2>1, <2>3, Zenon DEF FrameInv, FrameEnds
    <3>3. QED BY <2>2, <3>1, <3>2, Zenon DEF FrameEnds
  <2>4. CASE ~reg_21.event_detection
    <3>1. ~reg_21'.event_detection
      BY <2>1, <2>4, Zenon DEF On
    <3>2. mode = "FT" => (FramePackets \in Range(sent)
                            <=> settings.digitise_en /\ Last(sent) = FramePackets)
      BY <2>1, <2>4, Zenon DEF FrameInv, FrameEnds
    <3>3. QED BY <3>1, <3>2, Zenon DEF FrameEnds
  <2>5. QED BY <2>3, <2>4
<1>4. QED BY <1>1, <1>2, <1>3 DEF FrameInv

LEMMA FrameStep == Types /\ FrameInv /\ [Next]_vars => FrameInv'
<1> SUFFICES ASSUME Types, FrameInv, [Next]_vars PROVE FrameInv'
  OBVIOUS
<1> USE DEF registers, execution
<1>1. ASSUME WriteExecuteOp \/ WriteSync PROVE FrameInv'
  <2>1. UNCHANGED <<todo, sent, settings, mode, touched, pc>> /\ On' = On
    BY <1>1 DEF WriteExecuteOp, WriteSync, Write, On
  <2>2. QED BY <2>1, FrameKept
<1>2. ASSUME WriteMode PROVE FrameInv'
  <2>1. UNCHANGED <<todo, sent, settings, mode, pc>>
    BY <1>2 DEF WriteMode, Write
  <2>2. CASE On' = On
    <3>1. touched' = (touched \/ FALSE)
      BY <1>2, <2>2, Zenon DEF WriteMode, On
    <3>2. touched \in BOOLEAN
      BY DEF Types, Flags
    <3>3. touched' = touched
      BY <3>1, <3>2
    <3>4. QED BY <2>1, <2>2, <3>3, FrameKept
  <2>3. CASE On' # On
    <3>1. touched'
      BY <1>2, <2>3, Zenon DEF WriteMode, On
    <3>2. Once' /\ Sending'
      BY <2>1 DEF FrameInv, Once, Sending
    <3>3. EndsSoFar' /\ FrameEnds'
      BY <3>1 DEF EndsSoFar, FrameEnds
    <3>4. QED BY <3>2, <3>3 DEF FrameInv
  <2>4. QED BY <2>2, <2>3
<1>3. ASSUME Poll \/ Clear \/ Move PROVE FrameInv'
  <2>1. UNCHANGED <<todo, sent, settings, mode, touched>> /\ pc' \notin {"node", "move"}
    BY <1>3 DEF Poll, Clear, Move
  <2>2. QED BY <2>1, FrameKept
<1>4. ASSUME Sync \/ Wait \/ Check \/ Load \/ Store \/ Sleep \/ Again PROVE FrameInv'
  <2>1. UNCHANGED <<todo, sent, settings, mode, touched>> /\ pc' \notin {"node", "move"}
    BY <1>4 DEF Sync, Wait, Check, Load, Store, Sleep, Again, Goto
  <2>2. QED BY <2>1, FrameKept
<1>5. ASSUME UNCHANGED vars PROVE FrameInv'
  <2>1. UNCHANGED <<todo, sent, settings, mode, touched, pc>> /\ On' = On
    BY <1>5 DEF vars, On
  <2>2. QED BY <2>1, FrameKept
<1>6. QED BY <1>1, <1>2, <1>3, <1>4, <1>5, FrameExec, FrameReadout, FrameFinish
          DEF Next, MainLoop, Client

\* With event detection on throughout, each node's packets end with its own
\* end marker, the frame with one more, and no image is sent; with it off the
\* image goes out last and exactly when digitise_en is set.
THEOREM FrameEndsCorrect == Spec => []FrameEnds
<1>1. FrameInv => FrameEnds
  BY DEF FrameInv
<1>2. QED BY TypesInit, TypesNext, FrameInit, FrameStep, <1>1, PTL DEF Spec

-----------------------------------------------------------------------------
(* Places: an index and its row and column determine each other.           *)

LEMMA Division ==
    ASSUME NEW d \in Nat \ {0}, NEW r \in Nat, NEW c \in 0 .. d - 1
    PROVE  (r * d + c) \div d = r /\ (r * d + c) % d = c
OBVIOUS

Spot(i) == <<Place(i).row, Place(i).col>>
Spots(pixels) == {Spot(i) : i \in pixels}

LEMMA PlacesInWindow ==
    /\ \A r \in 2 .. ROWS - 3, c \in 2 .. COLS - 3 :
          r * COLS + c \in Window /\ Spot(r * COLS + c) = <<r, c>>
    /\ \A i, j \in Window : Spot(i) = Spot(j) => i = j
<1>1. ROWS \in Nat /\ COLS \in Nat \ {0}
  BY EventDetectionAssumption
<1>2. ASSUME NEW r \in 2 .. ROWS - 3, NEW c \in 2 .. COLS - 3
      PROVE  r * COLS + c \in Window /\ Spot(r * COLS + c) = <<r, c>>
  <2>1. r * COLS + c \in Window
    BY DEF Window
  <2>2. r \in Nat /\ c \in 0 .. COLS - 1
    BY <1>1
  <2>3. (r * COLS + c) \div COLS = r /\ (r * COLS + c) % COLS = c
    BY <1>1, <2>2, Division
  <2>4. QED BY <2>1, <2>3 DEF Spot, Place
<1>3. ASSUME NEW i \in Window, NEW j \in Window, Spot(i) = Spot(j) PROVE i = j
  <2>1. PICK r \in 2 .. ROWS - 3, c \in 2 .. COLS - 3 : i = r * COLS + c
    BY DEF Window
  <2>2. PICK q \in 2 .. ROWS - 3, d \in 2 .. COLS - 3 : j = q * COLS + d
    BY DEF Window
  <2>3. <<r, c>> = <<q, d>>
    BY <1>2, <1>3, <2>1, <2>2
  <2>4. QED BY <2>1, <2>2, <2>3
<1>4. QED BY <1>2, <1>3

LEMMA SpotsCounted ==
    ASSUME NEW S \in SUBSET Window, NEW node
    PROVE  IsFiniteSet({node} \X Spots(S)) /\ Cardinality({node} \X Spots(S)) = Cardinality(S)
<1> DEFINE f == [i \in S |-> <<node, Spot(i)>>]
           T == {node} \X Spots(S)
<1>1. IsFiniteSet(S)
  BY WindowFinite, FS_Subset
<1>2. \A i, j \in S : f[i] = f[j] => i = j
  BY PlacesInWindow
<1>3. f \in [S -> T]
  BY DEF Spots
<1>4. ASSUME NEW t \in T PROVE \E i \in S : f[i] = t
  <2>1. t = <<node, t[2]>> /\ t[2] \in Spots(S)
    OBVIOUS
  <2>2. PICK i \in S : t[2] = Spot(i)
    BY <2>1 DEF Spots
  <2>3. f[i] = t
    BY <2>1, <2>2
  <2>4. QED BY <2>3
<1> HIDE DEF f, T
<1>5. f \in Injection(S, T)
  BY <1>2, <1>3 DEF Injection, IsInjective
<1>6. f \in Surjection(S, T)
  BY <1>3, <1>4 DEF Surjection
<1>7. IsFiniteSet(T) /\ Cardinality(T) = Cardinality(S)
  BY <1>1, <1>5, <1>6, FS_Surjection
<1>8. QED BY <1>7 DEF T

-----------------------------------------------------------------------------
(* What packets show: the places of a node's events or masks.              *)

IsShown(p, type, node) == p.type = type /\ p.node = node /\ ~p.last
Shown(s, type, node) == {<<s[k].row, s[k].col>> : k \in {j \in DOMAIN s : IsShown(s[j], type, node)}}

Kinds == {"EV_DET", "WMASK"}

LEMMA ShownMore ==
    ASSUME NEW s \in Seq(Packets), NEW b \in Seq(Packets), NEW type, NEW node
    PROVE  Shown(s \o b, type, node) = Shown(s, type, node) \cup Shown(b, type, node)
<1> DEFINE t == s \o b
           spot(p) == <<p.row, p.col>>
<1>1. DOMAIN t = 1 .. Len(s) + Len(b) /\ DOMAIN s = 1 .. Len(s) /\ DOMAIN b = 1 .. Len(b)
      /\ Len(s) \in Nat /\ Len(b) \in Nat
  OBVIOUS
<1>2. \A k \in 1 .. Len(s) : t[k] = s[k]
  OBVIOUS
<1>3. \A k \in 1 .. Len(b) : t[Len(s) + k] = b[k] /\ Len(s) + k \in DOMAIN t
  BY <1>1
<1>4. \A k \in DOMAIN t : k \in 1 .. Len(s) \/ (k - Len(s) \in 1 .. Len(b) /\ t[k] = b[k - Len(s)])
  BY <1>1
<1> HIDE DEF t
<1>5. ASSUME NEW k \in DOMAIN t, IsShown(t[k], type, node)
      PROVE  spot(t[k]) \in Shown(s, type, node) \cup Shown(b, type, node)
  <2>1. CASE k \in 1 .. Len(s)
    BY <1>1, <1>2, <1>5, <2>1 DEF Shown
  <2>2. CASE k - Len(s) \in 1 .. Len(b) /\ t[k] = b[k - Len(s)]
    BY <1>1, <1>5, <2>2 DEF Shown
  <2>3. QED BY <1>4, <2>1, <2>2
<1>6. ASSUME NEW k \in DOMAIN s, IsShown(s[k], type, node)
      PROVE  spot(s[k]) \in Shown(t, type, node)
  <2>1. t[k] = s[k] /\ k \in DOMAIN t
    BY <1>1, <1>2
  <2>2. QED BY <1>6, <2>1 DEF Shown
<1>7. ASSUME NEW k \in DOMAIN b, IsShown(b[k], type, node)
      PROVE  spot(b[k]) \in Shown(t, type, node)
  <2>1. t[Len(s) + k] = b[k] /\ Len(s) + k \in DOMAIN t
    BY <1>1, <1>3
  <2>2. QED BY <1>7, <2>1 DEF Shown
<1>8. Shown(t, type, node) = Shown(s, type, node) \cup Shown(b, type, node)
  BY <1>5, <1>6, <1>7 DEF Shown
<1>9. QED BY <1>8 DEF t

\* The marker of an end, the housekeeping data and the image show nothing.
LEMMA NothingShown ==
    ASSUME NEW s, NEW type \in Kinds, NEW node,
           \A k \in DOMAIN s : IsEnd(s[k]) \/ s[k] \in {HkPacket, FramePackets}
    PROVE  Shown(s, type, node) = {}
<1>1. \A p : IsEnd(p) => ~IsShown(p, type, node)
  BY Zenon DEF IsEnd, IsShown
<1>2. \A p \in {HkPacket, FramePackets} : ~IsShown(p, type, node)
  BY DEF HkPacket, FramePackets, IsShown, Kinds
<1>3. QED BY <1>1, <1>2 DEF Shown

LEMMA FoundShown ==
    ASSUME NEW type \in Kinds, NEW node, NEW i
    PROVE  /\ <<Found(type, node, i).row, Found(type, node, i).col>> = Spot(i)
           /\ \A t, n : IsShown(Found(type, node, i), t, n) <=> (t = type /\ n = node)
<1>1. Found(type, node, i).row = Place(i).row /\ Found(type, node, i).col = Place(i).col
  BY Zenon DEF Found, EvPacket
<1>2. \A t, n : IsShown(Found(type, node, i), t, n) <=> (t = type /\ n = node)
  BY Zenon DEF Found, EvPacket, IsShown
<1>3. QED BY <1>1, <1>2 DEF Spot

Enumerates(order, n, all) ==
    /\ n \in Nat /\ order \in [1 .. n -> all]
    /\ \A i \in all : \E k \in 1 .. n : order[k] = i

PacketsOf(order, n, ev, node) ==
    [k \in 1 .. n |-> Found(IF order[k] \in ev THEN "EV_DET" ELSE "WMASK", node, order[k])]

Shows(s, node, ev, mask) ==
    /\ Shown(s, "EV_DET", node) = Spots(ev) /\ Shown(s, "WMASK", node) = Spots(mask)
    /\ \A type \in Kinds : \A m : m # node => Shown(s, type, m) = {}

\* The packets of the pixels show the places of those sent as the kind asked for.
LEMMA ManyShown ==
    ASSUME NEW node \in Nodes, NEW all \in SUBSET Nat, NEW ev \in SUBSET all,
           NEW n, NEW order, Enumerates(order, n, all)
    PROVE  Shows(PacketsOf(order, n, ev, node), node, ev, all \ ev)
<1> DEFINE f == PacketsOf(order, n, ev, node)
           kind(i) == IF i \in ev THEN "EV_DET" ELSE "WMASK"
           sort(type) == IF type = "EV_DET" THEN ev ELSE all \ ev
<1>0. n \in Nat /\ order \in [1 .. n -> all] /\ \A i \in all : \E k \in 1 .. n : order[k] = i
  BY DEF Enumerates
<1>1. \A type \in Kinds, i \in all : kind(i) \in Kinds /\ (kind(i) = type <=> i \in sort(type))
  BY DEF Kinds
<1>2. DOMAIN f = 1 .. n /\ \A k \in 1 .. n : f[k] = Found(kind(order[k]), node, order[k])
  BY DEF PacketsOf
<1>3. \A type : sort(type) \subseteq all
  OBVIOUS
<1>4. sort("EV_DET") = ev /\ sort("WMASK") = all \ ev /\ "EV_DET" \in Kinds /\ "WMASK" \in Kinds
  BY DEF Kinds
<1> HIDE DEF f, kind, sort
<1>5. ASSUME NEW type \in Kinds, NEW k \in 1 .. n
      PROVE  /\ <<f[k].row, f[k].col>> = Spot(order[k])
             /\ \A m : IsShown(f[k], type, m) <=> (order[k] \in sort(type) /\ m = node)
  <2>1. order[k] \in all /\ kind(order[k]) \in Kinds
        /\ (kind(order[k]) = type <=> order[k] \in sort(type))
    BY <1>0, <1>1
  <2>2. f[k] = Found(kind(order[k]), node, order[k])
    BY <1>2
  <2>3. <<f[k].row, f[k].col>> = Spot(order[k])
        /\ \A t, m : IsShown(f[k], t, m) <=> (t = kind(order[k]) /\ m = node)
    BY <2>1, <2>2, FoundShown
  <2>4. QED BY <2>1, <2>3
<1>6. ASSUME NEW type \in Kinds PROVE Shown(f, type, node) = Spots(sort(type))
  <2>1. ASSUME NEW k \in 1 .. n, IsShown(f[k], type, node)
        PROVE  <<f[k].row, f[k].col>> \in Spots(sort(type))
    BY <1>5, <2>1 DEF Spots
  <2>2. ASSUME NEW i \in sort(type) PROVE Spot(i) \in Shown(f, type, node)
    <3>1. PICK k \in 1 .. n : order[k] = i
      BY <1>0, <1>3
    <3>2. IsShown(f[k], type, node) /\ <<f[k].row, f[k].col>> = Spot(i)
      BY <1>5, <3>1
    <3>3. QED BY <1>2, <3>2 DEF Shown
  <2>3. Shown(f, type, node) \subseteq Spots(sort(type))
    BY <1>2, <2>1 DEF Shown
  <2>4. Spots(sort(type)) \subseteq Shown(f, type, node)
    BY <2>2 DEF Spots
  <2>5. QED BY <2>3, <2>4
<1>7. ASSUME NEW type \in Kinds, NEW m, m # node PROVE Shown(f, type, m) = {}
  BY <1>2, <1>5, <1>7 DEF Shown
<1>8. QED BY <1>4, <1>6, <1>7 DEF f, Shows

\* What one call shows and what it leaves: with detection on and something
\* left the events before the limit and the mask, else nothing.
DetectedAll(pkts, left, node, found, m) ==
    /\ Shown(pkts, "EV_DET", node) = Spots(found.ev)
    /\ Shown(pkts, "WMASK", node) = Spots(found.mask)
    /\ left = m - Cardinality(found.ev)

DetectedNone(pkts, left, node) ==
    /\ Shown(pkts, "EV_DET", node) = {} /\ Shown(pkts, "WMASK", node) = {}
    /\ left = 0

LEMMA DetectShown ==
    ASSUME NEW node \in Nodes, NEW E \in SUBSET Window, NEW m \in Nat,
           NEW on \in BOOLEAN, NEW w
    PROVE  LET res == DetectEvents(node, E, m, on, w)
           IN  /\ m > 0 /\ on => DetectedAll(res.pkts, res.left, node, Detected(E, m, w), m)
               /\ ~(m > 0 /\ on) => DetectedNone(res.pkts, res.left, node)
               /\ \A type \in Kinds : \A n : n # node => Shown(res.pkts, type, n) = {}
<1> DEFINE res == DetectEvents(node, E, m, on, w)
           mark == <<Marker(node)>>
<1>0. \A type \in Kinds : \A n : Shown(mark, type, n) = {} /\ Shown(<<>>, type, n) = {}
  <2>1. \A k \in DOMAIN mark : IsEnd(mark[k])
    BY MarkerShape
  <2>2. QED BY <2>1, NothingShown
<1>k. "EV_DET" \in Kinds /\ "WMASK" \in Kinds
  BY DEF Kinds
<1>1. CASE m = 0
  <2>1. res.pkts = mark /\ res.left = 0
    BY <1>1 DEF DetectEvents
  <2>2. QED BY <1>0, <1>k, <1>1, <2>1 DEF DetectedNone
<1>2. CASE m > 0 /\ ~on
  <2>1. res.pkts = <<>> /\ res.left = 0
    BY <1>2 DEF DetectEvents
  <2>2. QED BY <1>0, <1>k, <1>2, <2>1 DEF DetectedNone
<1>3. CASE m > 0 /\ on
  <2> DEFINE found == Detected(E, m, w)
             ev == found.ev
             all == found.ev \cup found.mask
             order == InScanOrder(all)
             n == Cardinality(all)
             f == [k \in DOMAIN order |->
                     Found(IF order[k] \in ev THEN "EV_DET" ELSE "WMASK", node, order[k])]
  <2>1. res.pkts = f \o mark /\ res.left = m - Cardinality(ev)
    <3>1. m # 0
      BY <1>3
    <3>2. QED BY <1>3, <3>1, Zenon DEF DetectEvents, Found
  <2>2. all \subseteq Nat /\ IsFiniteSet(all) /\ ev \subseteq all /\ found.mask = all \ ev
    <3>1. found.mask \cap ev = {}
      BY DEF Detected
    <3>2. all \subseteq Nat /\ IsFiniteSet(all)
      BY DetectionShape, WindowFinite
    <3>3. QED BY <3>1, <3>2
  <2>3. n \in Nat /\ order \in [1 .. n -> all] /\ \A i \in all : \E k \in 1 .. n : order[k] = i
    BY <2>2, ScanOrderShape
  <2>4. f \in Seq(Packets)
    <3> DEFINE pkt(i) == Found(IF i \in ev THEN "EV_DET" ELSE "WMASK", node, i)
    <3>1. \A i \in Nat : pkt(i) \in Packets
      BY FoundShape
    <3>2. f = [k \in DOMAIN order |-> pkt(order[k])]
      OBVIOUS
    <3> HIDE DEF f, pkt, order, n, all
    <3>3. f \in [1 .. n -> Packets]
      BY <2>2, <2>3, <3>1, <3>2
    <3>4. QED BY <2>3, <3>3
  <2>5. mark \in Seq(Packets)
    BY MarkerShape
  <2>6. f = PacketsOf(order, n, ev, node)
    BY <2>3 DEF PacketsOf
  <2> HIDE DEF f, order, n, all, mark, ev, res, found
  <2>7. /\ Shown(f, "EV_DET", node) = Spots(ev) /\ Shown(f, "WMASK", node) = Spots(all \ ev)
        /\ \A type \in Kinds : \A x : x # node => Shown(f, type, x) = {}
    <3>1. all \in SUBSET Nat /\ ev \in SUBSET all /\ node \in Nodes
      BY <2>2
    <3>2. Enumerates(order, n, all)
      BY <2>3 DEF Enumerates
    <3>3. Shows(f, node, ev, all \ ev)
      BY <2>6, <3>1, <3>2, ManyShown
    <3>4. QED BY <3>3 DEF Shows
  <2>8. \A type \in Kinds : \A x : Shown(res.pkts, type, x) = Shown(f, type, x)
    <3> TAKE type \in Kinds
    <3> TAKE x
    <3>1. Shown(f \o mark, type, x) = Shown(f, type, x) \cup Shown(mark, type, x)
      BY <2>4, <2>5, ShownMore
    <3>2. Shown(mark, type, x) = {}
      BY <1>0
    <3>3. QED BY <2>1, <3>1, <3>2
  <2>9. Shown(res.pkts, "EV_DET", node) = Spots(ev) /\ Shown(res.pkts, "WMASK", node) = Spots(all \ ev)
    BY <1>k, <2>7, <2>8
  <2>10. DetectedAll(res.pkts, res.left, node, found, m)
    BY <2>1, <2>2, <2>9 DEF DetectedAll, ev, found
  <2>11. QED BY <1>3, <2>7, <2>8, <2>10 DEF res, found
<1>4. QED BY <1>1, <1>2, <1>3

-----------------------------------------------------------------------------
(* The limit of a CCD and the wandering mask.                              *)

ReportedOf(s, nodes, ccd) ==
    UNION {{n} \X Shown(s, "EV_DET", n) : n \in {m \in nodes : Ccd(m) = ccd}}

LEMMA SentShown == ASSUME NEW type, NEW node PROVE SentOf(type, node) = Shown(sent, type, node)
<1>1. ASSUME NEW k \in DOMAIN sent, IsShown(sent[k], type, node)
      PROVE  <<sent[k].row, sent[k].col>> \in SentOf(type, node)
  <2>1. sent[k] \in {q \in Range(sent) : q.type = type /\ q.node = node /\ ~q.last}
    BY <1>1, Zenon DEF Range, IsShown
  <2>2. QED BY <2>1, Zenon DEF SentOf
<1>2. ASSUME NEW x \in SentOf(type, node) PROVE x \in Shown(sent, type, node)
  <2>1. PICK q \in Range(sent) : q.type = type /\ q.node = node /\ ~q.last /\ x = <<q.row, q.col>>
    BY Zenon DEF SentOf
  <2>2. PICK k \in DOMAIN sent : sent[k] = q
    BY DEF Range
  <2>3. IsShown(sent[k], type, node)
    BY <2>1, <2>2, Zenon DEF IsShown
  <2>4. QED BY <2>1, <2>2, <2>3, Zenon DEF Shown
<1>3. Shown(sent, type, node) \subseteq SentOf(type, node)
  BY <1>1, Zenon DEF Shown
<1>4. QED BY <1>2, <1>3

LEMMA SentReported == ASSUME NEW ccd PROVE Reported(ccd) = ReportedOf(sent, settings.nodes, ccd)
BY SentShown, Zenon DEF Reported, ReportedOf

\* What a node adds to the events reported of its CCD, and of the other one.
LEMMA ReportedMore ==
    ASSUME NEW s, NEW t, NEW nodes, NEW node \in nodes, NEW ccd,
           \A n \in nodes : n # node => Shown(t, "EV_DET", n) = Shown(s, "EV_DET", n),
           Shown(s, "EV_DET", node) = {}
    PROVE  LET new == {node} \X Shown(t, "EV_DET", node)
           IN  /\ Ccd(node) # ccd => ReportedOf(t, nodes, ccd) = ReportedOf(s, nodes, ccd)
               /\ Ccd(node) = ccd =>
                     /\ ReportedOf(t, nodes, ccd) = ReportedOf(s, nodes, ccd) \cup new
                     /\ ReportedOf(s, nodes, ccd) \cap new = {}
<1> DEFINE new == {node} \X Shown(t, "EV_DET", node)
           of(u, n) == {n} \X Shown(u, "EV_DET", n)
           own == {m \in nodes : Ccd(m) = ccd}
<1>1. \A u : ReportedOf(u, nodes, ccd) = UNION {of(u, n) : n \in own}
  BY DEF ReportedOf
<1>2. \A n \in own : n # node => of(t, n) = of(s, n)
  OBVIOUS
<1>3. of(s, node) = {} /\ of(t, node) = new
  OBVIOUS
<1>4. \A n \in own : n # node => of(s, n) \cap new = {}
  OBVIOUS
<1> HIDE DEF of, new
<1>5. ASSUME Ccd(node) # ccd PROVE ReportedOf(t, nodes, ccd) = ReportedOf(s, nodes, ccd)
  <2>1. \A n \in own : of(t, n) = of(s, n)
    BY <1>2, <1>5
  <2>2. QED BY <1>1, <2>1, ZenonT(60)
<1>6. ASSUME Ccd(node) = ccd
      PROVE  /\ ReportedOf(t, nodes, ccd) = ReportedOf(s, nodes, ccd) \cup new
             /\ ReportedOf(s, nodes, ccd) \cap new = {}
  <2>1. node \in own
    BY <1>6
  <2> HIDE DEF own
  <2>2. QED BY <1>1, <1>2, <1>3, <1>4, <2>1
<1>7. QED BY <1>5, <1>6 DEF new

\* What a CCD has reported is what it was left less than the limit, as long as
\* event detection is on; switched off it may have thrown events away.
Quota(ccd) ==
    LET reported == ReportedOf(sent, settings.nodes, ccd)
    IN  /\ IsFiniteSet(reported)
        /\ Cardinality(reported) <= settings.limit - ev_cnt[ccd]
        /\ DetectionOn => Cardinality(reported) = settings.limit - ev_cnt[ccd]

MaskSeen == settings.wmask_en /\ wmask[1] <= ROWS - 3 /\ wmask[2] <= COLS - 3

\* A node shows the mask at most once, and for sure when it is done and its CCD
\* has events left.
Masked(n) ==
    LET events == Shown(sent, "EV_DET", n)
        masks == Shown(sent, "WMASK", n)
    IN  /\ n \in ToDo => events = {} /\ masks = {}
        /\ masks \subseteq {wmask} \ events
        /\ masks # {} => settings.wmask_en
        /\ n \notin ToDo /\ DetectionOn /\ MaskSeen /\ ev_cnt[Ccd(n)] > 0 => wmask \in masks \cup events

Ccds == {"CCD2", "CCD4"}

Scanning == pc = "node" \/ (pc = "move" /\ mode \in Scanned)

MaskInv == Scanning => (\A ccd \in Ccds : Quota(ccd)) /\ (\A n \in settings.nodes : Masked(n))

\* What the pixels found mean for the mask.
LEMMA MaskFound ==
    ASSUME NEW E \in SUBSET Window, NEW m \in Nat, NEW en \in BOOLEAN,
           NEW at \in (2 .. ROWS - 2) \X (2 .. COLS - 2)
    PROVE  LET found == Detected(E, m, IF en THEN at ELSE <<>>)
           IN  /\ Spots(found.mask) \subseteq {at} \ Spots(found.ev)
               /\ Spots(found.mask) # {} => en
               /\ en /\ at[1] <= ROWS - 3 /\ at[2] <= COLS - 3 /\ Cardinality(found.ev) < m
                    => at \in Spots(found.mask) \cup Spots(found.ev)
<1> DEFINE w == IF en THEN at ELSE <<>>
           found == Detected(E, m, w)
<1>1. /\ found.ev = {i \in E : Rank(E, i) < m}
      /\ found.mask = {i \in Window \ E : w = Spot(i) /\ Rank(E, i) < m}
  BY DEF Detected, Spot
<1>2. E \in SUBSET Nat /\ IsFiniteSet(E)
  BY WindowFinite, FS_Subset
<1>3. at = <<at[1], at[2]>> /\ at[1] \in 2 .. ROWS - 2 /\ at[2] \in 2 .. COLS - 2
  OBVIOUS
<1>4. ASSUME NEW i \in found.mask PROVE en /\ Spot(i) = at /\ Spot(i) \notin Spots(found.ev)
  <2>1. w = Spot(i) /\ i \in Window /\ i \notin E
    BY <1>1
  <2>2. <<>> # Spot(i)
    BY DEF Spot
  <2>3. en /\ w = at
    BY <2>1, <2>2
  <2>4. ASSUME NEW j \in found.ev, Spot(j) = Spot(i) PROVE FALSE
    <3>1. j \in E /\ j \in Window
      BY <1>1
    <3>2. i = j
      BY <2>1, <2>4, <3>1, PlacesInWindow
    <3>3. QED BY <2>1, <3>1, <3>2
  <2>5. QED BY <2>1, <2>3, <2>4 DEF Spots
<1>5. ASSUME en, at[1] <= ROWS - 3, at[2] <= COLS - 3, Cardinality(found.ev) < m
      PROVE  at \in Spots(found.mask) \cup Spots(found.ev)
  <2> DEFINE i == at[1] * COLS + at[2]
  <2>1. at[1] \in 2 .. ROWS - 3 /\ at[2] \in 2 .. COLS - 3
    BY <1>3, <1>5, EventDetectionAssumption
  <2>2. i \in Window /\ Spot(i) = at
    BY <1>3, <2>1, PlacesInWindow
  <2> HIDE DEF i
  <2>3. Rank(E, i) < m
    <3>1. i \in Nat
      BY <2>2, WindowFinite
    <3>2. Cardinality({k \in E : Rank(E, k) < m}) < m
      BY <1>1, <1>5
    <3>3. QED BY <1>2, <3>1, <3>2, NoneOmitted
  <2>4. CASE i \in E
    BY <1>1, <2>2, <2>3, <2>4 DEF Spots
  <2>5. CASE i \notin E
    <3>1. w = Spot(i)
      BY <1>5, <2>2
    <3>2. i \in found.mask
      BY <1>1, <2>2, <2>3, <2>5, <3>1
    <3>3. QED BY <2>2, <3>2 DEF Spots
  <2>6. QED BY <2>4, <2>5
<1>6. Spots(found.mask) \subseteq {at} \ Spots(found.ev) /\ (Spots(found.mask) # {} => en)
  BY <1>4 DEF Spots
<1>7. QED BY <1>5, <1>6

\* A node is read out.
LEMMA MaskReadout == Types /\ FrameInv /\ MaskInv /\ Readout => MaskInv'
<1> SUFFICES ASSUME Types, FrameInv, MaskInv, Readout PROVE MaskInv'
  OBVIOUS
<1> DEFINE node == Head(todo)
           w == IF settings.wmask_en THEN wmask ELSE <<>>
           E == EventsIn[settings][scene][node]
           c == Ccd(node)
           m == ev_cnt[c]
           b == DetectEvents(node, E, m, On, w).pkts
           left == DetectEvents(node, E, m, On, w).left
           found == Detected(E, m, w)
           S(type, n) == Shown(sent, type, n)
           T(type, n) == Shown(sent', type, n)
           R(ccd) == ReportedOf(sent, settings.nodes, ccd)
           Q(ccd) == ReportedOf(sent', settings.nodes, ccd)
           new == {node} \X T("EV_DET", node)
<1>1. /\ todo \in Seq(settings.nodes) /\ todo # <<>> /\ settings.nodes \subseteq Nodes
      /\ Distinct(todo) /\ settings.limit \in Nat /\ settings.wmask_en \in BOOLEAN
  BY SettingsType DEF Readout, Types, Nodewise, FrameInv, Once, Given
<1>2. /\ node \in settings.nodes /\ node \in ToDo /\ ToDo \subseteq settings.nodes
      /\ Members(Tail(todo)) = ToDo \ {node}
  BY <1>1, HeadDone DEF ToDo
<1>3. E \in SUBSET Window /\ node \in Nodes
  BY <1>1, <1>2, EventsInWindow DEF Types, Given
<1>4. c \in Ccds /\ \A ccd \in Ccds : ev_cnt[ccd] \in 0 .. settings.limit
  BY DEF Ccd, Ccds, Types, Nodewise
<1>5. On \in BOOLEAN /\ m \in Nat
  BY <1>1, <1>4 DEF Types, Register, Word, On
<1>6. sent' = sent \o b /\ todo' = Tail(todo) /\ ev_cnt' = [ev_cnt EXCEPT ![c] = left]
      /\ UNCHANGED <<settings, touched, reg_21, wmask>> /\ pc = "node" /\ pc' = "node"
  BY Zenon DEF Readout, registers, On
<1>7. Batch(b, node) /\ left \in 0 .. m
  BY <1>3, <1>5, DetectBatch, LeftShape
<1>8. /\ m > 0 /\ On => DetectedAll(b, left, node, found, m)
      /\ ~(m > 0 /\ On) => DetectedNone(b, left, node)
      /\ \A type \in Kinds : \A n : n # node => Shown(b, type, n) = {}
  BY <1>3, <1>5, DetectShown
<1>9. wmask \in (2 .. ROWS - 2) \X (2 .. COLS - 2)
  BY DEF Types, Mask
<1>10. /\ Spots(found.mask) \subseteq {wmask} \ Spots(found.ev)
       /\ Spots(found.mask) # {} => settings.wmask_en
       /\ settings.wmask_en /\ wmask[1] <= ROWS - 3 /\ wmask[2] <= COLS - 3
            /\ Cardinality(found.ev) < m
            => wmask \in Spots(found.mask) \cup Spots(found.ev)
  BY <1>1, <1>3, <1>5, <1>9, MaskFound, ZenonT(60)
<1>11. IsFiniteSet(found.ev) /\ Cardinality(found.ev) \in 0 .. m /\ found.ev \subseteq Window
  BY <1>3, <1>5, DetectionShape
<1> HIDE DEF node, w, E, c, m, b, left, found
<1>12. (\A ccd \in Ccds : Quota(ccd)) /\ \A n \in settings.nodes : Masked(n)
  BY <1>6 DEF MaskInv, Scanning
<1>13. sent \in Seq(Packets) /\ b \in Seq(Packets) /\ "EV_DET" \in Kinds /\ "WMASK" \in Kinds
  BY <1>7 DEF FrameInv, Sending, Batch, Kinds
<1>14. \A type \in Kinds : \A n : T(type, n) = S(type, n) \cup Shown(b, type, n)
  BY <1>6, <1>13, ShownMore
<1>15. \A type \in Kinds : \A n : n # node => T(type, n) = S(type, n)
  BY <1>8, <1>14
<1>16. S("EV_DET", node) = {} /\ S("WMASK", node) = {}
  BY <1>2, <1>12 DEF Masked
<1>17. T("EV_DET", node) = Shown(b, "EV_DET", node) /\ T("WMASK", node) = Shown(b, "WMASK", node)
  BY <1>13, <1>14, <1>16
<1>18. DetectionOn' = DetectionOn /\ (DetectionOn => On)
  BY <1>6, Zenon DEF DetectionOn, On
<1>19. MaskSeen' = MaskSeen
  BY <1>6, Zenon DEF MaskSeen
<1>20. /\ Ccd(node) = c
       /\ \A ccd : ccd # c => Q(ccd) = R(ccd)
       /\ Q(c) = R(c) \cup new /\ R(c) \cap new = {}
  <2>1. \A n \in settings.nodes : n # node => T("EV_DET", n) = S("EV_DET", n)
    BY <1>13, <1>15
  <2>2. \A ccd : /\ Ccd(node) # ccd => Q(ccd) = R(ccd)
                 /\ Ccd(node) = ccd => Q(ccd) = R(ccd) \cup new /\ R(ccd) \cap new = {}
    BY <1>2, <1>16, <2>1, ReportedMore
  <2>3. QED BY <2>2 DEF c
<1>21. IsFiniteSet(new) /\ Cardinality(new) \in Nat
       /\ (m > 0 /\ On => left = m - Cardinality(new)) /\ (~(m > 0 /\ On) => left = 0 /\ Cardinality(new) = 0)
  <2>1. CASE m > 0 /\ On
    <3>1. T("EV_DET", node) = Spots(found.ev) /\ left = m - Cardinality(found.ev)
      BY <1>8, <1>17, <2>1 DEF DetectedAll
    <3>2. IsFiniteSet(new) /\ Cardinality(new) = Cardinality(found.ev)
      BY <1>11, <3>1, SpotsCounted
    <3>3. QED BY <1>11, <2>1, <3>1, <3>2
  <2>2. CASE ~(m > 0 /\ On)
    <3>1. new = {} /\ left = 0
      BY <1>8, <1>17, <2>2 DEF DetectedNone
    <3>2. QED BY <2>2, <3>1, FS_EmptySet
  <2>3. QED BY <2>1, <2>2
<1>22. Members(todo') = ToDo \ {node} /\ settings' = settings
  BY <1>2, <1>6
<1>23. DOMAIN ev_cnt = Ccds
  BY DEF Types, Nodewise, Ccds
<1>24. ASSUME NEW ccd \in Ccds PROVE Quota(ccd)'
  <2>1. /\ IsFiniteSet(R(ccd)) /\ Cardinality(R(ccd)) <= settings.limit - ev_cnt[ccd]
        /\ DetectionOn => Cardinality(R(ccd)) = settings.limit - ev_cnt[ccd]
    BY <1>12 DEF Quota
  <2>2. CASE ccd # c
    <3>1. Q(ccd) = R(ccd) /\ ev_cnt'[ccd] = ev_cnt[ccd]
      BY <1>6, <1>20, <1>23, <2>2
    <3>2. QED BY <1>18, <1>22, <2>1, <3>1 DEF Quota
  <2>3. CASE ccd = c
    <3>1. Q(c) = R(c) \cup new /\ R(c) \cap new = {} /\ ev_cnt'[c] = left
      BY <1>4, <1>6, <1>20, <1>23
    <3>2. IsFiniteSet(Q(c)) /\ Cardinality(Q(c)) = Cardinality(R(c)) + Cardinality(new)
      <4>1. Cardinality({}) = 0
        BY FS_EmptySet
      <4>2. Cardinality(R(c)) \in Nat
        BY <2>1, <2>3, FS_CardinalityType
      <4>3. IsFiniteSet(R(c)) /\ IsFiniteSet(new)
        BY <1>21, <2>1, <2>3
      <4> HIDE DEF R, Q, new
      <4>4. IsFiniteSet(R(c) \cup new)
            /\ Cardinality(R(c) \cup new) = Cardinality(R(c)) + Cardinality(new) - Cardinality(R(c) \cap new)
        BY <4>3, FS_Union
      <4>5. Cardinality(R(c) \cap new) = 0
        BY <3>1, <4>1
      <4>6. Cardinality(R(c) \cup new) = Cardinality(R(c)) + Cardinality(new)
        BY <1>21, <4>2, <4>4, <4>5
      <4>7. QED BY <3>1, <4>4, <4>6
    <3>3. Cardinality(R(c)) \in Nat /\ Cardinality(R(c)) <= settings.limit - m
      BY <2>1, <2>3, FS_CardinalityType DEF m
    <3>4. Cardinality(Q(c)) <= settings.limit - left
      BY <1>1, <1>5, <1>7, <1>21, <3>2, <3>3
    <3>5. ASSUME DetectionOn PROVE Cardinality(Q(c)) = settings.limit - left
      <4>1. On /\ Cardinality(R(c)) = settings.limit - m
        BY <1>18, <2>1, <2>3, <3>5 DEF m
      <4>2. m > 0 \/ m = 0
        BY <1>5
      <4>3. QED BY <1>1, <1>5, <1>7, <1>21, <3>2, <4>1, <4>2
    <3>6. QED BY <1>18, <1>22, <2>3, <3>1, <3>2, <3>4, <3>5 DEF Quota
  <2>4. QED BY <2>2, <2>3
<1>25. ASSUME NEW n \in settings.nodes PROVE Masked(n)'
  <2>1. CASE n # node
    <3>1. T("EV_DET", n) = S("EV_DET", n) /\ T("WMASK", n) = S("WMASK", n)
      BY <1>13, <1>15, <2>1
    <3>2. n \in ToDo' <=> n \in ToDo
      BY <1>22, <2>1 DEF ToDo
    <3>3. ev_cnt'[Ccd(n)] > 0 => ev_cnt[Ccd(n)] > 0
      <4>1. CASE Ccd(n) = c
        <5>1. ev_cnt'[c] = left
          BY <1>4, <1>6, <1>23
        <5>2. QED BY <1>5, <1>7, <4>1, <5>1 DEF m
      <4>2. CASE Ccd(n) # c
        BY <1>6, <4>2
      <4>3. QED BY <4>1, <4>2
    <3>4. Masked(n)
      BY <1>12
    <3>5. wmask' = wmask
      BY <1>6
    <3>6. QED BY <1>18, <1>19, <1>22, <3>1, <3>2, <3>3, <3>4, <3>5 DEF Masked
  <2>2. CASE n = node
    <3>1. n \notin ToDo'
      BY <1>22, <2>2 DEF ToDo
    <3>2. ev_cnt'[Ccd(n)] = left /\ wmask' = wmask
      BY <1>4, <1>6, <1>20, <1>23, <2>2
    <3>3. CASE m > 0 /\ On
      <4>1. T("EV_DET", node) = Spots(found.ev) /\ T("WMASK", node) = Spots(found.mask)
            /\ left = m - Cardinality(found.ev)
        BY <1>8, <1>17, <3>3 DEF DetectedAll
      <4>2. left > 0 => Cardinality(found.ev) < m
        BY <1>5, <1>11, <4>1
      <4>3. MaskSeen /\ left > 0 => wmask \in T("WMASK", node) \cup T("EV_DET", node)
        BY <1>10, <4>1, <4>2 DEF MaskSeen
      <4>4. QED BY <1>10, <1>19, <1>22, <2>2, <3>1, <3>2, <4>1, <4>3 DEF Masked
    <3>4. CASE ~(m > 0 /\ On)
      <4>1. T("EV_DET", node) = {} /\ T("WMASK", node) = {} /\ left = 0
        BY <1>8, <1>17, <3>4 DEF DetectedNone
      <4>2. QED BY <2>2, <3>1, <3>2, <4>1 DEF Masked
    <3>5. QED BY <3>3, <3>4
  <2>3. QED BY <2>1, <2>2
<1>26. QED BY <1>22, <1>24, <1>25 DEF MaskInv

\* An execution begins: nothing is reported, the limit is there for each CCD.
LEMMA MaskExec == Types /\ Exec => MaskInv'
<1> SUFFICES ASSUME Types, Exec, Scanning' PROVE (\A ccd \in Ccds : Quota(ccd)') /\ \A n \in settings'.nodes : Masked(n)'
  BY DEF MaskInv
<1>1. settings' = settings /\ settings.limit \in Nat /\ settings.nodes \subseteq Nodes
  BY SettingsType DEF Types, Given, Exec
<1>2. reg_21.mode \in Scanned
  BY DEF Exec, Scanning, Scanned
<1>3. (sent' = <<>> \/ sent' = <<HkPacket>>) /\ todo' = InOrder(settings.nodes)
  BY <1>2 DEF Exec, Scanned
<1>4. \A n : Shown(sent', "EV_DET", n) = {} /\ Shown(sent', "WMASK", n) = {}
  <2> TAKE n
  <2>1. \A k \in DOMAIN (sent') : sent'[k] \in {HkPacket, FramePackets}
    BY <1>3
  <2>2. "EV_DET" \in Kinds /\ "WMASK" \in Kinds
    BY DEF Kinds
  <2>3. QED BY <2>1, <2>2, NothingShown
<1>5. \A ccd \in Ccds : ev_cnt'[ccd] = settings.limit
  BY DEF Exec, Ccds
<1>6. ASSUME NEW ccd \in Ccds PROVE Quota(ccd)'
  <2>1. ReportedOf(sent', settings'.nodes, ccd) = {}
    BY <1>4 DEF ReportedOf
  <2>2. QED BY <1>1, <1>5, <2>1, FS_EmptySet DEF Quota
<1>7. ASSUME NEW n \in settings'.nodes PROVE Masked(n)'
  <2>1. Members(todo') = settings.nodes
    BY <1>1, <1>3, InOrderShape DEF Lists, Members
  <2>2. n \in ToDo'
    BY <1>1, <2>1 DEF ToDo
  <2>3. QED BY <1>4, <2>2 DEF Masked
<1>8. QED BY <1>6, <1>7

\* The end of an execution shows nothing more.
LEMMA FinishShows ==
    ASSUME Types, FrameInv, Finish
    PROVE  \A type \in Kinds : \A n : Shown(sent', type, n) = Shown(sent, type, n)
<1>1. settings.nodes \subseteq Nodes
  BY SettingsType DEF Types, Given
<1>2. PICK last \in Nodes : EndMarker = Marker(last)
  BY <1>1, EndMarkerShape DEF EndMarker
<1>3. PICK b \in {<<EndMarker>>, <<HkPacket, FramePackets>>, <<>>} : sent' = sent \o b
  BY Zenon DEF Finish
<1>4. \A k \in DOMAIN b : IsEnd(b[k]) \/ b[k] \in {HkPacket, FramePackets}
  <2>1. IsEnd(EndMarker)
    BY <1>2, MarkerShape
  <2>2. QED BY <1>3, <2>1
<1>5. b \in Seq(Packets) /\ sent \in Seq(Packets)
  <2>1. EndMarker \in Packets /\ HkPacket \in Packets /\ FramePackets \in Packets
    BY <1>2, MarkerShape DEF Packets
  <2>2. sent \in Seq(Packets)
    BY DEF FrameInv, Sending
  <2>3. <<EndMarker>> \in Seq(Packets) /\ <<HkPacket, FramePackets>> \in Seq(Packets)
        /\ <<>> \in Seq(Packets)
    BY <2>1
  <2>4. QED BY <1>3, <2>2, <2>3
<1>6. \A type \in Kinds : \A n : Shown(sent', type, n) = Shown(sent, type, n)
  <2> TAKE type \in Kinds
  <2> TAKE n
  <2>1. Shown(b, type, n) = {}
    BY <1>4, NothingShown
  <2>2. Shown(sent \o b, type, n) = Shown(sent, type, n) \cup Shown(b, type, n)
    BY <1>5, ShownMore
  <2>3. QED BY <1>3, <2>1, <2>2
<1>7. QED BY <1>6

\* A client that changes event_detection is remembered for the execution.
LEMMA ClientTouches ==
    ASSUME Types, Client \/ UNCHANGED vars
    PROVE  /\ UNCHANGED <<settings, scene, todo, ev_cnt, wmask, pc, mode, sent>>
           /\ DetectionOn' => DetectionOn
<1>1. UNCHANGED <<settings, scene, todo, ev_cnt, wmask, pc, mode, sent>>
  BY DEF Client, WriteExecuteOp, WriteSync, WriteMode, Write, vars, registers, execution
<1>2. UNCHANGED <<reg_21, touched>> \/ touched' = (touched \/ On' # On)
  BY Zenon DEF Client, WriteExecuteOp, WriteSync, WriteMode, vars, On, registers
<1>3. UNCHANGED reg_21 => On' = On
  BY DEF On
<1>4. On \in BOOLEAN /\ touched \in BOOLEAN
  BY DEF Types, Register, Word, On, Flags
<1>5. (DetectionOn' => On' /\ ~touched') /\ (On /\ ~touched => DetectionOn)
  BY Zenon DEF DetectionOn, On
<1>6. ~touched' => ~touched /\ On' = On
  BY <1>2, <1>3, Zenon
<1>7. QED BY <1>1, <1>5, <1>6, Zenon

\* Nothing of it changes but that a client turns event detection off and on.
LEMMA MaskKept ==
    ASSUME UNCHANGED <<settings, todo, ev_cnt, wmask>>, Scanning' => Scanning,
           DetectionOn' => DetectionOn,
           \A type \in Kinds : \A n : Shown(sent', type, n) = Shown(sent, type, n),
           MaskInv
    PROVE  MaskInv'
<1> SUFFICES ASSUME Scanning' PROVE (\A ccd \in Ccds : Quota(ccd)') /\ \A n \in settings'.nodes : Masked(n)'
  BY DEF MaskInv
<1>1. (\A ccd \in Ccds : Quota(ccd)) /\ \A n \in settings.nodes : Masked(n)
  BY DEF MaskInv
<1>2. \A n : Shown(sent', "EV_DET", n) = Shown(sent, "EV_DET", n)
            /\ Shown(sent', "WMASK", n) = Shown(sent, "WMASK", n)
  BY DEF Kinds
<1>3. ASSUME NEW ccd \in Ccds PROVE Quota(ccd)'
  <2>1. ReportedOf(sent', settings'.nodes, ccd) = ReportedOf(sent, settings.nodes, ccd)
    BY <1>2 DEF ReportedOf
  <2>2. QED BY <1>1, <2>1 DEF Quota
<1>4. ASSUME NEW n \in settings'.nodes PROVE Masked(n)'
  <2>1. ToDo' = ToDo /\ MaskSeen' = MaskSeen
    BY DEF ToDo, MaskSeen
  <2>2. Masked(n)
    BY <1>1
  <2>3. QED BY <1>2, <2>1, <2>2 DEF Masked
<1>5. QED BY <1>3, <1>4

LEMMA MaskFinish == Types /\ FrameInv /\ MaskInv /\ Finish => MaskInv'
<1> SUFFICES ASSUME Types, FrameInv, MaskInv, Finish PROVE MaskInv'
  OBVIOUS
<1>1. UNCHANGED <<settings, todo, ev_cnt, wmask>> /\ (Scanning' => Scanning) /\ (DetectionOn' => DetectionOn)
  BY Zenon DEF Finish, registers, Scanning, DetectionOn
<1>2. QED BY <1>1, FinishShows, MaskKept

LEMMA WanderStep == Types /\ FrameInv /\ MaskInv /\ [Next]_vars => MaskInv'
<1> SUFFICES ASSUME Types, FrameInv, MaskInv, [Next]_vars PROVE MaskInv'
  OBVIOUS
<1>1. ASSUME Client \/ UNCHANGED vars PROVE MaskInv'
  BY <1>1, ClientTouches, MaskKept DEF Scanning
<1>2. ASSUME Poll \/ Clear \/ Move PROVE MaskInv'
  BY <1>2 DEF Poll, Clear, Move, MaskInv, Scanning
<1>3. ASSUME Sync \/ Wait \/ Check \/ Load \/ Store \/ Sleep \/ Again PROVE MaskInv'
  BY <1>3 DEF Sync, Wait, Check, Load, Store, Sleep, Again, Goto, MaskInv, Scanning
<1>4. QED BY <1>1, <1>2, <1>3, MaskExec, MaskReadout, MaskFinish DEF Next, MainLoop

\* No execution is over before the last node.
Exhausted == pc = "move" => todo = <<>>

LEMMA ExhaustedStep == Types /\ Exhausted /\ [Next]_vars => Exhausted'
<1> SUFFICES ASSUME Exhausted, [Next]_vars PROVE Exhausted'
  OBVIOUS
<1> USE DEF registers, execution
<1>1. ASSUME Client \/ UNCHANGED vars PROVE Exhausted'
  BY <1>1 DEF Client, WriteExecuteOp, WriteSync, WriteMode, Write, vars, Exhausted
<1>2. ASSUME Poll \/ Clear \/ Move \/ Readout PROVE Exhausted'
  <2>1. pc' # "move"
    BY <1>2 DEF Poll, Clear, Move, Readout
  <2>2. QED BY <2>1 DEF Exhausted
<1>3. ASSUME Exec PROVE Exhausted'
  <2>1. CASE reg_21.mode \in {"FT", "EVSIM"}
    BY <1>3, <2>1 DEF Exec, Exhausted
  <2>2. CASE reg_21.mode \notin {"FT", "EVSIM"}
    BY <1>3, <2>2 DEF Exec, Exhausted
  <2>3. QED BY <2>1, <2>2
<1>4. ASSUME Finish PROVE Exhausted'
  BY <1>4 DEF Finish, Exhausted
<1>5. ASSUME Sync \/ Wait \/ Check \/ Load \/ Store \/ Sleep \/ Again PROVE Exhausted'
  <2>1. pc' # "move"
    BY <1>5 DEF Sync, Wait, Check, Load, Store, Sleep, Again, Goto
  <2>2. QED BY <2>1 DEF Exhausted
<1>6. QED BY <1>1, <1>2, <1>3, <1>4, <1>5 DEF Next, MainLoop

\* The wandering mask appears for each node exactly where it is and is not
\* hidden by an event or by the limit of the CCD, never when it is off.
THEOREM MaskReportedCorrect == Spec => []MaskReported
<1>1. Types /\ MaskInv /\ Exhausted => MaskReported
  <2> SUFFICES ASSUME Types, MaskInv, Exhausted, pc = "move", mode \in Scanned,
                      NEW n \in settings.nodes
               PROVE  LET masks == SentOf("WMASK", n) IN
                      /\ masks \subseteq {wmask} \ SentOf("EV_DET", n)
                      /\ masks # {} => settings.wmask_en
                      /\ /\ DetectionOn
                         /\ settings.wmask_en
                         /\ wmask[1] <= ROWS - 3 /\ wmask[2] <= COLS - 3
                         /\ Cardinality(Reported(Ccd(n))) < settings.limit
                         => wmask \in masks \cup SentOf("EV_DET", n)
    BY Zenon DEF MaskReported
  <2>1. SentOf("WMASK", n) = Shown(sent, "WMASK", n) /\ SentOf("EV_DET", n) = Shown(sent, "EV_DET", n)
        /\ Reported(Ccd(n)) = ReportedOf(sent, settings.nodes, Ccd(n))
    BY SentShown, SentReported
  <2>2. Ccd(n) \in Ccds
    BY DEF Ccd, Ccds
  <2>3. Masked(n) /\ Quota(Ccd(n))
    BY <2>2 DEF MaskInv, Scanning
  <2>4. n \notin ToDo
    BY DEF Exhausted, ToDo, Members
  <2>5. ASSUME DetectionOn, Cardinality(Reported(Ccd(n))) < settings.limit PROVE ev_cnt[Ccd(n)] > 0
    <3>1. Cardinality(Reported(Ccd(n))) = settings.limit - ev_cnt[Ccd(n)]
      BY <2>1, <2>3, <2>5 DEF Quota
    <3>2. settings.limit \in Nat /\ ev_cnt[Ccd(n)] \in 0 .. settings.limit
      BY <2>2, SettingsType DEF Types, Given, Nodewise, Ccds
    <3>3. QED BY <2>5, <3>1, <3>2
  <2> HIDE DEF MaskInv, Types, Exhausted
  <2>6. QED BY <2>1, <2>3, <2>4, <2>5 DEF Masked, MaskSeen
<1>2. Init => MaskInv /\ Exhausted
  BY DEF Init, MaskInv, Scanning, Exhausted
<1>3. QED BY TypesInit, TypesNext, FrameInit, FrameStep, <1>1, <1>2, WanderStep, ExhaustedStep,
             PTL DEF Spec

-----------------------------------------------------------------------------
\* What an injective function makes of a set has as many elements.
LEMMA ImageCounted ==
    ASSUME NEW A, IsFiniteSet(A), NEW g, \A i, j \in A : g[i] = g[j] => i = j
    PROVE  IsFiniteSet({g[i] : i \in A}) /\ Cardinality({g[i] : i \in A}) = Cardinality(A)
<1> DEFINE T == {g[i] : i \in A}
           f == [i \in A |-> g[i]]
<1>1. f \in [A -> T] /\ (\A i, j \in A : f[i] = f[j] => i = j) /\ \A t \in T : \E i \in A : f[i] = t
  OBVIOUS
<1> HIDE DEF f, T
<1>2. f \in Injection(A, T) /\ f \in Surjection(A, T)
  BY <1>1 DEF Injection, IsInjective, Surjection
<1>3. QED BY <1>2, FS_Surjection DEF T

-----------------------------------------------------------------------------
(* The median and the background.                                          *)

Below(n, s, v) == {i \in 1 .. n : s[i] < v}
UpTo(n, s, v) == {i \in 1 .. n : s[i] <= v}
Above(n, s, v) == {i \in 1 .. n : s[i] > v}

\* At most h of the samples are below the value and at most h above.
Middle(n, s, h, v) ==
    Cardinality(Below(n, s, v)) <= h /\ Cardinality(Above(n, s, v)) <= h

LEMMA SamplesSplit ==
    ASSUME NEW n \in Nat, NEW s \in [1 .. n -> Nat], NEW v \in Nat
    PROVE  /\ Below(n, s, v) \subseteq UpTo(n, s, v) /\ IsFiniteSet(UpTo(n, s, v))
           /\ IsFiniteSet(Below(n, s, v))
           /\ Cardinality(Below(n, s, v)) \in Nat /\ Cardinality(UpTo(n, s, v)) \in Nat
           /\ Cardinality(Above(n, s, v)) = n - Cardinality(UpTo(n, s, v))
<1>1. IsFiniteSet(1 .. n) /\ Cardinality(1 .. n) = n
  BY FS_Interval
<1>2. \A i \in 1 .. n : s[i] \in Nat
  OBVIOUS
<1>3. Below(n, s, v) \subseteq UpTo(n, s, v) /\ UpTo(n, s, v) \subseteq 1 .. n
  BY <1>2 DEF Below, UpTo
<1>4. Above(n, s, v) = (1 .. n) \ UpTo(n, s, v)
  BY <1>2 DEF Above, UpTo
<1>5. IsFiniteSet(UpTo(n, s, v)) /\ IsFiniteSet(Below(n, s, v))
  BY <1>1, <1>3, FS_Subset
<1>6. Cardinality((1 .. n) \ UpTo(n, s, v)) = Cardinality(1 .. n) - Cardinality((1 .. n) \cap UpTo(n, s, v))
  BY <1>1, FS_Difference
<1>7. (1 .. n) \cap UpTo(n, s, v) = UpTo(n, s, v)
  BY <1>3
<1>8. QED BY <1>1, <1>3, <1>4, <1>5, <1>6, <1>7, FS_CardinalityType

LEMMA SortedMiddle ==
    ASSUME NEW h \in Nat, NEW n \in Nat, n = h + h + 1,
           NEW top \in Nat, NEW s \in [1 .. n -> Nat], \A i \in 1 .. n : s[i] <= top
    PROVE  LET m == Sorted(s)[h + 1]
           IN  (\E i \in 1 .. n : s[i] = m) /\ m \in Nat /\ Middle(n, s, h, m)
<1> DEFINE many == {v \in Nat : Cardinality(UpTo(n, s, v)) >= h + 1}
           middle(v) == Cardinality(Below(n, s, v)) < h + 1 /\ Cardinality(UpTo(n, s, v)) >= h + 1
<1>1. \A i \in 1 .. n : s[i] \in Nat /\ s[i] <= top
  OBVIOUS
<1>2. top \in many
  <2>1. UpTo(n, s, top) = 1 .. n
    BY <1>1 DEF UpTo
  <2>2. Cardinality(1 .. n) = n
    BY FS_Interval
  <2>3. QED BY <2>1, <2>2
<1>3. PICK v \in many : \A u \in many : ~(<<u, v>> \in OpToRel(<, Nat))
  BY <1>2, NatLessThanWellFounded, WFMin
<1>4. v \in Nat /\ \A u \in Nat : u < v => ~(Cardinality(UpTo(n, s, u)) >= h + 1)
  BY <1>3 DEF OpToRel
<1>5. Cardinality(Below(n, s, v)) < h + 1
  <2>1. CASE v = 0
    <3>1. Below(n, s, v) = {}
      BY <1>1, <2>1 DEF Below
    <3>2. Cardinality({}) = 0
      BY FS_EmptySet
    <3> HIDE DEF many
    <3>3. Cardinality(Below(n, s, v)) = 0
      BY <3>1, <3>2
    <3>4. QED BY <3>3
  <2>2. CASE v > 0
    <3>1. v - 1 \in Nat /\ v - 1 < v
      BY <1>4, <2>2
    <3>2. Below(n, s, v) = UpTo(n, s, v - 1)
      BY <1>1, <1>4 DEF Below, UpTo
    <3>3. Cardinality(UpTo(n, s, v - 1)) \in Nat
      BY <3>1, SamplesSplit
    <3>4. QED BY <1>4, <3>1, <3>2, <3>3
  <2>3. QED BY <1>4, <2>1, <2>2
<1>6. Cardinality(UpTo(n, s, v)) >= h + 1
  BY <1>3
<1>7. \E i \in 1 .. n : s[i] = v
  <2>1. Cardinality(Below(n, s, v)) \in Nat /\ Below(n, s, v) \subseteq UpTo(n, s, v)
    BY <1>4, SamplesSplit
  <2>2. Below(n, s, v) # UpTo(n, s, v)
    BY <1>5, <1>6, <2>1
  <2>3. PICK i \in UpTo(n, s, v) : i \notin Below(n, s, v)
    BY <2>1, <2>2
  <2>4. QED BY <1>1, <1>4, <2>3 DEF UpTo, Below
<1>8. DOMAIN s = 1 .. n /\ h + 1 \in 1 .. n
  OBVIOUS
<1>9. Sorted(s)[h + 1] = CHOOSE u \in Range(s) : middle(u)
  BY <1>8 DEF Sorted, Below, UpTo
<1>10. v \in Range(s) /\ middle(v)
  BY <1>5, <1>6, <1>7, <1>8 DEF Range
<1> DEFINE m == Sorted(s)[h + 1]
<1>11. m \in Range(s) /\ middle(m)
  BY <1>9, <1>10
<1> HIDE DEF m
<1>12. (\E i \in 1 .. n : s[i] = m) /\ m \in Nat
  BY <1>1, <1>8, <1>11 DEF Range
<1>13. Middle(n, s, h, m)
  <2>1. /\ Cardinality(Below(n, s, m)) \in Nat /\ Cardinality(UpTo(n, s, m)) \in Nat
        /\ Cardinality(Above(n, s, m)) = n - Cardinality(UpTo(n, s, m))
    BY <1>12, SamplesSplit
  <2>2. Cardinality(Below(n, s, m)) < h + 1 /\ Cardinality(UpTo(n, s, m)) >= h + 1
    BY <1>11
  <2> HIDE DEF middle, many
  <2>3. Cardinality(Below(n, s, m)) <= h /\ Cardinality(Above(n, s, m)) <= h
    BY <2>1, <2>2
  <2>4. QED BY <2>3 DEF Middle
<1>14. QED BY <1>12, <1>13 DEF m

LEMMA MiddleUnique ==
    ASSUME NEW h \in Nat, NEW n \in Nat, n = h + h + 1, NEW s \in [1 .. n -> Nat],
           NEW a \in Nat, NEW b \in Nat, Middle(n, s, h, a), Middle(n, s, h, b)
    PROVE  a = b
<1>1. ASSUME NEW u \in {a, b}, NEW v \in {a, b}, u < v PROVE FALSE
  <2>1. UpTo(n, s, u) \subseteq Below(n, s, v)
    <3>1. \A i \in 1 .. n : s[i] \in Nat
      OBVIOUS
    <3>2. QED BY <1>1, <3>1 DEF UpTo, Below
  <2>2. IsFiniteSet(Below(n, s, v)) /\ Cardinality(UpTo(n, s, u)) \in Nat
        /\ Cardinality(Below(n, s, v)) \in Nat
        /\ Cardinality(Above(n, s, u)) = n - Cardinality(UpTo(n, s, u))
    <3>1. u \in Nat /\ v \in Nat
      OBVIOUS
    <3>2. \A x \in Nat : /\ IsFiniteSet(Below(n, s, x)) /\ Cardinality(Below(n, s, x)) \in Nat
                         /\ Cardinality(UpTo(n, s, x)) \in Nat
                         /\ Cardinality(Above(n, s, x)) = n - Cardinality(UpTo(n, s, x))
      BY SamplesSplit
    <3>3. QED BY <3>1, <3>2
  <2>3. Cardinality(UpTo(n, s, u)) <= Cardinality(Below(n, s, v))
    BY <2>1, <2>2, FS_Subset
  <2>4. Cardinality(Below(n, s, v)) <= h /\ Cardinality(Above(n, s, u)) <= h
    BY DEF Middle
  <2>5. QED BY <2>2, <2>3, <2>4
<1>2. QED BY <1>1

-----------------------------------------------------------------------------
(* An event, as the code finds it and as its comment defines it.           *)

\* The place of a pixel of a 5x5 window in pkt->pix[].
LEMMA PixPlace ==
    ASSUME NEW frame, NEW idx \in Nat, NEW dr \in -2 .. 2, NEW dc \in -2 .. 2
    PROVE  Pix(frame, idx)[(2 - dc) * 5 + dr + 2] = frame[idx + dr * COLS + dc]
<1> DEFINE k == (2 - dc) * 5 + dr + 2
<1>1. k \in 0 .. 24
  OBVIOUS
<1>2. k \div 5 = 2 - dc /\ k % 5 = dr + 2
  <2>1. 2 - dc \in Nat /\ dr + 2 \in 0 .. 5 - 1 /\ 5 \in Nat \ {0}
    OBVIOUS
  <2>2. k = (2 - dc) * 5 + (dr + 2)
    OBVIOUS
  <2>3. QED BY <2>1, <2>2, Division
<1>3. COLS \in Nat
  BY EventDetectionAssumption
<1> HIDE DEF k
<1>4. Pix(frame, idx)[k] = frame[idx + ((k % 5) - 2) * COLS + 2 - (k \div 5)]
  BY <1>1 DEF Pix
<1>5. (k % 5) - 2 = dr /\ 2 - (k \div 5) = dc
  BY <1>2
<1>6. idx + ((k % 5) - 2) * COLS + 2 - (k \div 5) = idx + dr * COLS + dc
  <2> DEFINE x == dr * COLS
  <2>1. ((k % 5) - 2) * COLS = x /\ x \in Int
    BY <1>3, <1>5
  <2> HIDE DEF x
  <2>2. idx + x + 2 - (2 - dc) = idx + x + dc
    BY <2>1
  <2>3. QED BY <1>2, <2>1, <2>2 DEF x
<1>7. QED BY <1>4, <1>6 DEF k

LEMMA SampleType == Sample \subseteq Nat /\ \E top \in Nat : \A x \in Sample : x <= top
<1> DEFINE max == 65535
<1>1. max \in Nat
  BY SMT
<1>2. Sample = 0 .. max
  BY DEF Sample
<1> HIDE DEF max
<1>3. \A x \in 0 .. max : x \in Nat /\ x <= max
  BY <1>1
<1>4. QED BY <1>1, <1>2, <1>3

\* The rows and the columns of a window, from its middle.
Near == -2 .. 2

\* The pixel around place r, c that lies some rows and columns further.
At(frame, r, c, dr, dc) == frame[(r + dr) * COLS + c + dc]

LEMMA PixAt ==
    ASSUME NEW frame \in Frame, NEW r \in 2 .. ROWS - 3, NEW c \in 2 .. COLS - 3
    PROVE  /\ \A dr, dc \in Near :
                Pix(frame, r * COLS + c)[(2 - dc) * 5 + dr + 2] = At(frame, r, c, dr, dc)
           /\ \A dr, dc \in Near : At(frame, r, c, dr, dc) \in Sample
           /\ frame[r * COLS + c] = At(frame, r, c, 0, 0)
<1>1. ROWS \in Nat /\ COLS \in Nat /\ r \in Nat /\ c \in Nat /\ r * COLS + c \in Nat
  BY EventDetectionAssumption
<1>2. ASSUME NEW dr \in Near, NEW dc \in Near
      PROVE  (r + dr) * COLS = r * COLS + dr * COLS
  BY <1>1 DEF Near
<1>3. ASSUME NEW dr \in Near, NEW dc \in Near
      PROVE  Pix(frame, r * COLS + c)[(2 - dc) * 5 + dr + 2] = At(frame, r, c, dr, dc)
  <2>1. Pix(frame, r * COLS + c)[(2 - dc) * 5 + dr + 2] = frame[r * COLS + c + dr * COLS + dc]
    <3> DEFINE idx == r * COLS + c
    <3>1. idx \in Nat /\ dr \in -2 .. 2 /\ dc \in -2 .. 2
      BY <1>1 DEF Near
    <3> HIDE DEF idx
    <3>2. Pix(frame, idx)[(2 - dc) * 5 + dr + 2] = frame[idx + dr * COLS + dc]
      BY <3>1, PixPlace
    <3>3. QED BY <3>2 DEF idx
  <2> DEFINE x == r * COLS
             y == dr * COLS
  <2>2. x \in Int /\ y \in Int /\ (r + dr) * COLS = x + y
    BY <1>1, <1>2 DEF Near
  <2> HIDE DEF x, y
  <2>3. x + c + y + dc = x + y + c + dc
    BY <1>1, <2>2 DEF Near
  <2>4. QED BY <2>1, <2>2, <2>3 DEF x, y, At
<1>4. ASSUME NEW dr \in Near, NEW dc \in Near
      PROVE  (r + dr) * COLS + c + dc \in 0 .. ROWS * COLS - 1
  <2> DEFINE a == r + dr
             b == c + dc
             z == (ROWS - 1 - a) * COLS
  <2>1. a \in 0 .. ROWS - 1 /\ b \in 0 .. COLS - 1
    BY <1>1 DEF Near
  <2>2. a * COLS \in Nat /\ z \in Nat /\ a * COLS + z = (ROWS - 1) * COLS
    BY <1>1, <2>1
  <2>3. (ROWS - 1) * COLS = ROWS * COLS - COLS /\ ROWS * COLS \in Nat
    BY <1>1
  <2> DEFINE p == a * COLS
             q == ROWS * COLS
  <2>4. p \in Nat /\ q \in Nat /\ p <= q - COLS
    <3> DEFINE w == (ROWS - 1) * COLS
    <3>1. w = q - COLS /\ p + z = w /\ p \in Nat /\ z \in Nat /\ q \in Nat
      BY <2>2, <2>3
    <3> HIDE DEF w, p, q, z
    <3>2. QED BY <1>1, <3>1
  <2> HIDE DEF p, q, a, b, z
  <2>5. p + b \in 0 .. q - 1
    BY <1>1, <2>1, <2>4
  <2>6. p + b = (r + dr) * COLS + c + dc
    <3>1. p \in Nat /\ (r + dr) * COLS = p
      BY <2>4 DEF p, a
    <3>2. QED BY <1>1, <3>1 DEF b, Near
  <2>7. QED BY <2>5, <2>6 DEF q
<1>5. ASSUME NEW dr \in Near, NEW dc \in Near
      PROVE  At(frame, r, c, dr, dc) \in Sample
  BY <1>4 DEF At, Frame
<1>6. frame[r * COLS + c] = At(frame, r, c, 0, 0)
  <2>1. (r + 0) * COLS + c + 0 = r * COLS + c
    BY <1>1
  <2>2. QED BY <2>1 DEF At
<1>7. QED BY <1>3, <1>5, <1>6

\* The edge of the window in the order in which the code collects it.
EdgePlaces == <<<<-2, 2>>, <<-1, 2>>, <<0, 2>>, <<1, 2>>, <<2, 2>>, <<-2, 1>>,
                <<2, 1>>, <<-2, 0>>, <<-2, -1>>, <<-2, -2>>, <<-1, -2>>>>

EdgeSet == {<<dr, 2>> : dr \in -2 .. 2} \cup {<<-2, dc>> : dc \in -2 .. 1}
             \cup {<<2, 1>>, <<-1, -2>>}

\* The pixels of the edge, as the median is given them.
EdgePix(pix) == <<pix[0], pix[1], pix[2], pix[3], pix[4], pix[5],
                  pix[9], pix[10], pix[15], pix[20], pix[21]>>

EdgeIndex(i) ==
    i = 1 \/ i = 2 \/ i = 3 \/ i = 4 \/ i = 5 \/ i = 6 \/ i = 7 \/ i = 8 \/ i = 9 \/ i = 10 \/ i = 11

LEMMA EdgeListed ==
    ASSUME NEW n, n = 11
    PROVE  /\ \A i \in 1 .. n : EdgeIndex(i)
           /\ \A i : EdgeIndex(i) => i \in 1 .. n
BY DEF EdgeIndex

LEMMA EdgeShape ==
    /\ \A i : EdgeIndex(i) => EdgePlaces[i] \in EdgeSet
    /\ \A i, j : EdgeIndex(i) /\ EdgeIndex(j) /\ EdgePlaces[i] = EdgePlaces[j] => i = j
    /\ \A x \in EdgeSet : \E i : EdgeIndex(i) /\ EdgePlaces[i] = x
    /\ \A i : EdgeIndex(i) => EdgePlaces[i][1] \in Near /\ EdgePlaces[i][2] \in Near
<1>1. /\ EdgePlaces[1] = <<-2, 2>> /\ EdgePlaces[2] = <<-1, 2>> /\ EdgePlaces[3] = <<0, 2>>
      /\ EdgePlaces[4] = <<1, 2>> /\ EdgePlaces[5] = <<2, 2>> /\ EdgePlaces[6] = <<-2, 1>>
      /\ EdgePlaces[7] = <<2, 1>> /\ EdgePlaces[8] = <<-2, 0>> /\ EdgePlaces[9] = <<-2, -1>>
      /\ EdgePlaces[10] = <<-2, -2>> /\ EdgePlaces[11] = <<-1, -2>>
  BY DEF EdgePlaces
<1>2. EdgeSet = {<<-2, 2>>, <<-1, 2>>, <<0, 2>>, <<1, 2>>, <<2, 2>>, <<-2, 1>>,
                 <<2, 1>>, <<-2, 0>>, <<-2, -1>>, <<-2, -2>>, <<-1, -2>>}
  <2>1. \A dr : dr \in -2 .. 2 <=> dr \in {-2, -1, 0, 1, 2}
    OBVIOUS
  <2>2. \A dc : dc \in -2 .. 1 <=> dc \in {-2, -1, 0, 1}
    OBVIOUS
  <2>3. QED BY <2>1, <2>2 DEF EdgeSet
<1>3. \A i : EdgeIndex(i) => EdgePlaces[i] \in EdgeSet
  BY <1>1, <1>2 DEF EdgeIndex
<1>4. \A i : EdgeIndex(i) => EdgePlaces[i][1] \in Near /\ EdgePlaces[i][2] \in Near
  BY <1>1 DEF EdgeIndex, Near
<1>5. \A i, j : EdgeIndex(i) /\ EdgeIndex(j) /\ EdgePlaces[i] = EdgePlaces[j] => i = j
  BY <1>1 DEF EdgeIndex
<1>6. \A x \in EdgeSet : \E i : EdgeIndex(i) /\ EdgePlaces[i] = x
  BY <1>1, <1>2 DEF EdgeIndex
<1>7. QED BY <1>3, <1>4, <1>5, <1>6

LEMMA EdgeSamples ==
    ASSUME NEW frame \in Frame, NEW r \in 2 .. ROWS - 3, NEW c \in 2 .. COLS - 3
    PROVE  LET s == EdgePix(Pix(frame, r * COLS + c))
           IN  /\ Len(s) = 11 /\ s \in [1 .. Len(s) -> Sample]
               /\ \A i \in 1 .. Len(s) :
                    s[i] = At(frame, r, c, EdgePlaces[i][1], EdgePlaces[i][2])
<1> DEFINE pix == Pix(frame, r * COLS + c)
           s == EdgePix(pix)
<1>0. \A dr, dc \in Near : At(frame, r, c, dr, dc) \in Sample
  BY PixAt
<1>1. \A dr, dc \in Near : pix[(2 - dc) * 5 + dr + 2] = At(frame, r, c, dr, dc)
  BY PixAt
<1> HIDE DEF pix
<1>2. /\ pix[0] = At(frame, r, c, -2, 2) /\ pix[1] = At(frame, r, c, -1, 2) /\ pix[2] = At(frame, r, c, 0, 2) /\ pix[3] = At(frame, r, c, 1, 2)
      /\ pix[4] = At(frame, r, c, 2, 2) /\ pix[5] = At(frame, r, c, -2, 1) /\ pix[9] = At(frame, r, c, 2, 1) /\ pix[10] = At(frame, r, c, -2, 0)
      /\ pix[15] = At(frame, r, c, -2, -1) /\ pix[20] = At(frame, r, c, -2, -2) /\ pix[21] = At(frame, r, c, -1, -2)
  <2>1. ASSUME NEW dr \in Near, NEW dc \in Near, NEW k, k = (2 - dc) * 5 + dr + 2
        PROVE  pix[k] = At(frame, r, c, dr, dc)
    BY <1>1, <2>1
  <2>2. pix[0] = At(frame, r, c, -2, 2) /\ pix[1] = At(frame, r, c, -1, 2) /\ pix[2] = At(frame, r, c, 0, 2) /\ pix[3] = At(frame, r, c, 1, 2)
    BY <2>1 DEF Near
  <2>3. pix[4] = At(frame, r, c, 2, 2) /\ pix[5] = At(frame, r, c, -2, 1) /\ pix[9] = At(frame, r, c, 2, 1) /\ pix[10] = At(frame, r, c, -2, 0)
    BY <2>1 DEF Near
  <2>4. pix[15] = At(frame, r, c, -2, -1) /\ pix[20] = At(frame, r, c, -2, -2) /\ pix[21] = At(frame, r, c, -1, -2)
    BY <2>1 DEF Near
  <2>5. QED BY <2>2, <2>3, <2>4
<1>3. /\ Len(s) = 11 /\ DOMAIN s = 1 .. Len(s) /\ s = [i \in 1 .. Len(s) |-> s[i]]
      /\ s[1] = pix[0] /\ s[2] = pix[1] /\ s[3] = pix[2] /\ s[4] = pix[3] /\ s[5] = pix[4]
      /\ s[6] = pix[5] /\ s[7] = pix[9] /\ s[8] = pix[10] /\ s[9] = pix[15]
      /\ s[10] = pix[20] /\ s[11] = pix[21]
  BY DEF EdgePix
<1> HIDE DEF s
<1>4. ASSUME NEW i \in 1 .. Len(s) PROVE s[i] = At(frame, r, c, EdgePlaces[i][1], EdgePlaces[i][2])
  <2>1. EdgeIndex(i)
    BY <1>3, EdgeListed
  <2>2. QED BY <1>2, <1>3, <2>1 DEF EdgeIndex, EdgePlaces
<1>5. ASSUME NEW i \in 1 .. Len(s) PROVE s[i] \in Sample
  <2>1. EdgeIndex(i)
    BY <1>3, EdgeListed
  <2>2. EdgePlaces[i][1] \in Near /\ EdgePlaces[i][2] \in Near
    BY <2>1, EdgeShape
  <2>3. QED BY <1>0, <1>4, <2>2
<1>6. s \in [1 .. Len(s) -> Sample]
  BY <1>3, <1>5
<1>7. /\ Len(s) = 11 /\ s \in [1 .. Len(s) -> Sample]
      /\ \A i \in 1 .. Len(s) :
           s[i] = At(frame, r, c, EdgePlaces[i][1], EdgePlaces[i][2])
  BY <1>3, <1>4, <1>5, <1>6
<1>8. QED BY <1>7, Zenon DEF s, pix

LEMMA EdgeCounted ==
    ASSUME NEW frame \in Frame, NEW r \in 2 .. ROWS - 3, NEW c \in 2 .. COLS - 3, NEW b \in Nat
    PROVE  LET s == EdgePix(Pix(frame, r * COLS + c))
               at(e) == At(frame, r, c, e[1], e[2])
           IN  /\ Cardinality({e \in EdgeSet : at(e) < b}) = Cardinality(Below(Len(s), s, b))
               /\ Cardinality({e \in EdgeSet : at(e) > b}) = Cardinality(Above(Len(s), s, b))
<1> DEFINE s == EdgePix(Pix(frame, r * COLS + c))
           at(e) == At(frame, r, c, e[1], e[2])
           n == Len(s)
           places(A) == {EdgePlaces[i] : i \in A}
<1>1. /\ n = 11
      /\ \A i \in 1 .. n : s[i] = at(EdgePlaces[i])
  BY EdgeSamples
<1> HIDE DEF s, n
<1>2. \A i : i \in 1 .. n <=> EdgeIndex(i)
  BY <1>1, EdgeListed
<1> HIDE DEF at
<1>3. ASSUME NEW A \in SUBSET (1 .. n) PROVE Cardinality(places(A)) = Cardinality(A)
  <2>1. IsFiniteSet(A)
    <3>1. n \in Nat
      BY <1>1
    <3>2. IsFiniteSet(1 .. n)
      BY <3>1, FS_Interval
    <3>3. QED BY <3>2, FS_Subset
  <2>2. \A i, j \in A : EdgePlaces[i] = EdgePlaces[j] => i = j
    BY <1>2, EdgeShape
  <2>3. QED BY <2>1, <2>2, ImageCounted
<1>4. /\ {e \in EdgeSet : at(e) < b} = places(Below(n, s, b))
      /\ {e \in EdgeSet : at(e) > b} = places(Above(n, s, b))
  <2>1. \A i \in 1 .. n : EdgePlaces[i] \in EdgeSet
    BY <1>2, EdgeShape
  <2>2. \A e \in EdgeSet : \E i \in 1 .. n : EdgePlaces[i] = e
    BY <1>2, EdgeShape
  <2>3. QED BY <1>1, <2>1, <2>2 DEF Below, Above
<1>5. Below(n, s, b) \in SUBSET (1 .. n) /\ Above(n, s, b) \in SUBSET (1 .. n)
  BY DEF Below, Above
<1>6. /\ Cardinality({e \in EdgeSet : at(e) < b}) = Cardinality(Below(n, s, b))
      /\ Cardinality({e \in EdgeSet : at(e) > b}) = Cardinality(Above(n, s, b))
  BY <1>3, <1>4, <1>5
<1>7. QED BY <1>6 DEF s, n, at

\* The background is the value in the middle of the edge, and the only one.
LEMMA BackgroundMiddle ==
    ASSUME NEW frame \in Frame, NEW r \in 2 .. ROWS - 3, NEW c \in 2 .. COLS - 3
    PROVE  LET m == Background(Pix(frame, r * COLS + c))
               at(e) == At(frame, r, c, e[1], e[2])
               middle(b) == /\ Cardinality({e \in EdgeSet : at(e) < b}) <= 5
                            /\ Cardinality({e \in EdgeSet : at(e) > b}) <= 5
           IN  /\ m \in Nat /\ \E e \in EdgeSet : at(e) = m
               /\ \A b \in Nat : middle(b) <=> b = m
<1> DEFINE pix == Pix(frame, r * COLS + c)
           s == EdgePix(pix)
           n == Len(s)
           m == Background(pix)
           at(e) == At(frame, r, c, e[1], e[2])
           middle(b) == /\ Cardinality({e \in EdgeSet : at(e) < b}) <= 5
                        /\ Cardinality({e \in EdgeSet : at(e) > b}) <= 5
<1>1. /\ n = 11 /\ s \in [1 .. n -> Sample]
      /\ \A i \in 1 .. n : s[i] = at(EdgePlaces[i])
  BY EdgeSamples
<1>2. ASSUME NEW b \in Nat PROVE middle(b) <=> Middle(n, s, 5, b)
  <2>1. /\ Cardinality({e \in EdgeSet : at(e) < b}) = Cardinality(Below(n, s, b))
        /\ Cardinality({e \in EdgeSet : at(e) > b}) = Cardinality(Above(n, s, b))
    BY EdgeCounted, Zenon
  <2> HIDE DEF s, n, at
  <2>2. QED BY <2>1, Zenon DEF Middle
<1>3. m = MedianOf11(s)
  BY DEF Background, EdgePix
<1> HIDE DEF pix, s, n, m, at, middle
<1>4. n \in Nat /\ 5 \in Nat /\ n = 5 + 5 + 1 /\ m = Sorted(s)[5 + 1]
  BY <1>1, <1>3 DEF MedianOf11
<1>5. s \in [1 .. n -> Nat] /\ \E top \in Nat : \A i \in 1 .. n : s[i] <= top
  BY <1>1, SampleType
<1>6. (\E i \in 1 .. n : s[i] = m) /\ m \in Nat /\ Middle(n, s, 5, m)
  <2> DEFINE h == 5
  <2>1. h \in Nat /\ n \in Nat /\ n = h + h + 1 /\ m = Sorted(s)[h + 1]
    BY <1>4
  <2>2. PICK top \in Nat : \A i \in 1 .. n : s[i] <= top
    BY <1>5
  <2> HIDE DEF h
  <2>3. LET mid == Sorted(s)[h + 1]
        IN  (\E i \in 1 .. n : s[i] = mid) /\ mid \in Nat /\ Middle(n, s, h, mid)
    BY <1>5, <2>1, <2>2, SortedMiddle
  <2>4. QED BY <2>1, <2>3 DEF h
<1>7. \E e \in EdgeSet : at(e) = m
  <2>1. PICK i \in 1 .. n : s[i] = m
    BY <1>6
  <2>2. EdgeIndex(i)
    BY <1>1, EdgeListed
  <2>3. EdgePlaces[i] \in EdgeSet /\ at(EdgePlaces[i]) = m
    BY <1>1, <2>1, <2>2, EdgeShape
  <2>4. QED BY <2>3
<1>8. ASSUME NEW b \in Nat, Middle(n, s, 5, b) PROVE b = m
  BY <1>4, <1>5, <1>6, <1>8, MiddleUnique
<1>9. m \in Nat /\ (\E e \in EdgeSet : at(e) = m) /\ \A b \in Nat : middle(b) <=> b = m
  BY <1>2, <1>6, <1>7, <1>8
<1>10. QED BY <1>9 DEF m, pix, at, middle

\* fee_sim_check_event_pixel finds what the comment above it calls an event, and
\* the peaks with exactly the signal that an event has to exceed.
LEMMA TrueIsEvent ==
    ASSUME NEW frame \in Frame, NEW threshold \in Nat,
           NEW r \in 2 .. ROWS - 3, NEW c \in 2 .. COLS - 3
    PROVE  IsEvent(frame, r * COLS + c, threshold)
             <=> TrueEvent(frame, threshold, r, c) \/ AtThreshold(frame, threshold, r, c)
<1> DEFINE pix == Pix(frame, r * COLS + c)
           m == Background(pix)
           at(dr, dc) == At(frame, r, c, dr, dc)
           ring == \A k \in Ring : pix[k] < at(0, 0)
           middle(b) == /\ Cardinality({e \in EdgeSet : at(e[1], e[2]) < b}) <= 5
                        /\ Cardinality({e \in EdgeSet : at(e[1], e[2]) > b}) <= 5
           local == LocalBackground(frame, r, c)
           peak == Peak(frame, r, c)
<1>0. at(0, 0) = frame[r * COLS + c]
  <2>1. (r + 0) * COLS + c + 0 = r * COLS + c
    BY EventDetectionAssumption
  <2>2. QED BY <2>1 DEF At
<1>1. IsEvent(frame, r * COLS + c, threshold) <=> at(0, 0) >= threshold + m /\ ring
  BY PixAt DEF IsEvent
<1>2. local = {b \in {at(e[1], e[2]) : e \in EdgeSet} : middle(b)}
  BY Zenon DEF LocalBackground, EdgeSet, At
<1>3. m \in Nat /\ (\E e \in EdgeSet : at(e[1], e[2]) = m) /\ \A b \in Nat : middle(b) <=> b = m
  BY BackgroundMiddle
<1>4. \A dr, dc \in Near : at(dr, dc) \in Nat
  BY PixAt, SampleType
<1>5. local = {m}
  <2>1. \A e \in EdgeSet : at(e[1], e[2]) \in Nat
    <3>1. ASSUME NEW e \in EdgeSet PROVE e[1] \in Near /\ e[2] \in Near
      BY EdgeShape
    <3>2. QED BY <1>4, <3>1
  <2> HIDE DEF m, at, middle
  <2>2. QED BY <1>2, <1>3, <2>1
<1>6. ring <=> peak
  <2>1. ASSUME NEW dr \in Near, NEW dc \in Near, NEW k, k = (2 - dc) * 5 + dr + 2
        PROVE  pix[k] = at(dr, dc)
    BY <2>1, PixAt
  <2>2. \A dr, dc \in Near : at(dr, dc) = frame[(r + dr) * COLS + (c + dc)]
    <3>1. ASSUME NEW dr \in Near, NEW dc \in Near
          PROVE  (r + dr) * COLS + c + dc = (r + dr) * COLS + (c + dc)
      <4> DEFINE x == (r + dr) * COLS
      <4>1. x \in Int
        BY EventDetectionAssumption DEF Near
      <4> HIDE DEF x
      <4>2. x + c + dc = x + (c + dc)
        BY <4>1 DEF Near
      <4>3. QED BY <4>2 DEF x
    <3>2. QED BY <3>1 DEF At
  <2>3. peak <=> \A dr, dc \in -1 .. 1 : <<dr, dc>> # <<0, 0>> => at(dr, dc) < at(0, 0)
    <3>1. \A dr, dc \in -1 .. 1 : <<r + dr, c + dc>> # <<r, c>> <=> <<dr, dc>> # <<0, 0>>
      OBVIOUS
    <3>2. ASSUME peak, NEW dr \in -1 .. 1, NEW dc \in -1 .. 1, <<dr, dc>> # <<0, 0>>
          PROVE  at(dr, dc) < at(0, 0)
      <4>1. r + dr \in r - 1 .. r + 1 /\ c + dc \in c - 1 .. c + 1
        OBVIOUS
      <4>2. frame[(r + dr) * COLS + (c + dc)] < frame[r * COLS + c]
        BY <3>1, <3>2, <4>1 DEF Peak
      <4>3. QED BY <1>0, <2>2, <4>2 DEF Near
    <3>3. ASSUME \A dr, dc \in -1 .. 1 : <<dr, dc>> # <<0, 0>> => at(dr, dc) < at(0, 0)
          PROVE  peak
      <4> SUFFICES ASSUME NEW q \in r - 1 .. r + 1, NEW d \in c - 1 .. c + 1, <<q, d>> # <<r, c>>
                   PROVE  frame[q * COLS + d] < frame[r * COLS + c]
        BY DEF Peak
      <4>1. q - r \in -1 .. 1 /\ d - c \in -1 .. 1 /\ r + (q - r) = q /\ c + (d - c) = d
        OBVIOUS
      <4>2. <<q - r, d - c>> # <<0, 0>>
        OBVIOUS
      <4>3. at(q - r, d - c) < at(0, 0) /\ at(q - r, d - c) = frame[q * COLS + d]
        BY <2>2, <3>3, <4>1, <4>2 DEF Near
      <4>4. QED BY <1>0, <4>3
    <3>4. QED BY <3>2, <3>3
  <2> HIDE DEF pix, at, peak
  <2>4. /\ pix[6] = at(-1, 1) /\ pix[7] = at(0, 1) /\ pix[8] = at(1, 1) /\ pix[11] = at(-1, 0)
        /\ pix[13] = at(1, 0)
    BY <2>1 DEF Near
  <2>5. pix[16] = at(-1, -1) /\ pix[17] = at(0, -1) /\ pix[18] = at(1, -1)
    BY <2>1 DEF Near
  <2>6. \A dr : dr \in -1 .. 1 <=> dr = -1 \/ dr = 0 \/ dr = 1
    OBVIOUS
  <2>7. peak <=> /\ at(-1, 1) < at(0, 0) /\ at(0, 1) < at(0, 0) /\ at(1, 1) < at(0, 0)
                 /\ at(-1, 0) < at(0, 0) /\ at(1, 0) < at(0, 0)
                 /\ at(-1, -1) < at(0, 0) /\ at(0, -1) < at(0, 0) /\ at(1, -1) < at(0, 0)
    BY <2>3, <2>6
  <2>8. ring <=> /\ pix[6] < at(0, 0) /\ pix[7] < at(0, 0) /\ pix[8] < at(0, 0)
                 /\ pix[11] < at(0, 0) /\ pix[13] < at(0, 0)
                 /\ pix[16] < at(0, 0) /\ pix[17] < at(0, 0) /\ pix[18] < at(0, 0)
    BY DEF Ring
  <2>9. QED BY <2>4, <2>5, <2>7, <2>8
<1>7. at(0, 0) \in Nat
  BY <1>4 DEF Near
<1>8. /\ TrueEvent(frame, threshold, r, c) <=> peak /\ at(0, 0) > threshold + m
      /\ AtThreshold(frame, threshold, r, c) <=> peak /\ at(0, 0) = threshold + m
  BY <1>0, <1>5 DEF TrueEvent, AtThreshold
<1> HIDE DEF m, at, ring, peak
<1>9. QED BY <1>1, <1>3, <1>6, <1>7, <1>8

-----------------------------------------------------------------------------
(* What a readout reports of the events there are.                         *)

LEMMA ReachingFound ==
    ASSUME NEW st \in Settings, NEW sc \in Scenes, NEW node \in Nodes
    PROVE  Reaching[st][sc][node] = Spots(EventsIn[st][sc][node])
<1> DEFINE E == EventsIn[st][sc][node]
           T == Reaching[st][sc][node]
           t == ThresholdOf(st, node)
           event(r, c) == TrueEvent(sc[node], t, r, c) \/ AtThreshold(sc[node], t, r, c)
<1>1. sc[node] \in Frame /\ t \in Nat
  BY FeeSimLoopAssumption DEF ThresholdOf, Nodes
<1>2. E = {i \in Window : IsEvent(sc[node], i, t)}
  BY DEF EventsIn
<1>3. T = {p \in (2 .. ROWS - 3) \X (2 .. COLS - 3) : event(p[1], p[2])}
  BY Zenon DEF Reaching
<1>4. ASSUME NEW r \in 2 .. ROWS - 3, NEW c \in 2 .. COLS - 3
      PROVE  IsEvent(sc[node], r * COLS + c, t) <=> event(r, c)
  BY <1>1, TrueIsEvent
<1> HIDE DEF E, T, t, event
<1>5. ASSUME NEW i \in E PROVE Spot(i) \in T
  <2>1. PICK r \in 2 .. ROWS - 3, c \in 2 .. COLS - 3 : i = r * COLS + c
    BY <1>2 DEF Window
  <2>2. Spot(i) = <<r, c>>
    BY <2>1, PlacesInWindow
  <2>3. event(r, c)
    BY <1>2, <1>4, <2>1
  <2>4. QED BY <1>3, <2>2, <2>3
<1>6. ASSUME NEW p \in T PROVE p \in Spots(E)
  <2>1. PICK r \in 2 .. ROWS - 3, c \in 2 .. COLS - 3 : p = <<r, c>>
    BY <1>3
  <2>2. event(r, c)
    BY <1>3, <2>1
  <2>3. r * COLS + c \in Window /\ Spot(r * COLS + c) = p
    BY <2>1, PlacesInWindow
  <2>4. IsEvent(sc[node], r * COLS + c, t)
    BY <1>4, <2>2
  <2>5. r * COLS + c \in E
    BY <1>2, <2>3, <2>4
  <2>6. QED BY <2>3, <2>5 DEF Spots
<1>7. QED BY <1>5, <1>6 DEF Spots, E, T

\* The loops go row by row.
LEMMA SpotsInOrder ==
    ASSUME NEW i \in Window, NEW j \in Window, i < j
    PROVE  Spot(i)[1] < Spot(j)[1] \/ (Spot(i)[1] = Spot(j)[1] /\ Spot(i)[2] < Spot(j)[2])
<1>1. PICK r \in 2 .. ROWS - 3, c \in 2 .. COLS - 3 : i = r * COLS + c
  BY DEF Window
<1>2. PICK q \in 2 .. ROWS - 3, d \in 2 .. COLS - 3 : j = q * COLS + d
  BY DEF Window
<1>3. Spot(i) = <<r, c>> /\ Spot(j) = <<q, d>>
  BY <1>1, <1>2, PlacesInWindow
<1>4. COLS \in Nat /\ r \in Nat /\ q \in Nat /\ c \in 0 .. COLS - 1 /\ d \in 0 .. COLS - 1
  BY EventDetectionAssumption
<1>5. ASSUME q < r PROVE FALSE
  <2> DEFINE x == q * COLS
             y == r * COLS
             z == (r - q - 1) * COLS
  <2>1. x \in Nat /\ y \in Nat /\ z \in Nat /\ y = x + COLS + z
    BY <1>4, <1>5
  <2>2. i = y + c /\ j = x + d
    BY <1>1, <1>2
  <2> HIDE DEF x, y, z
  <2>3. QED BY <1>4, <2>1, <2>2
<1>6. ASSUME q = r PROVE c < d
  <2> DEFINE x == q * COLS
  <2>1. x \in Nat /\ i = x + c /\ j = x + d
    BY <1>1, <1>2, <1>4, <1>6
  <2> HIDE DEF x
  <2>2. QED BY <1>4, <2>1
<1>7. QED BY <1>3, <1>4, <1>5, <1>6

\* What a node has reported are events; with detection on, when it is done, the
\* first of its events, and all unless its CCD has none left.
Answer(n) ==
    LET events == Shown(sent, "EV_DET", n)
        E == EventsIn[settings][scene][n]
    IN  /\ events \subseteq Spots(E)
        /\ n \notin ToDo /\ DetectionOn =>
              \E m \in Nat : /\ events = Spots({i \in E : Rank(E, i) < m})
                             /\ events # Spots(E) => ev_cnt[Ccd(n)] = 0

EventInv == Scanning => \A n \in settings.nodes : Answer(n)

LEMMA EventExec == Types /\ Exec => EventInv'
<1> SUFFICES ASSUME Types, Exec, Scanning' PROVE \A n \in settings'.nodes : Answer(n)'
  BY DEF EventInv
<1>1. settings' = settings /\ settings.nodes \subseteq Nodes
  BY SettingsType DEF Types, Given, Exec
<1>2. reg_21.mode \in Scanned
  BY DEF Exec, Scanning, Scanned
<1>3. (sent' = <<>> \/ sent' = <<HkPacket>>) /\ todo' = InOrder(settings.nodes)
  BY <1>2 DEF Exec, Scanned
<1>4. ASSUME NEW n PROVE Shown(sent', "EV_DET", n) = {}
  <2>1. \A k \in DOMAIN (sent') : sent'[k] \in {HkPacket, FramePackets}
    BY <1>3
  <2>2. "EV_DET" \in Kinds
    BY DEF Kinds
  <2>3. QED BY <2>1, <2>2, NothingShown
<1>5. ASSUME NEW n \in settings'.nodes PROVE Answer(n)'
  <2>1. Members(todo') = settings.nodes
    BY <1>1, <1>3, InOrderShape DEF Lists, Members
  <2>2. n \in ToDo'
    BY <1>1, <2>1 DEF ToDo
  <2>3. QED BY <1>4, <2>2 DEF Answer
<1>6. QED BY <1>5

LEMMA EventKept ==
    ASSUME UNCHANGED <<settings, scene, todo, ev_cnt>>, Scanning' => Scanning,
           DetectionOn' => DetectionOn,
           \A n : Shown(sent', "EV_DET", n) = Shown(sent, "EV_DET", n),
           EventInv
    PROVE  EventInv'
<1> SUFFICES ASSUME Scanning', NEW n \in settings.nodes PROVE Answer(n)'
  BY DEF EventInv
<1>1. Answer(n)
  BY DEF EventInv
<1>2. ToDo' = ToDo
  BY DEF ToDo
<1>3. QED BY <1>1, <1>2 DEF Answer

LEMMA EventReadout == Types /\ FrameInv /\ MaskInv /\ EventInv /\ Readout => EventInv'
<1> SUFFICES ASSUME Types, FrameInv, MaskInv, EventInv, Readout,
                    NEW n \in settings'.nodes
             PROVE  Answer(n)'
  BY DEF EventInv
<1> DEFINE node == Head(todo)
           w == IF settings.wmask_en THEN wmask ELSE <<>>
           E(x) == EventsIn[settings][scene][x]
           c == Ccd(node)
           m == ev_cnt[c]
           b == DetectEvents(node, E(node), m, On, w).pkts
           left == DetectEvents(node, E(node), m, On, w).left
           found == Detected(E(node), m, w)
           S(x) == Shown(sent, "EV_DET", x)
           T(x) == Shown(sent', "EV_DET", x)
<1>1. /\ todo \in Seq(settings.nodes) /\ todo # <<>> /\ settings.nodes \subseteq Nodes
      /\ Distinct(todo)
  BY SettingsType DEF Readout, Types, Nodewise, FrameInv, Once, Given
<1>2. /\ node \in settings.nodes /\ node \in ToDo /\ Members(Tail(todo)) = ToDo \ {node}
  BY <1>1, HeadDone DEF ToDo
<1>3. E(node) \in SUBSET Window /\ node \in Nodes
  BY <1>1, <1>2, EventsInWindow DEF Types, Given
<1>4. c \in Ccds /\ \A ccd \in Ccds : ev_cnt[ccd] \in 0 .. settings.limit
  BY DEF Ccd, Ccds, Types, Nodewise
<1>5. On \in BOOLEAN /\ m \in Nat
  BY <1>4, SettingsType DEF Types, Register, Word, On, Given
<1>6. sent' = sent \o b /\ todo' = Tail(todo) /\ ev_cnt' = [ev_cnt EXCEPT ![c] = left]
      /\ UNCHANGED <<settings, scene, touched, reg_21>> /\ pc = "node"
  BY Zenon DEF Readout, registers, On
<1>7. Batch(b, node) /\ left \in 0 .. m
  BY <1>3, <1>5, DetectBatch, LeftShape
<1>8. /\ m > 0 /\ On => DetectedAll(b, left, node, found, m)
      /\ ~(m > 0 /\ On) => DetectedNone(b, left, node)
      /\ \A type \in Kinds : \A x : x # node => Shown(b, type, x) = {}
  BY <1>3, <1>5, DetectShown
<1>9. found.ev = {i \in E(node) : Rank(E(node), i) < m}
  BY DEF Detected
<1>10. IsFiniteSet(found.ev) /\ Cardinality(found.ev) \in 0 .. m
  BY <1>3, <1>5, DetectionShape
<1>11. E(node) \in SUBSET Nat /\ IsFiniteSet(E(node))
  BY <1>3, WindowFinite, FS_Subset
<1>12. Answer(n) /\ S(node) = {}
  <2>1. n \in settings.nodes /\ Masked(node)
    BY <1>2, <1>6 DEF MaskInv, Scanning
  <2>2. QED BY <1>2, <1>6, <2>1 DEF EventInv, Scanning, Masked
<1>13. DOMAIN ev_cnt = Ccds
  BY DEF Types, Nodewise, Ccds
<1> HIDE DEF node, w, c, m, b, left, found
<1>14. sent \in Seq(Packets) /\ b \in Seq(Packets) /\ "EV_DET" \in Kinds
  BY <1>7 DEF FrameInv, Sending, Batch, Kinds
<1>15. T(n) = S(n) \cup Shown(b, "EV_DET", n)
  BY <1>6, <1>14, ShownMore
<1>16. ToDo' = ToDo \ {node} /\ DetectionOn' = DetectionOn /\ (DetectionOn => On)
  <2>1. DetectionOn' = DetectionOn /\ (DetectionOn => On)
    BY <1>6, Zenon DEF DetectionOn, On
  <2>2. QED BY <1>2, <1>6, <2>1 DEF ToDo
<1> HIDE DEF E
<1>17. CASE n # node
  <2>1. T(n) = S(n)
    BY <1>8, <1>14, <1>15, <1>17
  <2>2. ev_cnt[Ccd(n)] = 0 => ev_cnt'[Ccd(n)] = 0
    <3>1. CASE Ccd(n) = c
      <4>1. ev_cnt'[c] = left
        BY <1>4, <1>6, <1>13
      <4>2. QED BY <1>5, <1>7, <3>1, <4>1 DEF m
    <3>2. CASE Ccd(n) # c
      BY <1>6, <3>2
    <3>3. QED BY <3>1, <3>2
  <2>3. n \in ToDo' <=> n \in ToDo
    BY <1>16, <1>17
  <2>4. E(n)' = E(n)
    BY <1>6 DEF E
  <2>5. QED BY <1>12, <1>16, <2>1, <2>2, <2>3, <2>4 DEF Answer, E
<1>18. CASE n = node
  <2>1. T(n) = Shown(b, "EV_DET", node) /\ ev_cnt'[Ccd(n)] = left
    BY <1>4, <1>6, <1>12, <1>13, <1>15, <1>18 DEF c
  <2>2. CASE m > 0 /\ On
    <3>1. T(n) = Spots(found.ev) /\ left = m - Cardinality(found.ev)
      BY <1>8, <2>1, <2>2 DEF DetectedAll
    <3>2. ASSUME T(n) # Spots(E(node)) PROVE left = 0
      <4>1. ASSUME Cardinality(found.ev) < m PROVE FALSE
        <5>1. \A i \in Nat : Rank(E(node), i) < m
          BY <1>5, <1>9, <1>11, <4>1, NoneOmitted
        <5>2. found.ev = E(node)
          BY <1>9, <1>11, <5>1
        <5>3. QED BY <3>1, <3>2, <5>2
      <4>2. QED BY <1>5, <1>10, <3>1, <4>1
    <3>3. T(n) \subseteq Spots(E(node))
      BY <1>9, <3>1 DEF Spots
    <3>4. QED BY <1>5, <1>6, <1>9, <1>18, <2>1, <3>1, <3>2, <3>3 DEF Answer, E
  <2>3. CASE ~(m > 0 /\ On)
    <3>1. T(n) = {} /\ left = 0
      BY <1>8, <2>1, <2>3 DEF DetectedNone
    <3>2. Spots({i \in E(node) : Rank(E(node), i) < 0}) = {}
      <4>1. \A i : Rank(E(node), i) \in Nat
        BY <1>11, RankType
      <4>2. \A i : ~(Rank(E(node), i) < 0)
        BY <4>1
      <4>3. QED BY <4>2 DEF Spots
    <3>3. 0 \in Nat
      OBVIOUS
    <3>4. QED BY <1>6, <1>18, <2>1, <3>1, <3>2, <3>3 DEF Answer, E
  <2>4. QED BY <2>2, <2>3
<1>19. QED BY <1>17, <1>18

LEMMA EventStep == Types /\ FrameInv /\ MaskInv /\ EventInv /\ [Next]_vars => EventInv'
<1> SUFFICES ASSUME Types, FrameInv, MaskInv, EventInv, [Next]_vars PROVE EventInv'
  OBVIOUS
<1>1. ASSUME Client \/ UNCHANGED vars PROVE EventInv'
  BY <1>1, ClientTouches, EventKept DEF Scanning
<1>2. ASSUME Poll \/ Clear \/ Move PROVE EventInv'
  BY <1>2 DEF Poll, Clear, Move, EventInv, Scanning
<1>3. ASSUME Sync \/ Wait \/ Check \/ Load \/ Store \/ Sleep \/ Again PROVE EventInv'
  BY <1>3 DEF Sync, Wait, Check, Load, Store, Sleep, Again, Goto, EventInv, Scanning
<1>4. ASSUME Finish PROVE EventInv'
  <2>1. UNCHANGED <<settings, scene, todo, ev_cnt>> /\ (Scanning' => Scanning) /\ (DetectionOn' => DetectionOn)
    BY <1>4, Zenon DEF Finish, registers, Scanning, DetectionOn
  <2>2. \A n : Shown(sent', "EV_DET", n) = Shown(sent, "EV_DET", n)
    BY <1>4, FinishShows DEF Kinds
  <2>3. QED BY <2>1, <2>2, EventKept
<1>5. QED BY <1>1, <1>2, <1>3, <1>4, EventExec, EventReadout DEF Next, MainLoop

\* What is reported as an event is a peak that reaches the threshold handed to
\* its node, whatever the client writes meanwhile; no CCD reports more than its
\* limit; with event detection on, such peaks go unreported behind the others
\* only, and only at the limit.
THEOREM EventsReportedCorrect == Spec => []EventsReported
<1>1. Types /\ MaskInv /\ EventInv => EventsReported
  <2> SUFFICES ASSUME Types, MaskInv, EventInv, mode \in Scanned, pc \in {"node", "move"},
                      NEW n \in settings.nodes
               PROVE  LET reported == SentOf("EV_DET", n)
                          reaching == Reaching[settings][scene][n]
                      IN  /\ reported \subseteq reaching
                          /\ Cardinality(Reported(Ccd(n))) <= settings.limit
                          /\ DetectionOn /\ n \notin Range(todo) /\ reported # reaching =>
                                /\ Cardinality(Reported(Ccd(n))) = settings.limit
                                /\ \A m \in reaching \ reported, e \in reported :
                                      e[1] < m[1] \/ (e[1] = m[1] /\ e[2] < m[2])
    BY Zenon DEF EventsReported
  <2> DEFINE E == EventsIn[settings][scene][n]
             events == Shown(sent, "EV_DET", n)
             all == Spots(E)
  <2>1. n \in Nodes /\ settings \in Settings /\ scene \in Scenes
    BY SettingsType DEF Types, Given
  <2>2. SentOf("EV_DET", n) = events /\ Reaching[settings][scene][n] = all
        /\ Reported(Ccd(n)) = ReportedOf(sent, settings.nodes, Ccd(n))
    BY <2>1, SentShown, SentReported, ReachingFound
  <2>3. E \in SUBSET Window /\ E \in SUBSET Nat /\ IsFiniteSet(E)
    BY <2>1, EventsInWindow, WindowFinite, FS_Subset
  <2>4. Ccd(n) \in Ccds
    BY DEF Ccd, Ccds
  <2>5. Answer(n) /\ Quota(Ccd(n))
    BY <2>4 DEF MaskInv, EventInv, Scanning
  <2>6. settings.limit \in Nat /\ ev_cnt[Ccd(n)] \in 0 .. settings.limit
    BY <2>1, <2>4, SettingsType DEF Types, Nodewise, Ccds
  <2>7. Cardinality(Reported(Ccd(n))) \in Nat /\ Cardinality(Reported(Ccd(n))) <= settings.limit
    BY <2>2, <2>5, <2>6, FS_CardinalityType DEF Quota
  <2>8. n \notin Range(todo) => n \notin ToDo
    BY DEF Range, ToDo, Members
  <2>9. ASSUME DetectionOn, n \notin ToDo, events # all
        PROVE  /\ Cardinality(Reported(Ccd(n))) = settings.limit
               /\ \A p \in all \ events, e \in events :
                     e[1] < p[1] \/ (e[1] = p[1] /\ e[2] < p[2])
    <3>1. PICK m \in Nat : events = Spots({i \in E : Rank(E, i) < m}) /\ ev_cnt[Ccd(n)] = 0
      BY <2>5, <2>9 DEF Answer
    <3>2. Cardinality(Reported(Ccd(n))) = settings.limit
      BY <2>2, <2>5, <2>6, <2>9, <3>1 DEF Quota
    <3>3. ASSUME NEW p \in all \ events, NEW e \in events
          PROVE  e[1] < p[1] \/ (e[1] = p[1] /\ e[2] < p[2])
      <4>1. PICK i \in E : e = Spot(i) /\ Rank(E, i) < m
        BY <3>1 DEF Spots
      <4>2. PICK j \in E : p = Spot(j) /\ ~(Rank(E, j) < m)
        BY <3>1 DEF Spots
      <4>3. i < j
        <5>1. i \in Nat /\ j \in Nat /\ i # j
          BY <2>3, <4>1, <4>2
        <5>2. Rank(E, i) \in Nat /\ Rank(E, j) \in Nat
          BY <2>3, RankType
        <5>3. j < i => Rank(E, j) < Rank(E, i)
          BY <2>3, <5>1, RankGrows
        <5>4. QED BY <4>1, <4>2, <5>1, <5>2, <5>3
      <4>4. QED BY <2>3, <4>1, <4>2, <4>3, SpotsInOrder
    <3>4. QED BY <3>2, <3>3
  <2>10. events \subseteq all
    BY <2>5 DEF Answer
  <2> HIDE DEF events, all, E, Types, MaskInv, EventInv
  <2>11. QED BY <2>2, <2>7, <2>8, <2>9, <2>10, Zenon
<1>2. Init => MaskInv /\ EventInv
  BY DEF Init, MaskInv, EventInv, Scanning
<1>3. QED BY TypesInit, TypesNext, FrameInit, FrameStep, WanderStep, EventStep, <1>1, <1>2, PTL DEF Spec
=============================================================================
