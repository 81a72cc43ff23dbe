--------------------------- MODULE LegacyStoreProofs ---------------------------
(***************************************************************************)
(* Theorems about LegacyStore, for any chains, messages, events and        *)
(* bounds: after any sequence of range writes, late repetitions of them    *)
(* and rollbacks, the tables are what a database holds that only ever saw  *)
(* the blocks indexed now.                                                 *)
(***************************************************************************)
EXTENDS LegacyStore, SetInduction, TLAPS

-----------------------------------------------------------------------------
(* The types of the rows, with what relates their fields.                  *)

Keyed(table) == \A r, s \in table : r.id = s.id => r = s

AcceptedRows ==
    {r \in [id : Msg, chain : Chain, block : Height,
            oracle : LogId \cup {Unset}, relayer : LogId \cup {Unset}] :
        r.id \in MsgOf[r.chain]}

AssignedRows ==
    {r \in [id : LogId, chain : Chain, block : Height, msg : Msg,
            oracle : {"listed", "b49e", "other"}, relayer : {"listed", "other"}] :
        /\ r.id[1] = r.chain /\ r.id[2] = r.block
        /\ r.msg \in MsgOf[r.chain]}

MessageRows == [id : Msg, chain : Chain, block : Height]

AssignedTables == {t \in SUBSET AssignedRows : IsFiniteSet(t) /\ Keyed(t)}

Databases ==
    [accepted : SUBSET AcceptedRows, assigned : AssignedTables,
     dispatched : SUBSET MessageRows, imported : SUBSET MessageRows,
     msgport : SUBSET [id : EventId, chain : Chain, block : Height],
     signatures : SUBSET [id : EventId, chain : Payload, block : Height]]

-----------------------------------------------------------------------------
(* The order of the assignments of one chain.                              *)

OneChain(t) == t \subseteq AssignedRows /\ Keyed(t) /\ \A a, b \in t : a.chain = b.chain

LEMMA AssignedRowFields ==
  ASSUME NEW a \in AssignedRows
  PROVE  /\ a.id \in LogId /\ a.id = <<a.chain, a.block, a.id[3]>>
         /\ a.id[3] \in 1..MaxEvents /\ a.id[3] \in Int
         /\ a.chain \in Chain
         /\ a.block \in 1..MaxBlock /\ a.block \in Int
         /\ a.msg \in MsgOf[a.chain] /\ a.msg \in Msg
<1>1. a.id \in Chain \X Height \X (1..MaxEvents) /\ a.id[1] = a.chain /\ a.id[2] = a.block
  BY DEF AssignedRows, LogId
<1>2. a.id = <<a.id[1], a.id[2], a.id[3]>> /\ a.id[3] \in 1..MaxEvents
  BY <1>1
<1>3. a.chain \in Chain /\ a.block \in 1..MaxBlock /\ a.msg \in MsgOf[a.chain] /\ a.msg \in Msg
  BY DEF AssignedRows, Height
<1> QED BY <1>1, <1>2, <1>3, StoreAssumption DEF LogId

\* Of two assignments of a chain one is the earlier.
LEMMA EarlierTotal ==
  ASSUME NEW t, OneChain(t), NEW a \in t, NEW b \in t
  PROVE  /\ a = b \/ Earlier(a, b) \/ Earlier(b, a)
         /\ ~(Earlier(a, b) /\ Earlier(b, a))
         /\ ~Earlier(a, a)
<1>1. a \in AssignedRows /\ b \in AssignedRows /\ a.chain = b.chain
  BY DEF OneChain
<1>2. /\ a.id = <<a.chain, a.block, a.id[3]>> /\ b.id = <<b.chain, b.block, b.id[3]>>
      /\ a.id[3] \in Int /\ b.id[3] \in Int /\ a.block \in Int /\ b.block \in Int
  BY <1>1, AssignedRowFields
<1>3. a.block = b.block /\ a.id[3] = b.id[3] => a.id = b.id
  BY <1>1, <1>2, Zenon
<1>4. a.block = b.block /\ a.id[3] = b.id[3] => a = b
  BY <1>3 DEF OneChain, Keyed
<1> QED BY <1>2, <1>4 DEF Earlier

LEMMA LastExists ==
  ASSUME NEW t, OneChain(t), t # {}
  PROVE  /\ LastOf(t) \in t
         /\ \A a \in t : a = LastOf(t) \/ Earlier(a, LastOf(t))
<1> DEFINE B == {a.block : a \in t}
           M == Max(B)
           T == {a \in t : a.block = M}
           I == {a.id[3] : a \in T}
           J == Max(I)
<1>1. \A a \in t : /\ a.block \in 1..MaxBlock /\ a.block \in Int
                   /\ a.id[3] \in 1..MaxEvents /\ a.id[3] \in Int
  BY AssignedRowFields DEF OneChain
<1>2. MaxBlock \in Nat /\ MaxEvents \in Nat
  BY StoreAssumption
<1>3. B \in SUBSET (1..MaxBlock) /\ B # {}
  BY <1>1
<1>4. M \in B /\ \A x \in B : x <= M
  <2> HIDE DEF B
  <2> QED BY <1>2, <1>3, MaxOfPositions
<1>5. I \in SUBSET (1..MaxEvents) /\ I # {}
  BY <1>1, <1>4
<1>6. J \in I /\ \A x \in I : x <= J
  <2> HIDE DEF I
  <2> QED BY <1>2, <1>5, MaxOfPositions
<1>7. PICK a \in t : a.block = M /\ a.id[3] = J
  <2> HIDE DEF M, J
  <2> QED BY <1>6
<1>8. ASSUME NEW b \in t PROVE b = a \/ Earlier(b, a)
  <2>1. b.block <= M
    <3> HIDE DEF M
    <3> QED BY <1>4
  <2>2. b.block = M => b.id[3] <= J
    <3> HIDE DEF M, J
    <3> QED BY <1>6
  <2>3. b = a \/ Earlier(b, a) \/ Earlier(a, b)
    BY EarlierTotal
  <2> HIDE DEF M, J
  <2> QED BY <1>1, <1>7, <2>1, <2>2, <2>3 DEF Earlier
<1> QED BY <1>8 DEF LastOf

LEMMA LastUnique ==
  ASSUME NEW t, OneChain(t), NEW a \in t, \A b \in t : b = a \/ Earlier(b, a)
  PROVE  LastOf(t) = a
<1>1. LastOf(t) \in t /\ (a = LastOf(t) \/ Earlier(a, LastOf(t)))
  BY LastExists
<1>2. LastOf(t) = a \/ Earlier(LastOf(t), a)
  BY <1>1
<1> QED BY <1>1, <1>2, EarlierTotal

LEMMA OneChainSubset ==
  ASSUME NEW t, OneChain(t), NEW s \in SUBSET t
  PROVE  OneChain(s)
BY DEF OneChain, Keyed
-----------------------------------------------------------------------------
(* What the UPDATEs of a sequence of assignments come to: each column holds *)
(* the last assignment that counts for it.                                  *)

OracleRows(r, t)  == {a \in {x \in t : x.msg = r.id} : OracleMatches(a, r)}
RelayerRows(r, t) == {a \in {x \in t : x.msg = r.id} : a.relayer = "listed"}

LastOr(t, id) == IF t = {} THEN id ELSE LastOf(t).id

Columns(r, o, l) == [r EXCEPT !.oracle = o, !.relayer = l]

Filled(r, t) ==
    Columns(r, LastOr(OracleRows(r, t), r.oracle), LastOr(RelayerRows(r, t), r.relayer))

LEMMA AcceptedRowFields ==
  ASSUME NEW r \in AcceptedRows
  PROVE  /\ r = [id |-> r.id, chain |-> r.chain, block |-> r.block,
                 oracle |-> r.oracle, relayer |-> r.relayer]
         /\ r.id \in Msg /\ r.chain \in Chain /\ r.block \in Height
         /\ r.oracle \in LogId \cup {Unset} /\ r.relayer \in LogId \cup {Unset}
         /\ r.id \in MsgOf[r.chain]
BY DEF AcceptedRows

LEMMA WithColumns ==
  ASSUME NEW r \in AcceptedRows,
         NEW o \in LogId \cup {Unset}, NEW l \in LogId \cup {Unset}
  PROVE  /\ Columns(r, o, l) \in AcceptedRows
         /\ Columns(r, o, l) = [id |-> r.id, chain |-> r.chain, block |-> r.block, oracle |-> o, relayer |-> l]
<1> DEFINE q == [r EXCEPT !.oracle = o, !.relayer = l]
           Rows == [id : Msg, chain : Chain, block : Height,
                    oracle : LogId \cup {Unset}, relayer : LogId \cup {Unset}]
<1>1. r \in Rows
  BY DEF AcceptedRows
<1>2. q \in Rows
  BY <1>1
<1>3. q.id = r.id /\ q.chain = r.chain /\ q.block = r.block /\ q.oracle = o /\ q.relayer = l
  BY <1>1
<1> HIDE DEF q
<1>4. q = [id |-> q.id, chain |-> q.chain, block |-> q.block,
           oracle |-> q.oracle, relayer |-> q.relayer]
  BY <1>2
<1>5. q \in AcceptedRows
  BY <1>2, <1>3, AcceptedRowFields DEF AcceptedRows
<1> QED BY <1>3, <1>4, <1>5 DEF q, Columns

LEMMA AssignTyped ==
  ASSUME NEW r \in AcceptedRows, NEW a \in AssignedRows
  PROVE  Assign(r, a) \in AcceptedRows
<1>1. a.id \in LogId
  BY AssignedRowFields
<1>2. r.oracle \in LogId \cup {Unset} /\ r.relayer \in LogId \cup {Unset}
  BY AcceptedRowFields
<1> QED BY <1>1, <1>2, WithColumns DEF Assign, Columns

LEMMA BackfillTyped ==
  ASSUME NEW table \in SUBSET AcceptedRows, NEW a \in AssignedRows
  PROVE  BackfillAssignment(table, a) \in SUBSET AcceptedRows
BY AssignTyped DEF BackfillAssignment

\* BackfillAll is a fold that takes the assignments from the last one down.
LEMMA BackfillFold ==
  ASSUME NEW table \in SUBSET AcceptedRows, NEW t, IsFiniteSet(t), OneChain(t)
  PROVE  \E h : /\ h \in [SUBSET t -> SUBSET AcceptedRows]
                /\ \A s \in SUBSET t :
                     h[s] = IF s = {} THEN table
                            ELSE BackfillAssignment(h[s \ {LastOf(s)}], LastOf(s))
                /\ BackfillAll(table, t) = h[t]
<1> DEFINE D == SUBSET AcceptedRows
           last == [s \in SUBSET t |-> LastOf(s)]
           F == [x \in D \X t |-> BackfillAssignment(x[1], x[2])]
           Step(g, s) == IF s = {} THEN table
                         ELSE BackfillAssignment(g[s \ {LastOf(s)}], LastOf(s))
           Solves(g) == g = [s \in SUBSET t |-> Step(g, s)]
<1>1. \A s \in SUBSET t : s # {} => LastOf(s) \in s
  BY OneChainSubset, LastExists
<1>2. F \in [D \X t -> D]
  BY BackfillTyped DEF OneChain
<1>3. IsFold(t, last, D, table, F)
  BY <1>1, <1>2 DEF IsFold
<1>4. PICK h : FoldSolution(h, t, last, D, table, F)
  <2> HIDE DEF D, last, F
  <2> QED BY <1>3, FoldExists
<1>5. h \in [SUBSET t -> D]
  BY <1>4 DEF FoldSolution
<1>6. ASSUME NEW s \in SUBSET t PROVE h[s] = Step(h, s)
  <2>1. h[s] = IF s = {} THEN table ELSE F[<<h[s \ {last[s]}], last[s]>>]
    BY <1>4 DEF FoldSolution
  <2>2. CASE s # {}
    <3>1. /\ LastOf(s) \in t /\ last[s] = LastOf(s)
          /\ s \ {LastOf(s)} \in SUBSET t /\ h[s \ {LastOf(s)}] \in D
      BY <1>1, <1>5, <2>2
    <3>2. F[<<h[s \ {LastOf(s)}], LastOf(s)>>]
            = BackfillAssignment(h[s \ {LastOf(s)}], LastOf(s))
      BY <3>1
    <3> HIDE DEF F, last
    <3> QED BY <2>1, <2>2, <3>1, <3>2
  <2> QED BY <2>1, <2>2
<1>7. Solves(h)
  BY <1>5, <1>6
<1>8. BackfillAll(table, t) = (CHOOSE g : Solves(g))[t]
  BY DEF BackfillAll, MapThenFoldSet
<1>9. PICK g : Solves(g) /\ BackfillAll(table, t) = g[t]
  <2> HIDE DEF Solves
  <2> QED BY <1>7, <1>8
<1>10. ASSUME NEW s \in SUBSET t PROVE g[s] = Step(g, s)
  BY <1>9
<1>11. \A s \in SUBSET t : g[s] \in D
  <2> DEFINE T == {s \in SUBSET t : g[s] \in D}
  <2>1. {} \in T
    <3>1. {} \in SUBSET t
      OBVIOUS
    <3> QED BY <1>10, <3>1
  <2>2. ASSUME NEW s \in SUBSET t, s # {}, s \ {last[s]} \in T PROVE s \in T
    <3>1. LastOf(s) \in t /\ last[s] = LastOf(s)
      BY <1>1, <2>2
    <3>2. g[s] = BackfillAssignment(g[s \ {LastOf(s)}], LastOf(s))
      BY <1>10, <2>2
    <3>3. LastOf(s) \in AssignedRows
      BY <3>1 DEF OneChain
    <3> QED BY <2>2, <3>1, <3>2, <3>3, BackfillTyped
  <2> HIDE DEF T
  <2>3. SUBSET t \subseteq T
    <3> DEFINE l == last
    <3>1. \A s \in SUBSET t : s # {} => l[s] \in s
      BY <1>1
    <3>2. \A s \in SUBSET t : s # {} /\ s \ {l[s]} \in T => s \in T
      BY <2>2
    <3> HIDE DEF l
    <3> QED BY <2>1, <3>1, <3>2, FoldInduction
  <2> QED BY <2>3 DEF T
<1>12. g \in [SUBSET t -> D]
  <2>1. g = [s \in SUBSET t |-> g[s]]
    BY <1>9
  <2> QED BY <1>11, <2>1
<1> QED BY <1>9, <1>10, <1>12
LEMMA LastOrTyped ==
  ASSUME NEW t, OneChain(t), NEW id \in LogId \cup {Unset}
  PROVE  LastOr(t, id) \in LogId \cup {Unset}
<1>1. t # {} => LastOf(t) \in AssignedRows
  BY LastExists DEF OneChain
<1> QED BY <1>1, AssignedRowFields DEF LastOr

LEMMA RowsOfOneChain ==
  ASSUME NEW t, OneChain(t), NEW r
  PROVE  OneChain(OracleRows(r, t)) /\ OneChain(RelayerRows(r, t))
<1>1. OracleRows(r, t) \in SUBSET t /\ RelayerRows(r, t) \in SUBSET t
  BY DEF OracleRows, RelayerRows
<1> QED BY <1>1, OneChainSubset

LEMMA FilledFields ==
  ASSUME NEW t, OneChain(t), NEW r \in AcceptedRows
  PROVE  /\ Filled(r, t) \in AcceptedRows
         /\ Filled(r, t).id = r.id
         /\ Filled(r, t).chain = r.chain
         /\ Filled(r, t).block = r.block
         /\ Filled(r, t).oracle = LastOr(OracleRows(r, t), r.oracle)
         /\ Filled(r, t).relayer = LastOr(RelayerRows(r, t), r.relayer)
<1>1. /\ LastOr(OracleRows(r, t), r.oracle) \in LogId \cup {Unset}
      /\ LastOr(RelayerRows(r, t), r.relayer) \in LogId \cup {Unset}
  BY RowsOfOneChain, LastOrTyped, AcceptedRowFields
<1> QED BY <1>1, WithColumns DEF Filled

\* The last of a set decides if it counts, and has no say if it does not.
LEMMA LastDecides ==
  ASSUME NEW s, OneChain(s), NEW a \in s, \A b \in s : b = a \/ Earlier(b, a),
         NEW t \in SUBSET s, a \in t, NEW id
  PROVE  LastOr(t, id) = a.id
<1>1. OneChain(t) /\ \A b \in t : b = a \/ Earlier(b, a)
  BY OneChainSubset
<1>2. LastOf(t) = a
  BY <1>1, LastUnique
<1> QED BY <1>2 DEF LastOr

LEMMA FilledStep ==
  ASSUME NEW s, OneChain(s), NEW a \in s, \A b \in s : b = a \/ Earlier(b, a),
         NEW r \in AcceptedRows
  PROVE  LET q == Filled(r, s \ {a}) IN
         (IF q.id = a.msg THEN Assign(q, a) ELSE q) = Filled(r, s)
<1> DEFINE t == s \ {a}
           q == Filled(r, t)
           p == IF q.id = a.msg THEN Assign(q, a) ELSE q
<1>1. OneChain(t) /\ a \in AssignedRows
  BY OneChainSubset DEF OneChain
<1>2. /\ q \in AcceptedRows /\ q.id = r.id /\ q.chain = r.chain /\ q.block = r.block
      /\ q.oracle = LastOr(OracleRows(r, t), r.oracle)
      /\ q.relayer = LastOr(RelayerRows(r, t), r.relayer)
  BY <1>1, FilledFields
<1> HIDE DEF q
<1>3. OracleMatches(a, q) <=> OracleMatches(a, r)
  BY <1>2 DEF OracleMatches
<1> DEFINE o == IF a.msg = r.id /\ OracleMatches(a, r) THEN a.id ELSE q.oracle
           l == IF a.msg = r.id /\ a.relayer = "listed" THEN a.id ELSE q.relayer
<1>4. o = LastOr(OracleRows(r, s), r.oracle)
  <2>1. CASE a.msg = r.id /\ OracleMatches(a, r)
    <3>1. a \in OracleRows(r, s) /\ OracleRows(r, s) \in SUBSET s
      BY <2>1 DEF OracleRows
    <3> QED BY <2>1, <3>1, LastDecides
  <2>2. CASE ~(a.msg = r.id /\ OracleMatches(a, r))
    <3>1. OracleRows(r, s) = OracleRows(r, t)
      BY <2>2 DEF OracleRows
    <3> QED BY <1>2, <2>2, <3>1
  <2> QED BY <2>1, <2>2
<1>5. l = LastOr(RelayerRows(r, s), r.relayer)
  <2>1. CASE a.msg = r.id /\ a.relayer = "listed"
    <3>1. a \in RelayerRows(r, s) /\ RelayerRows(r, s) \in SUBSET s
      BY <2>1 DEF RelayerRows
    <3> QED BY <2>1, <3>1, LastDecides
  <2>2. CASE ~(a.msg = r.id /\ a.relayer = "listed")
    <3>1. RelayerRows(r, s) = RelayerRows(r, t)
      BY <2>2 DEF RelayerRows
    <3> QED BY <1>2, <2>2, <3>1
  <2> QED BY <2>1, <2>2
<1>6. /\ o \in LogId \cup {Unset} /\ l \in LogId \cup {Unset}
      /\ LastOr(OracleRows(r, s), r.oracle) \in LogId \cup {Unset}
      /\ LastOr(RelayerRows(r, s), r.relayer) \in LogId \cup {Unset}
  BY <1>4, <1>5, RowsOfOneChain, LastOrTyped, AcceptedRowFields
<1>7. Filled(r, s) = [id |-> r.id, chain |-> r.chain, block |-> r.block, oracle |-> o, relayer |-> l]
  <2>1. Filled(r, s) = Columns(r, o, l)
    BY <1>4, <1>5 DEF Filled
  <2> HIDE DEF o, l
  <2> QED BY <1>6, <2>1, WithColumns
<1>8. p = [id |-> r.id, chain |-> r.chain, block |-> r.block, oracle |-> o, relayer |-> l]
  <2>1. CASE a.msg = r.id
    <3>1. p = Columns(q, o, l)
      BY <1>2, <1>3, <2>1 DEF Assign, Columns
    <3> HIDE DEF o, l, p
    <3> QED BY <1>2, <1>6, <3>1, WithColumns
  <2>2. CASE a.msg # r.id
    <3>1. p = q /\ o = q.oracle /\ l = q.relayer
      BY <1>2, <2>2
    <3> QED BY <1>2, <3>1, AcceptedRowFields
  <2> QED BY <2>1, <2>2
<1> QED BY <1>7, <1>8 DEF q

LEMMA Backfilled ==
  ASSUME NEW table \in SUBSET AcceptedRows, NEW t, IsFiniteSet(t), OneChain(t)
  PROVE  BackfillAll(table, t) = {Filled(r, t) : r \in table}
<1>1. PICK h : /\ h \in [SUBSET t -> SUBSET AcceptedRows]
               /\ \A s \in SUBSET t :
                    h[s] = IF s = {} THEN table
                           ELSE BackfillAssignment(h[s \ {LastOf(s)}], LastOf(s))
               /\ BackfillAll(table, t) = h[t]
  BY BackfillFold
<1> DEFINE last == [s \in SUBSET t |-> LastOf(s)]
           T == {s \in SUBSET t : h[s] = {Filled(r, s) : r \in table}}
<1>2. \A s \in SUBSET t : s # {} => last[s] \in s /\ last[s] = LastOf(s)
  BY OneChainSubset, LastExists
<1>3. {} \in T
  <2>1. h[{}] = table
    BY <1>1
  <2>2. ASSUME NEW r \in table PROVE Filled(r, {}) = r
    <3>1. /\ LastOr(OracleRows(r, {}), r.oracle) = r.oracle
          /\ LastOr(RelayerRows(r, {}), r.relayer) = r.relayer
      BY DEF LastOr, OracleRows, RelayerRows
    <3>2. r \in AcceptedRows
      OBVIOUS
    <3>3. Filled(r, {}) = [id |-> r.id, chain |-> r.chain, block |-> r.block,
                           oracle |-> r.oracle, relayer |-> r.relayer]
      BY <3>1, <3>2, AcceptedRowFields, WithColumns DEF Filled
    <3> QED BY <3>2, <3>3, AcceptedRowFields
  <2> QED BY <2>1, <2>2
<1>4. ASSUME NEW s \in SUBSET t, s # {}, s \ {last[s]} \in T PROVE s \in T
  <2> DEFINE a == LastOf(s)
             q(r) == Filled(r, s \ {a})
  <2>1. OneChain(s) /\ a \in s /\ last[s] = a
    BY <1>2, <1>4, OneChainSubset
  <2>2. \A b \in s : b = a \/ Earlier(b, a)
    BY <1>4, <2>1, LastExists
  <2>3. h[s \ {a}] = {q(r) : r \in table}
    BY <1>4, <2>1
  <2>4. h[s] = BackfillAssignment(h[s \ {a}], a)
    BY <1>1, <1>4
  <2>5. h[s] = {IF q(r).id = a.msg THEN Assign(q(r), a) ELSE q(r) : r \in table}
    <3> HIDE DEF a, q
    <3> QED BY <2>3, <2>4 DEF BackfillAssignment
  <2>6. \A r \in table :
           (IF q(r).id = a.msg THEN Assign(q(r), a) ELSE q(r)) = Filled(r, s)
    <3> HIDE DEF a
    <3> QED BY <2>1, <2>2, FilledStep
  <2>7. h[s] = {Filled(r, s) : r \in table}
    <3> HIDE DEF a, q
    <3> QED BY <2>5, <2>6
  <2> QED BY <2>7
<1>5. SUBSET t \subseteq T
  <2> HIDE DEF T, last
  <2> QED BY <1>2, <1>3, <1>4, FoldInduction
<1>6. t \in T
  BY <1>5
<1> QED BY <1>1, <1>6
-----------------------------------------------------------------------------
(* Events, each with the place it is found at, and what writing one does.  *)

FoundEvents ==
    {x \in [chain : Chain, block : Height, index : 1..MaxEvents, hash : BlockHash,
            event : Event] :
        x.hash[1] = x.chain /\ x.event \in EmittedOn(x.chain)}

\* What the events of a type carry, and where they are emitted.
LEMMA EventFields ==
  ASSUME NEW c, NEW e \in EmittedOn(c)
  PROVE  /\ e \in Event
         /\ e.type \in {"accepted", "assigned", "dispatched", "imported", "msgport", "signature"}
         /\ e.type \in {"accepted", "assigned"} => e.msg \in Msg /\ e.msg \in MsgOf[c]
         /\ e.type \in {"dispatched", "imported"} => e.msg \in Msg /\ e.msg \in MsgTo[c]
         /\ e.type = "assigned" => /\ e.oracle \in {"listed", "b49e", "other"}
                                   /\ e.relayer \in {"listed", "other"}
         /\ e.type = "signature" => e.payload \in Payload
<1>1. e \in Event
  BY StoreAssumption DEF EmittedOn
<1> QED BY <1>1 DEF Event, EmittedOn

LEMMA FoundFields ==
  ASSUME NEW x \in FoundEvents
  PROVE  /\ x.chain \in Chain /\ x.block \in Height /\ x.index \in 1..MaxEvents
         /\ x.hash \in BlockHash /\ x.hash[1] = x.chain
         /\ x.event \in EmittedOn(x.chain)
         /\ x = [chain |-> x.chain, block |-> x.block, index |-> x.index, hash |-> x.hash,
                 event |-> x.event]
         /\ <<x.chain, x.block, x.index>> \in LogId
         /\ EventLogId(x) \in EventId
BY DEF FoundEvents, LogId, EventId, EventLogId

LEMMA AssignedRowTyped ==
  ASSUME NEW x \in FoundEvents, x.event.type = "assigned"
  PROVE  /\ AssignedRow(x, x.event) \in AssignedRows
         /\ AssignedRow(x, x.event).id = <<x.chain, x.block, x.index>>
         /\ AssignedRow(x, x.event).msg = x.event.msg
         /\ AssignedRow(x, x.event).block = x.block
         /\ AssignedRow(x, x.event).chain = x.chain
BY FoundFields, EventFields DEF AssignedRow, AssignedRows

LEMMA AcceptedRowTyped ==
  ASSUME NEW x \in FoundEvents, x.event.type = "accepted"
  PROVE  /\ AcceptedRow(x, x.event.msg) \in AcceptedRows
         /\ AcceptedRow(x, x.event.msg) =
              [id |-> x.event.msg, chain |-> x.chain, block |-> x.block,
               oracle |-> Unset, relayer |-> Unset]
BY FoundFields, EventFields DEF AcceptedRow, AcceptedRows

\* The assignments of one message are all of the chain it is sent on.
LEMMA OneMessage ==
  ASSUME NEW t \in AssignedTables, NEW msg
  PROVE  LET s == {a \in t : a.msg = msg} IN IsFiniteSet(s) /\ OneChain(s)
<1> DEFINE s == {a \in t : a.msg = msg}
<1>1. s \in SUBSET t /\ IsFiniteSet(t) /\ Keyed(t) /\ t \subseteq AssignedRows
  BY DEF AssignedTables
<1>2. IsFiniteSet(s)
  BY <1>1, FS_Subset
<1>3. ASSUME NEW a \in s, NEW b \in s PROVE a.chain = b.chain
  <2>1. /\ a.chain \in Chain /\ b.chain \in Chain
        /\ msg \in MsgOf[a.chain] /\ msg \in MsgOf[b.chain]
    BY <1>1, AssignedRowFields
  <2> QED BY <2>1, StoreAssumption
<1> QED BY <1>1, <1>2, <1>3 DEF OneChain, Keyed

LEMMA UpsertAssigned ==
  ASSUME NEW t \in AssignedTables, NEW row \in AssignedRows
  PROVE  Upsert(t, row) \in AssignedTables
<1> DEFINE s == {r \in t : r.id # row.id}
<1>1. IsFiniteSet(s) /\ s \subseteq AssignedRows /\ Keyed(t) /\ s \subseteq t
  BY FS_Subset DEF AssignedTables
<1>2. IsFiniteSet(s \cup {row})
  BY <1>1, FS_AddElement
<1>3. Keyed(s \cup {row})
  BY <1>1 DEF Keyed
<1> QED BY <1>1, <1>2, <1>3 DEF Upsert, AssignedTables

\* The rows an acceptance leaves before the assignments are filled in.
KeptRows(d, row) ==
    LET old == {r \in d.accepted : r.id = row.id}
    IN  (d.accepted \ old)
          \cup (IF old = {} THEN {row} ELSE {Columns(row, r.oracle, r.relayer) : r \in old})

LEMMA KeptTyped ==
  ASSUME NEW d \in Databases, NEW row \in AcceptedRows
  PROVE  KeptRows(d, row) \in SUBSET AcceptedRows
<1>1. d.accepted \in SUBSET AcceptedRows
  BY DEF Databases
<1>2. \A r \in d.accepted : Columns(row, r.oracle, r.relayer) \in AcceptedRows
  BY <1>1, AcceptedRowFields, WithColumns
<1> QED BY <1>1, <1>2 DEF KeptRows

LEMMA WriteAcceptedIs ==
  ASSUME NEW d \in Databases, NEW x \in FoundEvents, x.event.type = "accepted"
  PROVE  LET row == AcceptedRow(x, x.event.msg)
             t   == {a \in d.assigned : a.msg = x.event.msg}
         IN  /\ WriteAccepted(d, x, x.event) =
                  [d EXCEPT !.accepted = {Filled(r, t) : r \in KeptRows(d, row)}]
             /\ {Filled(r, t) : r \in KeptRows(d, row)} \in SUBSET AcceptedRows
<1> DEFINE row == AcceptedRow(x, x.event.msg)
           t   == {a \in d.assigned : a.msg = x.event.msg}
           all == {Filled(r, t) : r \in KeptRows(d, row)}
<1>1. row \in AcceptedRows /\ row.id = x.event.msg
  BY AcceptedRowTyped DEF AcceptedRow
<1>2. KeptRows(d, row) \in SUBSET AcceptedRows
  BY <1>1, KeptTyped
<1>3. IsFiniteSet(t) /\ OneChain(t)
  BY OneMessage DEF Databases
<1>4. BackfillAll(KeptRows(d, row), t) = all
  <2> HIDE DEF row, t
  <2> QED BY <1>2, <1>3, Backfilled
<1>5. all \in SUBSET AcceptedRows
  <2> HIDE DEF row, t
  <2> QED BY <1>2, <1>3, FilledFields
<1>6. WriteAccepted(d, x, x.event) = [d EXCEPT !.accepted = BackfillAll(KeptRows(d, row), t)]
  BY DEF WriteAccepted, KeptRows, Columns
<1> QED BY <1>4, <1>5, <1>6
LEMMA UpsertIn ==
  ASSUME NEW S, NEW t \in SUBSET S, NEW row \in S
  PROVE  Upsert(t, row) \in SUBSET S
BY DEF Upsert

LEMMA WriteAssignedIs ==
  ASSUME NEW d \in Databases, NEW x \in FoundEvents, x.event.type = "assigned"
  PROVE  LET row == AssignedRow(x, x.event) IN
         /\ WriteAssigned(d, x, x.event) =
              [d EXCEPT !.assigned = Upsert(d.assigned, row),
                        !.accepted = BackfillAssignment(d.accepted, row)]
         /\ Upsert(d.assigned, row) \in AssignedTables
         /\ BackfillAssignment(d.accepted, row) \in SUBSET AcceptedRows
<1> DEFINE row == AssignedRow(x, x.event)
<1>1. row \in AssignedRows /\ d.assigned \in AssignedTables /\ d.accepted \in SUBSET AcceptedRows
  BY AssignedRowTyped DEF Databases
<1> HIDE DEF row
<1>2. /\ Upsert(d.assigned, row) \in AssignedTables
      /\ BackfillAssignment(d.accepted, row) \in SUBSET AcceptedRows
  BY <1>1, UpsertAssigned, BackfillTyped
<1> USE DEF row
<1> QED BY <1>2 DEF WriteAssigned

\* Writing an event keeps the types of the tables.
LEMMA WriteTyped ==
  ASSUME NEW d \in Databases, NEW x \in FoundEvents
  PROVE  WriteLegacyEvent(d, x, x.event) \in Databases
<1> DEFINE e == x.event
<1>1. e \in EmittedOn(x.chain) /\ x.chain \in Chain /\ x.block \in Height
      /\ EventLogId(x) \in EventId
  BY FoundFields
<1>2. CASE e.type = "accepted"
  <2> DEFINE all == {Filled(r, {a \in d.assigned : a.msg = e.msg}) :
                       r \in KeptRows(d, AcceptedRow(x, e.msg))}
  <2>1. WriteAccepted(d, x, e) = [d EXCEPT !.accepted = all] /\ all \in SUBSET AcceptedRows
    BY <1>2, WriteAcceptedIs
  <2> HIDE DEF all
  <2>2. [d EXCEPT !.accepted = all] \in Databases
    BY <2>1 DEF Databases
  <2> QED BY <1>2, <2>1, <2>2 DEF WriteLegacyEvent
<1>3. CASE e.type = "assigned"
  <2> DEFINE row == AssignedRow(x, e)
             as  == Upsert(d.assigned, row)
             ac  == BackfillAssignment(d.accepted, row)
  <2>1. /\ WriteAssigned(d, x, e) = [d EXCEPT !.assigned = as, !.accepted = ac]
        /\ as \in AssignedTables /\ ac \in SUBSET AcceptedRows
    BY <1>3, WriteAssignedIs
  <2> HIDE DEF as, ac
  <2>2. [d EXCEPT !.assigned = as, !.accepted = ac] \in Databases
    BY <2>1 DEF Databases
  <2> QED BY <1>3, <2>1, <2>2 DEF WriteLegacyEvent
<1>4. CASE e.type = "dispatched"
  <2>1. DispatchedRow(x, e.msg) \in MessageRows
    BY <1>1, <1>4, EventFields DEF DispatchedRow, MessageRows
  <2>2. Upsert(d.dispatched, DispatchedRow(x, e.msg)) \in SUBSET MessageRows
    BY <2>1, UpsertIn DEF Databases
  <2>3. WriteDispatched(d, x, e) \in Databases
    BY <2>2 DEF WriteDispatched, Databases
  <2> QED BY <1>4, <2>3 DEF WriteLegacyEvent
<1>5. CASE e.type = "imported"
  <2>1. ImportedRow(x, e.msg) \in MessageRows
    BY <1>1, <1>5, EventFields DEF ImportedRow, MessageRows
  <2>2. Upsert(d.imported, ImportedRow(x, e.msg)) \in SUBSET MessageRows
    BY <2>1, UpsertIn DEF Databases
  <2>3. WriteImported(d, x, e) \in Databases
    BY <2>2 DEF WriteImported, Databases
  <2> QED BY <1>5, <2>3 DEF WriteLegacyEvent
<1>6. CASE e.type = "msgport"
  <2>1. MsgportRow(x) \in [id : EventId, chain : Chain, block : Height]
    BY <1>1 DEF MsgportRow
  <2>2. Upsert(d.msgport, MsgportRow(x)) \in SUBSET [id : EventId, chain : Chain, block : Height]
    BY <2>1, UpsertIn DEF Databases
  <2>3. WriteMsgport(d, x) \in Databases
    BY <2>2 DEF WriteMsgport, Databases
  <2> QED BY <1>6, <2>3 DEF WriteLegacyEvent
<1>7. CASE e.type = "signature"
  <2>1. SignatureRow(x, e) \in [id : EventId, chain : Payload, block : Height]
    BY <1>1, <1>7, EventFields DEF SignatureRow
  <2>2. Upsert(d.signatures, SignatureRow(x, e))
          \in SUBSET [id : EventId, chain : Payload, block : Height]
    BY <2>1, UpsertIn DEF Databases
  <2>3. WriteSignature(d, x, e) \in Databases
    BY <2>2 DEF WriteSignature, Databases
  <2> QED BY <1>7, <2>3 DEF WriteLegacyEvent
<1> QED BY <1>1, <1>2, <1>3, <1>4, <1>5, <1>6, <1>7, EventFields

-----------------------------------------------------------------------------
(* Writing the events of a block is a fold over their positions.           *)

Blocks(c) == [hash : {<<c, h>> : h \in Hash}, events : Contents(c)]

LEMMA BlockFields ==
  ASSUME NEW c \in Chain, NEW b \in Height, NEW block \in Blocks(c)
  PROVE  \E n \in Nat :
            /\ DOMAIN block.events = 1..n /\ n <= MaxEvents
            /\ \A i \in 1..n : /\ Found(c, b, block, i) \in FoundEvents
                               /\ Found(c, b, block, i).event = block.events[i]
<1>1. PICK n \in 0..MaxEvents : block.events \in [1..n -> EmittedOn(c)]
  BY DEF Blocks, Contents
<1>2. block.hash \in BlockHash /\ block.hash[1] = c
  BY DEF Blocks, BlockHash
<1>3. ASSUME NEW i \in 1..n PROVE Found(c, b, block, i) \in FoundEvents
  <2>1. i \in 1..MaxEvents /\ block.events[i] \in EmittedOn(c) /\ block.events[i] \in Event
    BY <1>1, StoreAssumption, EventFields
  <2> QED BY <1>2, <2>1 DEF Found, FoundEvents
<1>4. DOMAIN block.events = 1..n /\ n \in Nat /\ n <= MaxEvents
  BY <1>1, StoreAssumption
<1> QED BY <1>3, <1>4 DEF Found

LEMMA WriteEventsFold ==
  ASSUME NEW c \in Chain, NEW b \in Height, NEW block \in Blocks(c), NEW db \in Databases,
         NEW n \in Nat, DOMAIN block.events = 1..n
  PROVE  \E g : /\ g \in [0..n -> Databases]
                /\ g[0] = db
                /\ \A k \in 1..n : g[k] = WriteLegacyEvent(g[k - 1], Found(c, b, block, k),
                                                           block.events[k])
                /\ WriteEvents(db, c, b, block) = g[n]
<1> DEFINE W(d, i) == WriteLegacyEvent(d, Found(c, b, block, i), block.events[i])
           F == [x \in Databases \X (1..n) |-> W(x[1], x[2])]
           seq == [i \in DOMAIN block.events |-> i]
           Step(h, s) == IF s = {} THEN db ELSE W(h[s \ {Max(s)}], seq[Max(s)])
           Solves(h) == h = [s \in SUBSET (DOMAIN seq) |-> Step(h, s)]
           last == LastPosition(n)
<1>1. \A i \in 1..n : Found(c, b, block, i) \in FoundEvents
                      /\ Found(c, b, block, i).event = block.events[i]
  BY BlockFields
<1>2. ASSUME NEW d \in Databases, NEW i \in 1..n PROVE W(d, i) \in Databases
  BY <1>1, WriteTyped
<1>3. F \in [Databases \X (1..n) -> Databases]
  <2> HIDE DEF W
  <2> QED BY <1>2
<1>4. IsFold(1..n, last, Databases, db, F)
  <2> HIDE DEF F
  <2> QED BY <1>3, PositionsFold DEF IsFold
<1>5. PICK h : FoldSolution(h, 1..n, last, Databases, db, F)
  <2> HIDE DEF F, last
  <2> QED BY <1>4, FoldExists
<1>6. DOMAIN seq = 1..n /\ \A i \in 1..n : seq[i] = i
  OBVIOUS
<1>7. Solves(h)
  <2>1. h \in [SUBSET (1..n) -> Databases]
    BY <1>5 DEF FoldSolution
  <2>2. ASSUME NEW s \in SUBSET (1..n) PROVE h[s] = Step(h, s)
    <3>1. h[s] = IF s = {} THEN db ELSE F[<<h[s \ {last[s]}], last[s]>>]
      BY <1>5 DEF FoldSolution
    <3>2. CASE s # {}
      <4>1. last[s] = Max(s) /\ Max(s) \in 1..n
        BY <3>2, PositionsFold
      <4>2. s \ {Max(s)} \in SUBSET (1..n) /\ h[s \ {Max(s)}] \in Databases
        BY <2>1
      <4>3. F[<<h[s \ {Max(s)}], Max(s)>>] = W(h[s \ {Max(s)}], Max(s))
        <5> HIDE DEF W
        <5> QED BY <4>1, <4>2
      <4>4. seq[Max(s)] = Max(s)
        BY <4>1
      <4> HIDE DEF F, W, last, seq
      <4> QED BY <3>1, <3>2, <4>1, <4>3, <4>4
    <3> QED BY <3>1, <3>2
  <2>3. h = [s \in SUBSET (1..n) |-> h[s]]
    BY <2>1
  <2> HIDE DEF seq, Step
  <2> QED BY <1>6, <2>2, <2>3
<1>8. WriteEvents(db, c, b, block) = (CHOOSE iter : Solves(iter))[DOMAIN seq]
  BY DEF WriteEvents, FoldLeftDomain, FoldLeft, MapThenFoldSet
<1>9. PICK iter : Solves(iter) /\ WriteEvents(db, c, b, block) = iter[DOMAIN seq]
  <2> HIDE DEF Solves
  <2> QED BY <1>7, <1>8
<1>10. \A s \in SUBSET (1..n) : iter[s] = Step(iter, s)
  <2> HIDE DEF Step
  <2> QED BY <1>6, <1>9
<1> DEFINE g == [k \in 0..n |-> iter[1..k]]
<1>11. g[0] = db
  <2>1. 1..0 = {} /\ {} \in SUBSET (1..n) /\ 0 \in 0..n
    OBVIOUS
  <2> QED BY <1>10, <2>1
<1>12. ASSUME NEW k \in 1..n PROVE g[k] = W(g[k - 1], k)
  <2>1. k \in Nat /\ k # 0 /\ k <= n /\ k \in 0..n /\ k - 1 \in 0..n
    OBVIOUS
  <2>2. 1..k \in SUBSET (1..n) /\ 1..k # {}
    <3> HIDE DEF g, W
    <3>1. 1..k \subseteq 1..n /\ k \in 1..k
      BY <2>1
    <3> QED BY <3>1
  <2>3. Max(1..k) = k /\ (1..k) \ {k} = 1..(k - 1) /\ seq[k] = k
    BY <2>1, MaxOfInterval
  <2>4. iter[1..k] = W(iter[1..(k - 1)], k)
    <3> HIDE DEF W, seq
    <3> QED BY <1>10, <2>2, <2>3
  <2> HIDE DEF W
  <2> QED BY <2>1, <2>4
<1>13. g \in [0..n -> Databases]
  <2> DEFINE T == {k \in 0..n : g[k] \in Databases}
  <2>1. 0 \in T
    BY <1>11
  <2>2. ASSUME NEW k \in 1..n, k - 1 \in T PROVE k \in T
    <3> HIDE DEF g, W
    <3> QED BY <1>2, <1>12, <2>2
  <2> HIDE DEF T
  <2>3. 0..n \subseteq T
    BY <2>1, <2>2, IntervalInduction
  <2> QED BY <2>3 DEF T
<1>14. WriteEvents(db, c, b, block) = g[n]
  BY <1>6, <1>9
<1> HIDE DEF g
<1> QED BY <1>11, <1>12, <1>13, <1>14
-----------------------------------------------------------------------------
(* What the tables hold when exactly the events X have been written.       *)

Of(X, type) == {x \in X : x.event.type = type}

\* No two events at one place, and none of these types twice for a message.
Distinct(X) ==
    /\ \A x, y \in X : x.chain = y.chain /\ x.block = y.block /\ x.index = y.index => x = y
    /\ \A x, y \in X : /\ x.event.type \in {"accepted", "dispatched", "imported"}
                       /\ y.event.type = x.event.type /\ y.event.msg = x.event.msg
                       => x = y

RowsMatch(d, X) ==
    /\ d.assigned   = {AssignedRow(x, x.event) : x \in Of(X, "assigned")}
    /\ d.dispatched = {DispatchedRow(x, x.event.msg) : x \in Of(X, "dispatched")}
    /\ d.imported   = {ImportedRow(x, x.event.msg) : x \in Of(X, "imported")}
    /\ d.msgport    = {MsgportRow(x) : x \in Of(X, "msgport")}

SignaturesMatch(d, X) == d.signatures = {SignatureRow(x, x.event) : x \in Of(X, "signature")}

LEMMA UpsertNew ==
  ASSUME NEW t, NEW row, \A r \in t : r.id = row.id => r = row
  PROVE  Upsert(t, row) = t \cup {row}
BY DEF Upsert

LEMMA OfAdded ==
  ASSUME NEW X, NEW x, NEW type
  PROVE  /\ x.event.type = type => Of(X \cup {x}, type) = Of(X, type) \cup {x}
         /\ x.event.type # type => Of(X \cup {x}, type) = Of(X, type)
BY DEF Of

\* Two events of one chain whose log ids agree are one.
LEMMA SameLogId ==
  ASSUME NEW X \in SUBSET FoundEvents, Distinct(X), NEW x \in X, NEW y \in X,
         EventLogId(x) = EventLogId(y)
  PROVE  x = y
<1>1. x.block = y.block /\ x.hash = y.hash /\ x.index = y.index
  BY DEF EventLogId
<1>2. x.chain = y.chain
  BY <1>1, FoundFields
<1> QED BY <1>1, <1>2 DEF Distinct

\* The fields of a database that writing an event leaves alone.
LEMMA WriteLeaves ==
  ASSUME NEW d \in Databases, NEW x \in FoundEvents,
         NEW w, w = WriteLegacyEvent(d, x, x.event)
  PROVE  /\ x.event.type # "assigned"   => w.assigned = d.assigned
         /\ x.event.type # "dispatched" => w.dispatched = d.dispatched
         /\ x.event.type # "imported"   => w.imported = d.imported
         /\ x.event.type # "msgport"    => w.msgport = d.msgport
         /\ x.event.type # "signature"  => w.signatures = d.signatures
         /\ x.event.type \notin {"accepted", "assigned"} => w.accepted = d.accepted
         /\ x.event.type = "assigned" =>
               w.assigned = Upsert(d.assigned, AssignedRow(x, x.event))
         /\ x.event.type = "dispatched" =>
               w.dispatched = Upsert(d.dispatched, DispatchedRow(x, x.event.msg))
         /\ x.event.type = "imported" =>
               w.imported = Upsert(d.imported, ImportedRow(x, x.event.msg))
         /\ x.event.type = "msgport" => w.msgport = Upsert(d.msgport, MsgportRow(x))
         /\ x.event.type = "signature" =>
               w.signatures = Upsert(d.signatures, SignatureRow(x, x.event))
<1> DEFINE e == x.event
<1>1. e.type \in {"accepted", "assigned", "dispatched", "imported", "msgport", "signature"}
  BY FoundFields, EventFields
<1>2. CASE e.type = "accepted"
  <2> DEFINE all == {Filled(r, {a \in d.assigned : a.msg = e.msg}) :
                       r \in KeptRows(d, AcceptedRow(x, e.msg))}
  <2>1. WriteAccepted(d, x, e) = [d EXCEPT !.accepted = all]
    BY <1>2, WriteAcceptedIs
  <2> HIDE DEF all
  <2>2. w = [d EXCEPT !.accepted = all]
    BY <1>2, <2>1 DEF WriteLegacyEvent
  <2> QED BY <1>2, <2>2 DEF Databases
<1>3. CASE e.type = "assigned"
  <2> DEFINE row == AssignedRow(x, e)
             as  == Upsert(d.assigned, row)
             ac  == BackfillAssignment(d.accepted, row)
  <2>1. WriteAssigned(d, x, e) = [d EXCEPT !.assigned = as, !.accepted = ac]
    BY <1>3, WriteAssignedIs
  <2> HIDE DEF as, ac
  <2>2. w = [d EXCEPT !.assigned = as, !.accepted = ac]
    BY <1>3, <2>1 DEF WriteLegacyEvent
  <2> QED BY <1>3, <2>2 DEF Databases, as
<1>4. CASE e.type = "dispatched"
  BY <1>4 DEF WriteLegacyEvent, WriteDispatched, Databases
<1>5. CASE e.type = "imported"
  BY <1>5 DEF WriteLegacyEvent, WriteImported, Databases
<1>6. CASE e.type = "msgport"
  BY <1>6 DEF WriteLegacyEvent, WriteMsgport, Databases
<1>7. CASE e.type = "signature"
  BY <1>7 DEF WriteLegacyEvent, WriteSignature, Databases
<1> QED BY <1>1, <1>2, <1>3, <1>4, <1>5, <1>6, <1>7

LEMMA WriteRows ==
  ASSUME NEW d \in Databases, NEW X \in SUBSET FoundEvents, NEW x \in FoundEvents,
         NEW w, w = WriteLegacyEvent(d, x, x.event),
         Distinct(X \cup {x}), RowsMatch(d, X)
  PROVE  RowsMatch(w, X \cup {x})
<1> DEFINE e == x.event
           Y == X \cup {x}
<1>l. /\ e.type # "assigned"   => w.assigned = d.assigned
      /\ e.type # "dispatched" => w.dispatched = d.dispatched
      /\ e.type # "imported"   => w.imported = d.imported
      /\ e.type # "msgport"    => w.msgport = d.msgport
      /\ e.type = "assigned"   => w.assigned = Upsert(d.assigned, AssignedRow(x, e))
      /\ e.type = "dispatched" => w.dispatched = Upsert(d.dispatched, DispatchedRow(x, e.msg))
      /\ e.type = "imported"   => w.imported = Upsert(d.imported, ImportedRow(x, e.msg))
      /\ e.type = "msgport"    => w.msgport = Upsert(d.msgport, MsgportRow(x))
  BY WriteLeaves
<1>o. /\ e.type = "assigned" => Of(Y, "assigned") = Of(X, "assigned") \cup {x}
      /\ e.type # "assigned" => Of(Y, "assigned") = Of(X, "assigned")
      /\ e.type = "dispatched" => Of(Y, "dispatched") = Of(X, "dispatched") \cup {x}
      /\ e.type # "dispatched" => Of(Y, "dispatched") = Of(X, "dispatched")
      /\ e.type = "imported" => Of(Y, "imported") = Of(X, "imported") \cup {x}
      /\ e.type # "imported" => Of(Y, "imported") = Of(X, "imported")
      /\ e.type = "msgport" => Of(Y, "msgport") = Of(X, "msgport") \cup {x}
      /\ e.type # "msgport" => Of(Y, "msgport") = Of(X, "msgport")
  <2>1. ASSUME NEW type
        PROVE  /\ e.type = type => Of(Y, type) = Of(X, type) \cup {x}
               /\ e.type # type => Of(Y, type) = Of(X, type)
    BY OfAdded
  <2> HIDE DEF Y, e
  <2> QED BY <2>1
<1>1. Y \in SUBSET FoundEvents
  OBVIOUS
<1>2. ASSUME NEW y \in Of(X, "assigned"), e.type = "assigned",
             AssignedRow(y, y.event).id = AssignedRow(x, e).id
      PROVE  y = x
  BY <1>2 DEF Of, AssignedRow, Distinct
<1>3. ASSUME NEW y \in Of(X, "dispatched"), e.type = "dispatched",
             DispatchedRow(y, y.event.msg).id = DispatchedRow(x, e.msg).id
      PROVE  y = x
  BY <1>3 DEF Of, DispatchedRow, Distinct
<1>4. ASSUME NEW y \in Of(X, "imported"), e.type = "imported",
             ImportedRow(y, y.event.msg).id = ImportedRow(x, e.msg).id
      PROVE  y = x
  BY <1>4 DEF Of, ImportedRow, Distinct
<1>5. ASSUME NEW y \in Of(X, "msgport"), e.type = "msgport",
             MsgportRow(y).id = MsgportRow(x).id
      PROVE  y = x
  <2>1. EventLogId(x) = EventLogId(y) /\ x \in Y /\ y \in Y
    BY <1>5 DEF MsgportRow, Of
  <2> QED BY <1>1, <2>1, SameLogId
<1>6. w.assigned = {AssignedRow(y, y.event) : y \in Of(Y, "assigned")}
  <2>1. CASE e.type = "assigned"
    <3>1. Upsert(d.assigned, AssignedRow(x, e)) = d.assigned \cup {AssignedRow(x, e)}
      BY <1>2, <2>1, UpsertNew DEF RowsMatch
    <3> HIDE DEF Y
    <3> QED BY <2>1, <3>1, <1>l, <1>o DEF RowsMatch
  <2>2. CASE e.type # "assigned"
    BY <2>2, <1>l, <1>o DEF RowsMatch
  <2> QED BY <2>1, <2>2
<1>7. w.dispatched = {DispatchedRow(y, y.event.msg) : y \in Of(Y, "dispatched")}
  <2>1. CASE e.type = "dispatched"
    <3>1. Upsert(d.dispatched, DispatchedRow(x, e.msg)) = d.dispatched \cup {DispatchedRow(x, e.msg)}
      BY <1>3, <2>1, UpsertNew DEF RowsMatch
    <3> HIDE DEF Y
    <3> QED BY <2>1, <3>1, <1>l, <1>o DEF RowsMatch
  <2>2. CASE e.type # "dispatched"
    BY <2>2, <1>l, <1>o DEF RowsMatch
  <2> QED BY <2>1, <2>2
<1>8. w.imported = {ImportedRow(y, y.event.msg) : y \in Of(Y, "imported")}
  <2>1. CASE e.type = "imported"
    <3>1. Upsert(d.imported, ImportedRow(x, e.msg)) = d.imported \cup {ImportedRow(x, e.msg)}
      BY <1>4, <2>1, UpsertNew DEF RowsMatch
    <3> HIDE DEF Y
    <3> QED BY <2>1, <3>1, <1>l, <1>o DEF RowsMatch
  <2>2. CASE e.type # "imported"
    BY <2>2, <1>l, <1>o DEF RowsMatch
  <2> QED BY <2>1, <2>2
<1>9. w.msgport = {MsgportRow(y) : y \in Of(Y, "msgport")}
  <2>1. CASE e.type = "msgport"
    <3>1. Upsert(d.msgport, MsgportRow(x)) = d.msgport \cup {MsgportRow(x)}
      BY <1>5, <2>1, UpsertNew DEF RowsMatch
    <3> HIDE DEF Y
    <3> QED BY <2>1, <3>1, <1>l, <1>o DEF RowsMatch
  <2>2. CASE e.type # "msgport"
    BY <2>2, <1>l, <1>o DEF RowsMatch
  <2> QED BY <2>1, <2>2
<1> QED BY <1>6, <1>7, <1>8, <1>9 DEF RowsMatch

LEMMA WriteSignatures ==
  ASSUME NEW d \in Databases, NEW X \in SUBSET FoundEvents, NEW x \in FoundEvents,
         NEW w, w = WriteLegacyEvent(d, x, x.event),
         Distinct(X \cup {x}), SignaturesMatch(d, X)
  PROVE  SignaturesMatch(w, X \cup {x})
<1> DEFINE e == x.event
           Y == X \cup {x}
<1>l. /\ e.type # "signature" => w.signatures = d.signatures
      /\ e.type = "signature" => w.signatures = Upsert(d.signatures, SignatureRow(x, e))
  BY WriteLeaves
<1>o. /\ e.type = "signature" => Of(Y, "signature") = Of(X, "signature") \cup {x}
      /\ e.type # "signature" => Of(Y, "signature") = Of(X, "signature")
  BY OfAdded
<1>1. CASE e.type = "signature"
  <2>1. ASSUME NEW y \in Of(X, "signature"), SignatureRow(y, y.event).id = SignatureRow(x, e).id
        PROVE  y = x
    <3>1. EventLogId(x) = EventLogId(y) /\ x \in Y /\ y \in Y /\ Y \in SUBSET FoundEvents
      BY <2>1 DEF SignatureRow, Of
    <3> QED BY <3>1, SameLogId
  <2>2. Upsert(d.signatures, SignatureRow(x, e)) = d.signatures \cup {SignatureRow(x, e)}
    BY <2>1, UpsertNew DEF SignaturesMatch
  <2> QED BY <1>1, <2>2, <1>l, <1>o DEF SignaturesMatch
<1>2. CASE e.type # "signature"
  BY <1>2, <1>l, <1>o DEF SignaturesMatch
<1> QED BY <1>1, <1>2
-----------------------------------------------------------------------------
(* The accepted rows and their assignment columns.                         *)

FilledFrom(table, t) ==
    \A r \in table : /\ r.oracle = LatestId(OracleRows(r, t))
                     /\ r.relayer = LatestId(RelayerRows(r, t))

KeyOf(r)   == [id |-> r.id, chain |-> r.chain, block |-> r.block]
EventKey(x) == [id |-> x.event.msg, chain |-> x.chain, block |-> x.block]

AcceptedMatch(d, X) ==
    /\ FilledFrom(d.accepted, d.assigned)
    /\ {KeyOf(r) : r \in d.accepted} = {EventKey(x) : x \in Of(X, "accepted")}

\* An assignment is written after all others of its message.
Newest(x, X) ==
    x.event.type = "assigned" =>
        \A y \in Of(X, "assigned") :
            y.event.msg = x.event.msg => y = x \/ y.block < x.block

\* What counts for a row depends on its message, chain and block alone.
LEMMA SameKeySameRows ==
  ASSUME NEW q, NEW r, q.id = r.id, q.chain = r.chain, q.block = r.block, NEW t
  PROVE  OracleRows(q, t) = OracleRows(r, t) /\ RelayerRows(q, t) = RelayerRows(r, t)
BY DEF OracleRows, RelayerRows, OracleMatches

LEMMA LatestIsLastOr == ASSUME NEW t PROVE LatestId(t) = LastOr(t, Unset)
BY DEF LatestId, LastOr

\* Filling a row again from the assignments it is filled from changes nothing.
LEMMA FilledAgain ==
  ASSUME NEW r \in AcceptedRows, NEW t, OneChain(t), NEW all,
         \/ OracleRows(r, t) = OracleRows(r, all) /\ RelayerRows(r, t) = RelayerRows(r, all)
         \/ OracleRows(r, t) = {} /\ RelayerRows(r, t) = {},
         r.oracle = LatestId(OracleRows(r, all)), r.relayer = LatestId(RelayerRows(r, all))
  PROVE  Filled(r, t) = r
<1>1. LastOr(OracleRows(r, t), r.oracle) = r.oracle
  BY LatestIsLastOr DEF LastOr
<1>2. LastOr(RelayerRows(r, t), r.relayer) = r.relayer
  BY LatestIsLastOr DEF LastOr
<1>3. Filled(r, t) = Columns(r, r.oracle, r.relayer)
  BY <1>1, <1>2 DEF Filled
<1>4. Columns(r, r.oracle, r.relayer) =
        [id |-> r.id, chain |-> r.chain, block |-> r.block,
         oracle |-> r.oracle, relayer |-> r.relayer]
  BY AcceptedRowFields, WithColumns
<1> QED BY <1>3, <1>4, AcceptedRowFields

LEMMA AcceptedCase ==
  ASSUME NEW d \in Databases, NEW X \in SUBSET FoundEvents, NEW x \in FoundEvents,
         NEW w, w = WriteLegacyEvent(d, x, x.event),
         Distinct(X \cup {x}), AcceptedMatch(d, X), x.event.type = "accepted"
  PROVE  AcceptedMatch(w, X \cup {x})
<1> DEFINE msg == x.event.msg
           row == AcceptedRow(x, msg)
           t   == {a \in d.assigned : a.msg = msg}
           old == {r \in d.accepted : r.id = msg}
           all == {Filled(r, t) : r \in KeptRows(d, row)}
           new == Filled(row, t)
<1>1. /\ row \in AcceptedRows /\ row.id = msg /\ row.chain = x.chain /\ row.block = x.block
      /\ row.oracle = Unset /\ row.relayer = Unset
  BY AcceptedRowTyped DEF AcceptedRow
<1>2. d.accepted \in SUBSET AcceptedRows /\ IsFiniteSet(t) /\ OneChain(t)
  BY OneMessage DEF Databases
<1>o. ASSUME NEW r
      PROVE  /\ r.id = msg => /\ OracleRows(r, t) = OracleRows(r, d.assigned)
                              /\ RelayerRows(r, t) = RelayerRows(r, d.assigned)
             /\ r.id # msg => OracleRows(r, t) = {} /\ RelayerRows(r, t) = {}
  BY DEF OracleRows, RelayerRows
<1>3. w.accepted = all /\ w.assigned = d.assigned
  <2>1. WriteAccepted(d, x, x.event) = [d EXCEPT !.accepted = all]
    BY WriteAcceptedIs
  <2>2. w = [d EXCEPT !.accepted = all]
    BY <2>1 DEF WriteLegacyEvent
  <2> HIDE DEF all
  <2> QED BY <2>2 DEF Databases
<1>4. ASSUME NEW r \in old PROVE Columns(row, r.oracle, r.relayer) = r
  <2>1. PICK y \in Of(X, "accepted") : KeyOf(r) = EventKey(y)
    BY DEF AcceptedMatch
  <2>2. r.id = y.event.msg /\ r.chain = y.chain /\ r.block = y.block
    BY <2>1 DEF KeyOf, EventKey
  <2>3. y = x
    BY <2>2 DEF Distinct, Of
  <2>4. r \in AcceptedRows /\ r.id = row.id /\ r.chain = row.chain /\ r.block = row.block
    BY <1>1, <1>2, <2>2, <2>3
  <2> HIDE DEF row, old
  <2>5. Columns(row, r.oracle, r.relayer) =
          [id |-> row.id, chain |-> row.chain, block |-> row.block,
           oracle |-> r.oracle, relayer |-> r.relayer]
    BY <1>1, <2>4, AcceptedRowFields, WithColumns
  <2>6. r = [id |-> r.id, chain |-> r.chain, block |-> r.block,
             oracle |-> r.oracle, relayer |-> r.relayer]
    BY <2>4, AcceptedRowFields
  <2> QED BY <2>4, <2>5, <2>6, Zenon
<1>5. ASSUME NEW r \in d.accepted PROVE Filled(r, t) = r
  <2>1. /\ r \in AcceptedRows
        /\ r.oracle = LatestId(OracleRows(r, d.assigned))
        /\ r.relayer = LatestId(RelayerRows(r, d.assigned))
    BY <1>2 DEF AcceptedMatch, FilledFrom
  <2>2. \/ OracleRows(r, t) = OracleRows(r, d.assigned) /\ RelayerRows(r, t) = RelayerRows(r, d.assigned)
        \/ OracleRows(r, t) = {} /\ RelayerRows(r, t) = {}
    <3> HIDE DEF t, msg
    <3> QED BY <1>o
  <2> HIDE DEF t
  <2> QED BY <1>2, <2>1, <2>2, FilledAgain
<1>6. all = IF old = {} THEN d.accepted \cup {new} ELSE d.accepted
  <2>1. KeptRows(d, row) = IF old = {} THEN d.accepted \cup {row} ELSE d.accepted
    <3>1. {r \in d.accepted : r.id = row.id} = old
      BY <1>1
    <3>2. {Columns(row, r.oracle, r.relayer) : r \in old} = old
      BY <1>4
    <3> HIDE DEF row
    <3> QED BY <3>1, <3>2 DEF KeptRows
  <2> HIDE DEF row, t, old
  <2> QED BY <1>5, <2>1
<1>7. /\ new.id = msg /\ new.chain = x.chain /\ new.block = x.block
      /\ new.oracle = LatestId(OracleRows(new, d.assigned))
      /\ new.relayer = LatestId(RelayerRows(new, d.assigned))
  <2>1. /\ new.id = row.id /\ new.chain = row.chain /\ new.block = row.block
        /\ new.oracle = LastOr(OracleRows(row, t), Unset)
        /\ new.relayer = LastOr(RelayerRows(row, t), Unset)
    <3> HIDE DEF row, t
    <3> QED BY <1>1, <1>2, FilledFields
  <2>2. /\ OracleRows(row, t) = OracleRows(row, d.assigned)
        /\ RelayerRows(row, t) = RelayerRows(row, d.assigned)
    <3> HIDE DEF row, t, msg
    <3> QED BY <1>1, <1>o
  <2>3. /\ OracleRows(new, d.assigned) = OracleRows(row, d.assigned)
        /\ RelayerRows(new, d.assigned) = RelayerRows(row, d.assigned)
    <3> HIDE DEF new, row
    <3> QED BY <2>1, SameKeySameRows
  <2> HIDE DEF new, row, t
  <2> QED BY <1>1, <2>1, <2>2, <2>3, LatestIsLastOr
<1>8. FilledFrom(w.accepted, w.assigned)
  <2> HIDE DEF all, new, old
  <2> QED BY <1>3, <1>6, <1>7 DEF AcceptedMatch, FilledFrom
<1>9. KeyOf(new) = EventKey(x)
  <2> HIDE DEF new
  <2> QED BY <1>7 DEF KeyOf, EventKey
<1>10. old # {} => EventKey(x) \in {KeyOf(r) : r \in d.accepted}
  <2> SUFFICES ASSUME NEW r \in old PROVE KeyOf(r) = EventKey(x)
    OBVIOUS
  <2>1. PICK y \in Of(X, "accepted") : KeyOf(r) = EventKey(y)
    BY DEF AcceptedMatch
  <2>2. r.id = y.event.msg
    BY <2>1 DEF KeyOf, EventKey
  <2>3. y = x
    BY <2>2 DEF Distinct, Of
  <2> QED BY <2>1, <2>3
<1>11. Of(X \cup {x}, "accepted") = Of(X, "accepted") \cup {x}
  BY DEF Of
<1>12. {KeyOf(r) : r \in w.accepted} = {EventKey(y) : y \in Of(X \cup {x}, "accepted")}
  <2>1. {EventKey(y) : y \in Of(X \cup {x}, "accepted")}
          = {KeyOf(r) : r \in d.accepted} \cup {EventKey(x)}
    BY <1>11 DEF AcceptedMatch
  <2>2. {KeyOf(r) : r \in w.accepted} = {KeyOf(r) : r \in d.accepted} \cup {EventKey(x)}
    <3> HIDE DEF new, all, old
    <3>1. CASE old = {}
      BY <1>3, <1>6, <1>9, <3>1
    <3>2. CASE old # {}
      BY <1>3, <1>6, <1>10, <3>2
    <3> QED BY <3>1, <3>2
  <2> QED BY <2>1, <2>2
<1> QED BY <1>8, <1>12 DEF AcceptedMatch
LEMMA AssignedCase ==
  ASSUME NEW d \in Databases, NEW X \in SUBSET FoundEvents, NEW x \in FoundEvents,
         NEW w, w = WriteLegacyEvent(d, x, x.event),
         Distinct(X \cup {x}), RowsMatch(d, X), AcceptedMatch(d, X), Newest(x, X),
         x.event.type = "assigned"
  PROVE  AcceptedMatch(w, X \cup {x})
<1> DEFINE msg == x.event.msg
           row == AssignedRow(x, x.event)
           new == Upsert(d.assigned, row)
           own == {a \in new : a.msg = msg}
           q(r) == IF r.id = row.msg THEN Assign(r, row) ELSE r
<1>1. /\ row \in AssignedRows /\ row.msg = msg /\ row.block = x.block
      /\ row.id = <<x.chain, x.block, x.index>> /\ row.id \in LogId
  BY AssignedRowTyped, AssignedRowFields
<1>2. /\ w.assigned = new /\ w.accepted = {q(r) : r \in d.accepted}
      /\ new \in AssignedTables /\ d.accepted \in SUBSET AcceptedRows
  <2> DEFINE ac == BackfillAssignment(d.accepted, row)
  <2>1. /\ WriteAssigned(d, x, x.event) = [d EXCEPT !.assigned = new, !.accepted = ac]
        /\ new \in AssignedTables
    BY WriteAssignedIs
  <2>2. w = [d EXCEPT !.assigned = new, !.accepted = ac]
    BY <2>1 DEF WriteLegacyEvent
  <2>3. ac = {q(r) : r \in d.accepted}
    BY DEF BackfillAssignment
  <2> HIDE DEF new, ac, q, row
  <2> QED BY <2>1, <2>2, <2>3 DEF Databases
<1>3. new = d.assigned \cup {row}
  <2>1. ASSUME NEW y \in Of(X, "assigned"), AssignedRow(y, y.event).id = row.id PROVE y = x
    BY <2>1 DEF Of, AssignedRow, Distinct
  <2>2. \A r \in d.assigned : r.id = row.id => r = row
    BY <2>1 DEF RowsMatch
  <2> HIDE DEF row
  <2> QED BY <2>2, UpsertNew
<1>4. OneChain(own) /\ row \in own
  <2>1. row \in own
    BY <1>1, <1>3
  <2> HIDE DEF new
  <2> QED BY <1>2, <2>1, OneMessage
<1>5. ASSUME NEW a \in own PROVE a = row \/ Earlier(a, row)
  <2>1. CASE a \in d.assigned
    <3>1. PICK y \in Of(X, "assigned") : a = AssignedRow(y, y.event)
      BY <2>1 DEF RowsMatch
    <3>2. y \in FoundEvents /\ y.event.type = "assigned"
      BY DEF Of
    <3>3. a.msg = y.event.msg /\ a.block = y.block
      BY <3>1, <3>2, AssignedRowTyped
    <3>4. y = x \/ y.block < x.block
      BY <3>3 DEF Newest
    <3> HIDE DEF row
    <3> QED BY <1>1, <3>1, <3>3, <3>4 DEF Earlier, row
  <2>2. CASE a = row
    BY <2>2
  <2> HIDE DEF row
  <2> QED BY <1>3, <2>1, <2>2
<1> HIDE DEF new, row
<1>6. ASSUME NEW r \in d.accepted
      PROVE  LET o == IF r.id = msg /\ OracleMatches(row, r) THEN row.id ELSE r.oracle
                 l == IF r.id = msg /\ row.relayer = "listed" THEN row.id ELSE r.relayer
             IN  /\ o = LatestId(OracleRows(r, new)) /\ l = LatestId(RelayerRows(r, new))
                 /\ o \in LogId \cup {Unset} /\ l \in LogId \cup {Unset}
                 /\ q(r) = Columns(r, o, l)
  <2> DEFINE o == IF r.id = msg /\ OracleMatches(row, r) THEN row.id ELSE r.oracle
             l == IF r.id = msg /\ row.relayer = "listed" THEN row.id ELSE r.relayer
  <2>1. /\ r \in AcceptedRows
        /\ r.oracle = LatestId(OracleRows(r, d.assigned))
        /\ r.relayer = LatestId(RelayerRows(r, d.assigned))
    BY <1>2 DEF AcceptedMatch, FilledFrom
  <2>2. o = LatestId(OracleRows(r, new))
    <3>1. CASE r.id = msg /\ OracleMatches(row, r)
      <4>1. row \in OracleRows(r, new) /\ OracleRows(r, new) \in SUBSET own
        BY <1>1, <1>3, <3>1 DEF OracleRows
      <4> HIDE DEF own
      <4>2. LastOr(OracleRows(r, new), Unset) = row.id
        BY <1>4, <1>5, <4>1, LastDecides
      <4> QED BY <3>1, <4>2, LatestIsLastOr
    <3>2. CASE ~(r.id = msg /\ OracleMatches(row, r))
      <4>1. OracleRows(r, new) = OracleRows(r, d.assigned)
        BY <1>1, <1>3, <3>2 DEF OracleRows
      <4> QED BY <2>1, <3>2, <4>1
    <3> QED BY <3>1, <3>2
  <2>3. l = LatestId(RelayerRows(r, new))
    <3>1. CASE r.id = msg /\ row.relayer = "listed"
      <4>1. row \in RelayerRows(r, new) /\ RelayerRows(r, new) \in SUBSET own
        BY <1>1, <1>3, <3>1 DEF RelayerRows
      <4> HIDE DEF own
      <4>2. LastOr(RelayerRows(r, new), Unset) = row.id
        BY <1>4, <1>5, <4>1, LastDecides
      <4> QED BY <3>1, <4>2, LatestIsLastOr
    <3>2. CASE ~(r.id = msg /\ row.relayer = "listed")
      <4>1. RelayerRows(r, new) = RelayerRows(r, d.assigned)
        BY <1>1, <1>3, <3>2 DEF RelayerRows
      <4> QED BY <2>1, <3>2, <4>1
    <3> QED BY <3>1, <3>2
  <2>4. o \in LogId \cup {Unset} /\ l \in LogId \cup {Unset}
    BY <1>1, <2>1, AcceptedRowFields
  <2>5. q(r) = Columns(r, o, l)
    <3>1. CASE r.id = msg
      BY <1>1, <3>1 DEF Assign, Columns
    <3>2. CASE r.id # msg
      <4>1. q(r) = r /\ o = r.oracle /\ l = r.relayer
        BY <1>1, <3>2
      <4>2. Columns(r, r.oracle, r.relayer) =
              [id |-> r.id, chain |-> r.chain, block |-> r.block,
               oracle |-> r.oracle, relayer |-> r.relayer]
        BY <2>1, AcceptedRowFields, WithColumns
      <4>3. Columns(r, r.oracle, r.relayer) = r
        BY <2>1, <4>2, AcceptedRowFields, Zenon
      <4> HIDE DEF o, l, q
      <4> QED BY <4>1, <4>3
    <3> QED BY <3>1, <3>2
  <2> QED BY <2>2, <2>3, <2>4, <2>5
<1>7. ASSUME NEW r \in d.accepted
      PROVE  /\ q(r).id = r.id /\ q(r).chain = r.chain /\ q(r).block = r.block
             /\ q(r).oracle = LatestId(OracleRows(r, new))
             /\ q(r).relayer = LatestId(RelayerRows(r, new))
  <2>1. PICK o \in LogId \cup {Unset}, l \in LogId \cup {Unset} :
               /\ o = LatestId(OracleRows(r, new)) /\ l = LatestId(RelayerRows(r, new))
               /\ q(r) = Columns(r, o, l)
    <3> HIDE DEF q
    <3> QED BY <1>6
  <2>2. q(r) = [id |-> r.id, chain |-> r.chain, block |-> r.block, oracle |-> o, relayer |-> l]
    <3> HIDE DEF q
    <3> QED BY <1>2, <2>1, WithColumns
  <2> HIDE DEF q
  <2> QED BY <2>1, <2>2
<1> HIDE DEF q
<1>8. FilledFrom(w.accepted, w.assigned)
  <2> SUFFICES ASSUME NEW r \in d.accepted
               PROVE  /\ q(r).oracle = LatestId(OracleRows(q(r), new))
                      /\ q(r).relayer = LatestId(RelayerRows(q(r), new))
    BY <1>2 DEF FilledFrom
  <2>1. OracleRows(q(r), new) = OracleRows(r, new) /\ RelayerRows(q(r), new) = RelayerRows(r, new)
    BY <1>7, SameKeySameRows
  <2> QED BY <1>7, <2>1
<1>9. {KeyOf(r) : r \in w.accepted} = {KeyOf(r) : r \in d.accepted}
  <2>1. \A r \in d.accepted : KeyOf(q(r)) = KeyOf(r)
    BY <1>7 DEF KeyOf
  <2> QED BY <1>2, <2>1
<1>10. Of(X \cup {x}, "accepted") = Of(X, "accepted")
  BY DEF Of
<1> QED BY <1>8, <1>9, <1>10 DEF AcceptedMatch

LEMMA WriteAcceptedRows ==
  ASSUME NEW d \in Databases, NEW X \in SUBSET FoundEvents, NEW x \in FoundEvents,
         NEW w, w = WriteLegacyEvent(d, x, x.event),
         Distinct(X \cup {x}), RowsMatch(d, X), AcceptedMatch(d, X), Newest(x, X)
  PROVE  AcceptedMatch(w, X \cup {x})
<1>1. CASE x.event.type = "accepted"
  BY <1>1, AcceptedCase
<1>2. CASE x.event.type = "assigned"
  BY <1>2, AssignedCase
<1>3. CASE x.event.type \notin {"accepted", "assigned"}
  <2>1. w.accepted = d.accepted /\ w.assigned = d.assigned
    BY <1>3, WriteLeaves
  <2>2. Of(X \cup {x}, "accepted") = Of(X, "accepted")
    BY <1>3 DEF Of
  <2> QED BY <2>1, <2>2 DEF AcceptedMatch
<1> QED BY <1>1, <1>2, <1>3
-----------------------------------------------------------------------------
(* Writing the events of a block.                                          *)

EventsIn(c, b, block) == {Found(c, b, block, i) : i \in DOMAIN block.events}

Matches(d, X) == RowsMatch(d, X) /\ AcceptedMatch(d, X)

LEMMA DistinctSubset ==
  ASSUME NEW X, Distinct(X), NEW Y \in SUBSET X
  PROVE  Distinct(Y)
BY DEF Distinct

LEMMA NewestSubset ==
  ASSUME NEW X, NEW x, Newest(x, X), NEW Y \in SUBSET X
  PROVE  Newest(x, Y)
BY DEF Newest, Of

LEMMA WriteEventsMatch ==
  ASSUME NEW c \in Chain, NEW b \in Height, NEW block \in Blocks(c), NEW db \in Databases,
         NEW X \in SUBSET FoundEvents, Distinct(X \cup EventsIn(c, b, block)),
         \A x \in EventsIn(c, b, block) : Newest(x, X \cup EventsIn(c, b, block)),
         Matches(db, X),
         NEW w, w = WriteEvents(db, c, b, block)
  PROVE  /\ w \in Databases
         /\ Matches(w, X \cup EventsIn(c, b, block))
         /\ SignaturesMatch(db, X) => SignaturesMatch(w, X \cup EventsIn(c, b, block))
<1>1. PICK n \in Nat :
             /\ DOMAIN block.events = 1..n
             /\ \A i \in 1..n : /\ Found(c, b, block, i) \in FoundEvents
                                /\ Found(c, b, block, i).event = block.events[i]
  BY BlockFields
<1>2. PICK g : /\ g \in [0..n -> Databases]
               /\ g[0] = db
               /\ \A k \in 1..n : g[k] = WriteLegacyEvent(g[k - 1], Found(c, b, block, k),
                                                          block.events[k])
               /\ WriteEvents(db, c, b, block) = g[n]
  BY <1>1, WriteEventsFold
<1> DEFINE All == X \cup EventsIn(c, b, block)
           f(i) == Found(c, b, block, i)
           Upto(k) == X \cup {f(i) : i \in 1..k}
           T == {k \in 0..n : /\ Matches(g[k], Upto(k))
                              /\ SignaturesMatch(db, X) => SignaturesMatch(g[k], Upto(k))}
<1>3. All \in SUBSET FoundEvents /\ \A i \in 1..n : f(i) \in EventsIn(c, b, block)
  BY <1>1 DEF EventsIn
<1>4. 0 \in T
  <2>1. Upto(0) = X
    <3>1. 1..0 = {}
      OBVIOUS
    <3> QED BY <3>1
  <2> HIDE DEF Upto
  <2> QED BY <1>2, <2>1
<1>5. ASSUME NEW k \in 1..n, k - 1 \in T PROVE k \in T
  <2> DEFINE Y == Upto(k - 1)
             x == f(k)
  <2>1. Y \in SUBSET All
    <3>1. \A i \in 1..(k - 1) : i \in 1..n
      OBVIOUS
    <3> QED BY <1>1, <3>1 DEF EventsIn
  <2>2. Upto(k) = Y \cup {x}
    <3>1. \A i : i \in 1..k <=> i \in 1..(k - 1) \/ i = k
      OBVIOUS
    <3> HIDE DEF f
    <3> QED BY <3>1
  <2>3. x \in FoundEvents /\ x \in EventsIn(c, b, block) /\ x.event = block.events[k] /\ x \in All
    BY <1>1, <1>3
  <2>4. Distinct(Y \cup {x}) /\ Newest(x, Y) /\ Y \in SUBSET FoundEvents
    <3>1. Y \cup {x} \in SUBSET All
      BY <2>1, <2>3
    <3> HIDE DEF Y, x
    <3> QED BY <1>3, <2>1, <2>3, <3>1, DistinctSubset, NewestSubset
  <2>5. /\ k \in 0..n /\ k - 1 \in 0..n /\ g[k - 1] \in Databases
        /\ g[k] = WriteLegacyEvent(g[k - 1], x, x.event)
    BY <1>2, <2>3
  <2>6. /\ Matches(g[k - 1], Y)
        /\ SignaturesMatch(db, X) => SignaturesMatch(g[k - 1], Y)
    BY <1>5
  <2> HIDE DEF Y, x, Upto
  <2>7. RowsMatch(g[k], Y \cup {x}) /\ AcceptedMatch(g[k], Y \cup {x})
    BY <2>3, <2>4, <2>5, <2>6, WriteRows, WriteAcceptedRows DEF Matches
  <2>8. SignaturesMatch(db, X) => SignaturesMatch(g[k], Y \cup {x})
    BY <2>3, <2>4, <2>5, <2>6, WriteSignatures
  <2> QED BY <2>2, <2>5, <2>7, <2>8 DEF Matches
<1>6. 0..n \subseteq T
  <2> HIDE DEF T
  <2> QED BY <1>4, <1>5, IntervalInduction
<1>7. Upto(n) = All
  BY <1>1 DEF EventsIn
<1>8. n \in T /\ n \in 0..n
  BY <1>6
<1> HIDE DEF Upto
<1> QED BY <1>2, <1>7, <1>8
-----------------------------------------------------------------------------
(* Histories: the blocks indexed on each chain, and all their events.      *)

Histories(ix) ==
    /\ ix = [c \in Chain |-> ix[c]]
    /\ \A c \in Chain : ix[c] \in Seq(Blocks(c)) /\ Len(ix[c]) <= MaxBlock

AllOf(ix) == UNION {UNION {EventsIn(c, b, ix[c][b]) : b \in DOMAIN ix[c]} : c \in Chain}

LEMMA InAllOf ==
  ASSUME NEW ix, NEW x
  PROVE  x \in AllOf(ix) <=>
           \E c \in Chain : \E b \in DOMAIN ix[c] : \E i \in DOMAIN ix[c][b].events :
               x = Found(c, b, ix[c][b], i)
BY DEF AllOf, EventsIn

LEMMA HistoryFields ==
  ASSUME NEW ix, Histories(ix), NEW c \in Chain
  PROVE  /\ Len(ix[c]) \in Nat /\ DOMAIN ix[c] = 1..Len(ix[c])
         /\ \A b \in DOMAIN ix[c] : b \in Height /\ b \in Nat /\ ix[c][b] \in Blocks(c)
<1>1. ix[c] \in Seq(Blocks(c)) /\ Len(ix[c]) <= MaxBlock /\ MaxBlock \in Nat
  BY StoreAssumption DEF Histories
<1>2. Len(ix[c]) \in Nat /\ DOMAIN ix[c] = 1..Len(ix[c])
  BY <1>1
<1>3. ASSUME NEW b \in DOMAIN ix[c] PROVE b \in Height /\ b \in Nat /\ ix[c][b] \in Blocks(c)
  BY <1>1, <1>2 DEF Height
<1> QED BY <1>2, <1>3

LEMMA AllOfFields ==
  ASSUME NEW ix, Histories(ix), NEW x \in AllOf(ix)
  PROVE  /\ x \in FoundEvents /\ x.chain \in Chain /\ x.block \in DOMAIN ix[x.chain]
         /\ x.index \in DOMAIN ix[x.chain][x.block].events
         /\ x = Found(x.chain, x.block, ix[x.chain][x.block], x.index)
<1>1. PICK c, b, i : /\ c \in Chain /\ b \in DOMAIN ix[c]
                       /\ i \in DOMAIN ix[c][b].events
                       /\ x = Found(c, b, ix[c][b], i)
  BY InAllOf
<1>2. x.chain = c /\ x.block = b /\ x.index = i
  BY <1>1 DEF Found
<1>3. b \in Height /\ ix[c][b] \in Blocks(c)
  BY <1>1, HistoryFields
<1>4. x \in FoundEvents
  BY <1>1, <1>3, BlockFields
<1> QED BY <1>1, <1>2, <1>4

LEMMA AllOfPlaces ==
  ASSUME NEW ix, Histories(ix), NEW x \in AllOf(ix), NEW y \in AllOf(ix),
         x.chain = y.chain, x.block = y.block, x.index = y.index
  PROVE  x = y
BY AllOfFields

LEMMA BlockOfHistory ==
  ASSUME NEW ix, Histories(ix), NEW c \in Chain, NEW b \in DOMAIN ix[c]
  PROVE  /\ b \in Height /\ ix[c][b] \in Blocks(c)
         /\ EventsIn(c, b, ix[c][b]) \in SUBSET AllOf(ix)
BY HistoryFields, InAllOf DEF EventsIn

\* A block more, as a change of the block lists.
WithBlock(ix, jx, c, b, block) ==
    /\ \A d \in Chain : \A e : e \in DOMAIN jx[d] <=> e \in DOMAIN ix[d] \/ (d = c /\ e = b)
    /\ \A d \in Chain : \A e \in DOMAIN ix[d] : jx[d][e] = ix[d][e]
    /\ jx[c][b] = block

LEMMA EventsAdded ==
  ASSUME NEW ix, NEW jx, NEW c \in Chain, NEW b, NEW block, WithBlock(ix, jx, c, b, block)
  PROVE  AllOf(jx) = AllOf(ix) \cup EventsIn(c, b, block)
<1>1. ASSUME NEW x PROVE x \in AllOf(jx) <=> x \in AllOf(ix) \cup EventsIn(c, b, block)
  <2>1. ASSUME x \in AllOf(jx) PROVE x \in AllOf(ix) \cup EventsIn(c, b, block)
    <3>1. PICK d, e : /\ d \in Chain /\ e \in DOMAIN jx[d]
                      /\ x \in EventsIn(d, e, jx[d][e])
      BY <2>1 DEF AllOf, WithBlock
    <3>2. CASE e \in DOMAIN ix[d]
      BY <3>1, <3>2 DEF AllOf, WithBlock
    <3>3. CASE d = c /\ e = b
      BY <3>1, <3>3 DEF WithBlock
    <3> QED BY <3>1, <3>2, <3>3 DEF WithBlock
  <2>2. ASSUME x \in AllOf(ix) PROVE x \in AllOf(jx)
    <3>1. PICK d, e : /\ d \in Chain /\ e \in DOMAIN ix[d]
                      /\ x \in EventsIn(d, e, ix[d][e])
      BY <2>2 DEF AllOf, WithBlock
    <3> QED BY <3>1 DEF AllOf, WithBlock
  <2>3. ASSUME x \in EventsIn(c, b, block) PROVE x \in AllOf(jx)
    BY <2>3 DEF AllOf, WithBlock
  <2> QED BY <2>1, <2>2, <2>3
<1> QED BY <1>1

LEMMA HistoryAppend ==
  ASSUME NEW ix, Histories(ix), NEW c \in Chain, NEW block \in Blocks(c),
         NEW b \in Height, b = Len(ix[c]) + 1,
         NEW jx, jx = [ix EXCEPT ![c] = Append(ix[c], block)]
  PROVE  /\ Histories(jx) /\ WithBlock(ix, jx, c, b, block)
         /\ AllOf(jx) = AllOf(ix) \cup EventsIn(c, b, block)
<1>1. /\ ix[c] \in Seq(Blocks(c)) /\ Len(ix[c]) \in Nat /\ DOMAIN ix[c] = 1..Len(ix[c])
      /\ b \in 1..MaxBlock /\ MaxBlock \in Nat
  BY HistoryFields, StoreAssumption DEF Histories, Height
<1>2. jx = [d \in Chain |-> IF d = c THEN Append(ix[c], block) ELSE ix[d]]
  BY DEF Histories
<1>3. jx[c] = Append(ix[c], block) /\ \A d \in Chain : d # c => jx[d] = ix[d]
  BY <1>2
<1>4. /\ jx[c] \in Seq(Blocks(c)) /\ Len(jx[c]) = b /\ DOMAIN jx[c] = 1..b /\ jx[c][b] = block
      /\ \A e \in 1..Len(ix[c]) : jx[c][e] = ix[c][e]
  BY <1>1, <1>3
<1>5. Histories(jx)
  <2>1. jx = [d \in Chain |-> jx[d]]
    BY <1>2
  <2>2. b <= MaxBlock
    BY <1>1
  <2> QED BY <1>3, <1>4, <2>1, <2>2 DEF Histories
<1>6. ASSUME NEW d \in Chain
      PROVE  /\ \A e : e \in DOMAIN jx[d] <=> e \in DOMAIN ix[d] \/ (d = c /\ e = b)
             /\ \A e \in DOMAIN ix[d] : jx[d][e] = ix[d][e]
  BY <1>1, <1>3, <1>4
<1>7. WithBlock(ix, jx, c, b, block) /\ AllOf(jx) = AllOf(ix) \cup EventsIn(c, b, block)
  <2>1. \A d \in Chain : \A e : e \in DOMAIN jx[d] <=> e \in DOMAIN ix[d] \/ (d = c /\ e = b)
    BY <1>6
  <2>2. \A d \in Chain : \A e \in DOMAIN ix[d] : jx[d][e] = ix[d][e]
    BY <1>6
  <2>3. jx[c][b] = block
    BY <1>4
  <2>4. WithBlock(ix, jx, c, b, block)
    BY <2>1, <2>2, <2>3 DEF WithBlock
  <2>5. AllOf(jx) = AllOf(ix) \cup EventsIn(c, b, block)
    BY <2>4, EventsAdded
  <2> QED BY <2>4, <2>5
<1> QED BY <1>5, <1>7

\* The blocks from b on taken away, likewise.
WithoutBlocks(ix, jx, c, b) ==
    /\ \A d \in Chain : \A e : e \in DOMAIN jx[d] <=> e \in DOMAIN ix[d] /\ ~(d = c /\ e >= b)
    /\ \A d \in Chain : \A e \in DOMAIN jx[d] : jx[d][e] = ix[d][e]

Kept(X, c, b) == {x \in X : ~(x.chain = c /\ x.block >= b)}

LEMMA EventsRemoved ==
  ASSUME NEW ix, NEW jx, NEW c \in Chain, NEW b, WithoutBlocks(ix, jx, c, b)
  PROVE  AllOf(jx) = {x \in AllOf(ix) : ~(x.chain = c /\ x.block >= b)}
<1>1. ASSUME NEW d, NEW e, NEW x \in EventsIn(d, e, ix[d][e]) PROVE x.chain = d /\ x.block = e
  BY DEF EventsIn, Found
<1>2. ASSUME NEW x
      PROVE  x \in AllOf(jx) <=> x \in AllOf(ix) /\ ~(x.chain = c /\ x.block >= b)
  <2>1. ASSUME x \in AllOf(jx) PROVE x \in AllOf(ix) /\ ~(x.chain = c /\ x.block >= b)
    <3>1. PICK d, e : /\ d \in Chain /\ e \in DOMAIN jx[d]
                      /\ x \in EventsIn(d, e, jx[d][e])
      BY <2>1 DEF AllOf
    <3>2. e \in DOMAIN ix[d] /\ ~(d = c /\ e >= b) /\ jx[d][e] = ix[d][e]
      BY <3>1 DEF WithoutBlocks
    <3>3. x.chain = d /\ x.block = e
      BY <1>1, <3>1, <3>2
    <3>4. x \in AllOf(ix)
      BY <3>1, <3>2 DEF AllOf
    <3> QED BY <3>2, <3>3, <3>4
  <2>2. ASSUME x \in AllOf(ix), ~(x.chain = c /\ x.block >= b) PROVE x \in AllOf(jx)
    <3>1. PICK d, e : /\ d \in Chain /\ e \in DOMAIN ix[d]
                      /\ x \in EventsIn(d, e, ix[d][e])
      BY <2>2 DEF AllOf
    <3>2. x.chain = d /\ x.block = e
      BY <1>1, <3>1
    <3>3. e \in DOMAIN jx[d] /\ jx[d][e] = ix[d][e]
      BY <2>2, <3>1, <3>2 DEF WithoutBlocks
    <3> QED BY <3>1, <3>3 DEF AllOf
  <2> QED BY <2>1, <2>2
<1> QED BY <1>2

LEMMA HistoryCut ==
  ASSUME NEW ix, Histories(ix), NEW c \in Chain, NEW b \in DOMAIN ix[c],
         NEW jx, jx = [ix EXCEPT ![c] = SubSeq(ix[c], 1, b - 1)]
  PROVE  /\ Histories(jx) /\ WithoutBlocks(ix, jx, c, b)
         /\ AllOf(jx) = Kept(AllOf(ix), c, b)
<1>1. /\ ix[c] \in Seq(Blocks(c)) /\ Len(ix[c]) \in Nat /\ Len(ix[c]) <= MaxBlock
      /\ b \in 1..Len(ix[c]) /\ DOMAIN ix[c] = 1..Len(ix[c]) /\ MaxBlock \in Nat
      /\ b - 1 \in Nat
  BY HistoryFields, StoreAssumption DEF Histories
<1>2. jx = [d \in Chain |-> IF d = c THEN SubSeq(ix[c], 1, b - 1) ELSE ix[d]]
  BY DEF Histories
<1>3. jx[c] = SubSeq(ix[c], 1, b - 1) /\ \A d \in Chain : d # c => jx[d] = ix[d]
  BY <1>2
<1>4. /\ jx[c] \in Seq(Blocks(c)) /\ Len(jx[c]) = b - 1 /\ DOMAIN jx[c] = 1..(b - 1)
      /\ \A e \in 1..(b - 1) : jx[c][e] = ix[c][e]
  <2> DEFINE s == ix[c]
             u == SubSeq(s, 1, b - 1)
  <2>1. s \in Seq(Blocks(c)) /\ Len(s) \in Nat /\ b - 1 \in Nat /\ b - 1 <= Len(s) /\ u = jx[c]
    BY <1>1, <1>3
  <2> HIDE DEF s
  <2>2. \A e \in 1..(b - 1) : s[e] \in Blocks(c)
    BY <2>1
  <2>3. Len(u) = b - 1 /\ u = [e \in 1..(b - 1) |-> s[e]]
    BY <2>1
  <2>4. u \in Seq(Blocks(c))
    BY <2>1, <2>2, <2>3
  <2> QED BY <2>1, <2>3, <2>4 DEF s
<1>5. Histories(jx)
  <2>1. jx = [d \in Chain |-> jx[d]]
    BY <1>2
  <2>2. b - 1 <= MaxBlock
    BY <1>1
  <2> QED BY <1>3, <1>4, <2>1, <2>2 DEF Histories
<1>6. ASSUME NEW d \in Chain
      PROVE  /\ \A e : e \in DOMAIN jx[d] <=> e \in DOMAIN ix[d] /\ ~(d = c /\ e >= b)
             /\ \A e \in DOMAIN jx[d] : jx[d][e] = ix[d][e]
  BY <1>1, <1>3, <1>4
<1>7. WithoutBlocks(ix, jx, c, b) /\ AllOf(jx) = Kept(AllOf(ix), c, b)
  <2>2. \A d \in Chain : \A e :
          e \in DOMAIN jx[d] <=> e \in DOMAIN ix[d] /\ ~(d = c /\ e >= b)
    BY <1>6
  <2>3. \A d \in Chain : \A e \in DOMAIN jx[d] : jx[d][e] = ix[d][e]
    BY <1>6
  <2>4. WithoutBlocks(ix, jx, c, b)
    BY <2>2, <2>3 DEF WithoutBlocks
  <2>5. AllOf(jx) = Kept(AllOf(ix), c, b)
    BY <2>4, EventsRemoved DEF Kept
  <2> QED BY <2>4, <2>5
<1> QED BY <1>5, <1>7
-----------------------------------------------------------------------------
(* What follows a history, and what may be repeated of it.                 *)

LEMMA OnceShared ==
  ASSUME NEW x, NEW y, y.type = x.type, y.msg = x.msg,
         x.type \in {"accepted", "dispatched", "imported", "assigned"}
  PROVE  Once(x) \cap Once(y) # {}
<1>1. Once(x) = {<<x.type, x.msg>>} /\ Once(y) = {<<y.type, y.msg>>}
  BY DEF Once
<1>2. <<x.type, x.msg>> = <<y.type, y.msg>>
  OBVIOUS
<1> QED BY <1>1, <1>2

\* A message is of one chain.
LEMMA SameMessageSameChain ==
  ASSUME NEW x \in FoundEvents, NEW y \in FoundEvents,
         y.event.type = x.event.type, y.event.msg = x.event.msg,
         x.event.type \in {"accepted", "dispatched", "imported", "assigned"}
  PROVE  x.chain = y.chain
<1>1. /\ x.chain \in Chain /\ x.event \in EmittedOn(x.chain)
      /\ y.chain \in Chain /\ y.event \in EmittedOn(y.chain)
  BY FoundFields
<1>2. CASE x.event.type \in {"accepted", "assigned"}
  <2>1. x.event.msg \in MsgOf[x.chain] /\ x.event.msg \in MsgOf[y.chain]
    BY <1>1, <1>2, EventFields
  <2> QED BY <1>1, <2>1, StoreAssumption
<1>3. CASE x.event.type \in {"dispatched", "imported"}
  <2>1. x.event.msg \in MsgTo[x.chain] /\ x.event.msg \in MsgTo[y.chain]
    BY <1>1, <1>3, EventFields
  <2> QED BY <1>1, <2>1, StoreAssumption
<1> QED BY <1>2, <1>3

LEMMA NewBlock ==
  ASSUME Histories(indexed), NEW c \in Chain, NEW b \in Height, b = Len(indexed[c]) + 1,
         NEW block \in Blocks(c), CanFollow(c, block.events), Distinct(AllOf(indexed)),
         NEW X, X = AllOf(indexed) \cup EventsIn(c, b, block)
  PROVE  Distinct(X) /\ \A x \in EventsIn(c, b, block) : Newest(x, X)
<1> DEFINE Old == AllOf(indexed)
           New == EventsIn(c, b, block)
<1>1. ASSUME NEW x \in New
      PROVE  /\ x \in FoundEvents /\ x.chain = c /\ x.block = b
             /\ x.index \in DOMAIN block.events /\ x = Found(c, b, block, x.index)
             /\ x.event = block.events[x.index]
  <2>1. PICK i \in DOMAIN block.events : x = Found(c, b, block, i)
    BY DEF EventsIn
  <2>2. x.chain = c /\ x.block = b /\ x.index = i /\ x.event = block.events[i]
    BY <2>1 DEF Found
  <2>3. x \in FoundEvents
    BY <2>1, BlockFields
  <2> QED BY <2>1, <2>2, <2>3
<1>2. ASSUME NEW y \in Old, y.chain = c
      PROVE  y.block # b /\ y.block < b /\ y.event \in EventsBefore(c)
  <2>1. /\ y.block \in DOMAIN indexed[c]
        /\ y.index \in DOMAIN indexed[c][y.block].events
        /\ y = Found(c, y.block, indexed[c][y.block], y.index)
    BY <1>2, AllOfFields
  <2>2. y.event = indexed[c][y.block].events[y.index]
    BY <2>1 DEF Found
  <2>3. /\ indexed[c][y.block] \in ToSet(indexed[c])
        /\ y.event \in ToSet(indexed[c][y.block].events)
    BY <2>1, <2>2 DEF ToSet
  <2>4. y.event \in EventsBefore(c)
    BY <2>3 DEF EventsBefore
  <2>5. y.block < b /\ y.block # b
    BY <2>1, HistoryFields
  <2> QED BY <2>4, <2>5
<1>3. ASSUME NEW x \in New, NEW y \in X, y.event.type = x.event.type, y.event.msg = x.event.msg,
             x.event.type \in {"accepted", "dispatched", "imported", "assigned"}
      PROVE  y = x \/ (x.event.type = "assigned" /\ y.block < x.block)
  <2>1. Once(x.event) \cap Once(y.event) # {}
    BY <1>3, OnceShared
  <2>2. CASE y \in New
    <3>1. /\ x.event = block.events[x.index] /\ y.event = block.events[y.index]
          /\ x.index \in DOMAIN block.events /\ y.index \in DOMAIN block.events
          /\ x = Found(c, b, block, x.index) /\ y = Found(c, b, block, y.index)
      BY <1>1, <2>2
    <3>2. x.index = y.index
      BY <2>1, <3>1 DEF CanFollow
    <3> QED BY <3>1, <3>2
  <2>3. CASE y \in Old
    <3>1. y \in FoundEvents /\ x \in FoundEvents /\ x.chain = c /\ x.block = b
      BY <1>1, <2>3, AllOfFields
    <3>2. y.chain = c
      BY <1>3, <3>1, SameMessageSameChain
    <3>3. y.block < b /\ y.event \in EventsBefore(c)
      BY <1>2, <2>3, <3>2
    <3>4. y.event.type = "assigned"
      BY <1>1, <2>1, <3>3 DEF CanFollow
    <3> QED BY <1>3, <3>1, <3>3, <3>4
  <2> QED BY <2>2, <2>3
<1>4. ASSUME NEW x \in New, NEW y \in X,
             x.chain = y.chain, x.block = y.block, x.index = y.index
      PROVE  x = y
  <2>1. CASE y \in New
    BY <1>1, <1>4, <2>1
  <2>2. CASE y \in Old
    BY <1>1, <1>2, <1>4, <2>2
  <2> QED BY <2>1, <2>2
<1>5. Distinct(X)
  <2>1. ASSUME NEW x \in X, NEW y \in X,
               x.chain = y.chain, x.block = y.block, x.index = y.index
        PROVE  x = y
    <3>1. CASE x \in New \/ y \in New
      BY <1>4, <2>1, <3>1
    <3>2. CASE x \in Old /\ y \in Old
      BY <2>1, <3>2 DEF Distinct
    <3> QED BY <3>1, <3>2
  <2>2. ASSUME NEW x \in X, NEW y \in X, x.event.type \in {"accepted", "dispatched", "imported"},
               y.event.type = x.event.type, y.event.msg = x.event.msg
        PROVE  x = y
    <3>1. CASE x \in New \/ y \in New
      BY <1>3, <2>2, <3>1
    <3>2. CASE x \in Old /\ y \in Old
      BY <2>2, <3>2 DEF Distinct
    <3> QED BY <3>1, <3>2
  <2> QED BY <2>1, <2>2 DEF Distinct
<1>6. ASSUME NEW x \in New PROVE Newest(x, X)
  BY <1>3 DEF Newest, Of
<1> QED BY <1>5, <1>6

\* A repeated block has the only assignment of each message it assigns.
LEMMA AgainNewest ==
  ASSUME NEW d, NEW X \in SUBSET FoundEvents, Distinct(X), RowsMatch(d, X),
         \A r, s \in d.assigned : r.msg = s.msg => r = s, NEW x \in X
  PROVE  Newest(x, X)
<1> SUFFICES ASSUME x.event.type = "assigned", NEW y \in Of(X, "assigned"),
                    y.event.msg = x.event.msg
             PROVE  y = x
  BY DEF Newest
<1> DEFINE p == AssignedRow(x, x.event)
           q == AssignedRow(y, y.event)
<1>1. y \in FoundEvents /\ y.event.type = "assigned" /\ x \in Of(X, "assigned") /\ y \in X
  BY DEF Of
<1>2. p \in d.assigned /\ q \in d.assigned
  BY <1>1 DEF RowsMatch
<1>3. /\ p.msg = x.event.msg /\ q.msg = y.event.msg
      /\ p.id = <<x.chain, x.block, x.index>> /\ q.id = <<y.chain, y.block, y.index>>
  BY <1>1, AssignedRowTyped
<1> HIDE DEF p, q
<1>4. p = q
  BY <1>2, <1>3
<1>5. x.chain = y.chain /\ x.block = y.block /\ x.index = y.index
  BY <1>3, <1>4
<1> QED BY <1>1, <1>5 DEF Distinct
-----------------------------------------------------------------------------
(* A rollback takes away what was found from its block on.                 *)


LEMMA RollbackRows ==
  ASSUME NEW d, NEW X, RowsMatch(d, X), NEW c, NEW b, NEW w,
         w.assigned = d.assigned \ Above(d.assigned, c, b),
         w.dispatched = d.dispatched \ Above(d.dispatched, c, b),
         w.imported = d.imported \ Above(d.imported, c, b),
         w.msgport = d.msgport \ Above(d.msgport, c, b)
  PROVE  RowsMatch(w, Kept(X, c, b))
<1> DEFINE Y == Kept(X, c, b)
<1>1. w.assigned = {AssignedRow(x, x.event) : x \in Of(Y, "assigned")}
  <2>1. \A x : /\ AssignedRow(x, x.event).chain = x.chain
               /\ AssignedRow(x, x.event).block = x.block
    BY DEF AssignedRow
  <2> QED BY <2>1 DEF RowsMatch, Above, Kept, Of
<1>2. w.dispatched = {DispatchedRow(x, x.event.msg) : x \in Of(Y, "dispatched")}
  <2>1. \A x : /\ DispatchedRow(x, x.event.msg).chain = x.chain
               /\ DispatchedRow(x, x.event.msg).block = x.block
    BY DEF DispatchedRow
  <2> QED BY <2>1 DEF RowsMatch, Above, Kept, Of
<1>3. w.imported = {ImportedRow(x, x.event.msg) : x \in Of(Y, "imported")}
  <2>1. \A x : /\ ImportedRow(x, x.event.msg).chain = x.chain
               /\ ImportedRow(x, x.event.msg).block = x.block
    BY DEF ImportedRow
  <2> QED BY <2>1 DEF RowsMatch, Above, Kept, Of
<1>4. w.msgport = {MsgportRow(x) : x \in Of(Y, "msgport")}
  <2>1. \A x : MsgportRow(x).chain = x.chain /\ MsgportRow(x).block = x.block
    BY DEF MsgportRow
  <2> QED BY <2>1 DEF RowsMatch, Above, Kept, Of
<1> QED BY <1>1, <1>2, <1>3, <1>4 DEF RowsMatch

Keys(table) == {KeyOf(r) : r \in table}

Reassigned(t, c, b) == {a.msg : a \in Above(t, c, b)}

\* Recomputing the accepted rows of the messages whose assignments went, from
\* the assignments that remain, leaves every row as the remaining ones have it.
LEMMA RecomputeFills ==
  ASSUME NEW table \in SUBSET AcceptedRows, NEW all \in AssignedTables, FilledFrom(table, all),
         NEW c \in Chain, NEW b, NEW rem, rem = all \ Above(all, c, b),
         NEW msgs, msgs = Reassigned(all, c, b),
         NEW w, w = Recompute(table, rem, msgs)
  PROVE  /\ w \in SUBSET AcceptedRows
         /\ FilledFrom(w, rem)
         /\ Keys(w) = Keys(table)
<1> DEFINE t == {a \in rem : a.msg \in msgs}
           cl(r) == IF r.id \in msgs THEN Columns(r, Unset, Unset) ELSE r
           new(r) == Filled(cl(r), t)
<1>m. msgs = {a.msg : a \in Above(all, c, b)}
  BY DEF Reassigned
<1>1. all \in SUBSET AssignedRows /\ IsFiniteSet(all) /\ Keyed(all)
  BY DEF AssignedTables
<1>2. \A m \in msgs : m \in MsgOf[c]
  BY <1>1, <1>m, AssignedRowFields DEF Above
<1>3. OneChain(t) /\ IsFiniteSet(t)
  <2>1. \A a \in t : a \in AssignedRows /\ a.chain = c
    <3>1. ASSUME NEW a \in t PROVE a \in AssignedRows /\ a.chain = c
      <4>1. a \in AssignedRows /\ a.msg \in MsgOf[c]
        BY <1>1, <1>2
      <4>2. a.chain \in Chain /\ a.msg \in MsgOf[a.chain]
        BY <4>1, AssignedRowFields
      <4> QED BY <4>1, <4>2, StoreAssumption
    <3> QED BY <3>1
  <2>2. t \in SUBSET all
    OBVIOUS
  <2>3. IsFiniteSet(t)
    BY <1>1, <2>2, FS_Subset
  <2> HIDE DEF t
  <2> QED BY <1>1, <2>1, <2>2, <2>3 DEF OneChain, Keyed
<1>4. ASSUME NEW r \in table
      PROVE  /\ cl(r) \in AcceptedRows /\ cl(r).id = r.id /\ cl(r).chain = r.chain
             /\ cl(r).block = r.block
             /\ r.id \in msgs => cl(r).oracle = Unset /\ cl(r).relayer = Unset
             /\ r.id \notin msgs => cl(r) = r
  <2>1. r \in AcceptedRows
    OBVIOUS
  <2>2. Unset \in LogId \cup {Unset}
    OBVIOUS
  <2>3. /\ Columns(r, Unset, Unset) \in AcceptedRows
        /\ Columns(r, Unset, Unset) = [id |-> r.id, chain |-> r.chain, block |-> r.block,
                                       oracle |-> Unset, relayer |-> Unset]
    BY <2>1, <2>2, WithColumns
  <2> QED BY <2>1, <2>3
<1>5. w = {new(r) : r \in table}
  <2> DEFINE cleared == {cl(r) : r \in table}
  <2>1. w = BackfillAll(cleared, t)
    BY DEF Recompute, Columns
  <2>2. cleared \in SUBSET AcceptedRows
    BY <1>4
  <2> HIDE DEF cl, t
  <2>3. BackfillAll(cleared, t) = {Filled(r, t) : r \in cleared}
    <3> HIDE DEF cleared
    <3> QED BY <1>3, <2>2, Backfilled
  <2> QED BY <2>1, <2>3
<1>6. ASSUME NEW r \in table
      PROVE  /\ new(r) \in AcceptedRows
             /\ new(r).id = r.id /\ new(r).chain = r.chain /\ new(r).block = r.block
             /\ new(r).oracle = LatestId(OracleRows(r, rem))
             /\ new(r).relayer = LatestId(RelayerRows(r, rem))
  <2>1. /\ new(r) \in AcceptedRows
        /\ new(r).id = r.id /\ new(r).chain = r.chain /\ new(r).block = r.block
        /\ new(r).oracle = LastOr(OracleRows(cl(r), t), cl(r).oracle)
        /\ new(r).relayer = LastOr(RelayerRows(cl(r), t), cl(r).relayer)
    <3> HIDE DEF cl, t
    <3> QED BY <1>3, <1>4, FilledFields
  <2>2. OracleRows(cl(r), t) = OracleRows(r, t) /\ RelayerRows(cl(r), t) = RelayerRows(r, t)
    <3> HIDE DEF cl, t
    <3> QED BY <1>4, SameKeySameRows
  <2>3. CASE r.id \in msgs
    <3>1. OracleRows(r, t) = OracleRows(r, rem) /\ RelayerRows(r, t) = RelayerRows(r, rem)
      BY <2>3 DEF OracleRows, RelayerRows
    <3> HIDE DEF cl, t, new
    <3> QED BY <1>4, <2>1, <2>2, <2>3, <3>1, LatestIsLastOr
  <2>4. CASE r.id \notin msgs
    <3>1. OracleRows(r, t) = {} /\ RelayerRows(r, t) = {}
      BY <1>m, <2>4 DEF OracleRows, RelayerRows
    <3>2. OracleRows(r, rem) = OracleRows(r, all) /\ RelayerRows(r, rem) = RelayerRows(r, all)
      BY <1>m, <2>4 DEF OracleRows, RelayerRows
    <3>3. /\ r.oracle = LatestId(OracleRows(r, rem))
          /\ r.relayer = LatestId(RelayerRows(r, rem))
      BY <3>2 DEF FilledFrom
    <3> HIDE DEF cl, t, new
    <3> QED BY <1>4, <2>1, <2>2, <2>4, <3>1, <3>3 DEF LastOr
  <2> QED BY <2>1, <2>3, <2>4
<1> HIDE DEF new
<1>7. FilledFrom(w, rem)
  <2> SUFFICES ASSUME NEW r \in table
               PROVE  /\ new(r).oracle = LatestId(OracleRows(new(r), rem))
                      /\ new(r).relayer = LatestId(RelayerRows(new(r), rem))
    BY <1>5 DEF FilledFrom
  <2>1. /\ OracleRows(new(r), rem) = OracleRows(r, rem)
        /\ RelayerRows(new(r), rem) = RelayerRows(r, rem)
    BY <1>6, SameKeySameRows
  <2> QED BY <1>6, <2>1
<1>8. {KeyOf(r) : r \in w} = {KeyOf(r) : r \in table}
  <2>1. \A r \in table : KeyOf(new(r)) = KeyOf(r)
    BY <1>6 DEF KeyOf
  <2> QED BY <1>5, <2>1
<1>9. w \in SUBSET AcceptedRows
  BY <1>5, <1>6
<1> QED BY <1>7, <1>8, <1>9 DEF Keys

LEMMA RollbackAccepted ==
  ASSUME NEW d \in Databases, NEW X, AcceptedMatch(d, X), NEW c \in Chain, NEW b, NEW w,
         w.assigned = d.assigned \ Above(d.assigned, c, b),
         w.accepted = Recompute(d.accepted \ Above(d.accepted, c, b),
                                d.assigned \ Above(d.assigned, c, b),
                                {a.msg : a \in Above(d.assigned, c, b)})
  PROVE  /\ w.accepted \in SUBSET AcceptedRows
         /\ w.assigned \in AssignedTables
         /\ AcceptedMatch(w, Kept(X, c, b))
<1> DEFINE table == d.accepted \ Above(d.accepted, c, b)
           rem   == d.assigned \ Above(d.assigned, c, b)
           msgs  == {a.msg : a \in Above(d.assigned, c, b)}
<1>1. /\ d.accepted \in SUBSET AcceptedRows /\ d.assigned \in AssignedTables
      /\ table \in SUBSET d.accepted /\ rem \in SUBSET d.assigned
  BY DEF Databases
<1>2. FilledFrom(table, d.assigned)
  BY DEF AcceptedMatch, FilledFrom
<1>3. /\ w.accepted \in SUBSET AcceptedRows
      /\ FilledFrom(w.accepted, rem)
      /\ {KeyOf(r) : r \in w.accepted} = {KeyOf(r) : r \in table}
  <2> DEFINE a == w.accepted
  <2>1. a = Recompute(table, rem, msgs) /\ table \in SUBSET AcceptedRows
    BY <1>1
  <2>2. rem = d.assigned \ Above(d.assigned, c, b) /\ msgs = Reassigned(d.assigned, c, b)
    BY DEF Reassigned
  <2> HIDE DEF a, table, rem, msgs
  <2>3. a \in SUBSET AcceptedRows /\ FilledFrom(a, rem) /\ Keys(a) = Keys(table)
    BY <1>1, <1>2, <2>1, <2>2, RecomputeFills
  <2> QED BY <2>3 DEF a, Keys
<1>4. rem \in AssignedTables
  <2>1. IsFiniteSet(rem)
    <3> HIDE DEF rem
    <3> QED BY <1>1, FS_Subset DEF AssignedTables
  <2> HIDE DEF rem
  <2> QED BY <1>1, <2>1 DEF AssignedTables, Keyed
<1>5. {KeyOf(r) : r \in table} = {EventKey(x) : x \in Of(Kept(X, c, b), "accepted")}
  <2>1. ASSUME NEW r \in table
        PROVE  \E x \in Of(Kept(X, c, b), "accepted") : KeyOf(r) = EventKey(x)
    <3>1. PICK x \in Of(X, "accepted") : KeyOf(r) = EventKey(x)
      BY <1>1 DEF AcceptedMatch
    <3>2. r.chain = x.chain /\ r.block = x.block
      BY <3>1 DEF KeyOf, EventKey
    <3>3. ~(r.chain = c /\ r.block >= b)
      BY DEF Above
    <3>4. x \in Of(Kept(X, c, b), "accepted")
      BY <3>2, <3>3 DEF Of, Kept
    <3> QED BY <3>1, <3>4
  <2>2. ASSUME NEW x \in Of(Kept(X, c, b), "accepted")
        PROVE  \E r \in table : KeyOf(r) = EventKey(x)
    <3>1. x \in Of(X, "accepted") /\ ~(x.chain = c /\ x.block >= b)
      BY DEF Of, Kept
    <3>2. PICK r \in d.accepted : KeyOf(r) = EventKey(x)
      BY <3>1 DEF AcceptedMatch
    <3>3. r.chain = x.chain /\ r.block = x.block
      BY <3>2 DEF KeyOf, EventKey
    <3>4. r \in table
      BY <3>1, <3>3 DEF Above
    <3> QED BY <3>2, <3>4
  <2> HIDE DEF table
  <2> QED BY <2>1, <2>2
<1> HIDE DEF table, rem, msgs
<1>6. w.assigned = rem
  BY DEF rem
<1> QED BY <1>3, <1>4, <1>5, <1>6 DEF AcceptedMatch

\* The anchors are those of the blocks of the history.
AnchorOf(c, b, block) == [chain |-> c, block |-> b, hash |-> block.hash]

AnchorsMatch(an, ix) ==
    \A a : a \in an <=> \E c \in Chain : \E b \in DOMAIN ix[c] : a = AnchorOf(c, b, ix[c][b])

LEMMA AnchorsTyped ==
  ASSUME NEW an, NEW ix, Histories(ix), AnchorsMatch(an, ix)
  PROVE  an \subseteq [chain : Chain, block : Height, hash : BlockHash]
<1> SUFFICES ASSUME NEW a \in an PROVE a \in [chain : Chain, block : Height, hash : BlockHash]
  OBVIOUS
<1>1. PICK c, b : c \in Chain /\ b \in DOMAIN ix[c] /\ a = AnchorOf(c, b, ix[c][b])
  BY DEF AnchorsMatch
<1>2. b \in Height /\ ix[c][b] \in Blocks(c)
  BY <1>1, HistoryFields
<1>3. ix[c][b].hash \in BlockHash
  BY <1>1, <1>2 DEF Blocks, BlockHash
<1> QED BY <1>1, <1>2, <1>3 DEF AnchorOf

LEMMA AnchorsWritten ==
  ASSUME NEW an, NEW ix, AnchorsMatch(an, ix), NEW jx, NEW c \in Chain, NEW b, NEW block,
         WithBlock(ix, jx, c, b, block),
         NEW bn, bn = {a \in an : a.chain # c \/ a.block # b} \cup {AnchorOf(c, b, block)}
  PROVE  AnchorsMatch(bn, jx)
<1> SUFFICES ASSUME NEW a
             PROVE  a \in bn <=> \E d \in Chain : \E e \in DOMAIN jx[d] : a = AnchorOf(d, e, jx[d][e])
  BY DEF AnchorsMatch
<1>0. \A d, e, q : AnchorOf(d, e, q).chain = d /\ AnchorOf(d, e, q).block = e
  BY DEF AnchorOf
<1>1. ASSUME a \in bn PROVE \E d \in Chain : \E e \in DOMAIN jx[d] : a = AnchorOf(d, e, jx[d][e])
  <2>1. CASE a = AnchorOf(c, b, block)
    BY <2>1 DEF WithBlock
  <2>2. CASE a \in an
    <3>1. PICK d, e : d \in Chain /\ e \in DOMAIN ix[d] /\ a = AnchorOf(d, e, ix[d][e])
      BY <2>2 DEF AnchorsMatch
    <3> QED BY <3>1 DEF WithBlock
  <2> QED BY <1>1, <2>1, <2>2
<1>2. ASSUME NEW d \in Chain, NEW e \in DOMAIN jx[d], a = AnchorOf(d, e, jx[d][e]) PROVE a \in bn
  <2>1. CASE d = c /\ e = b
    BY <1>2, <2>1 DEF WithBlock
  <2>2. CASE ~(d = c /\ e = b)
    <3>1. e \in DOMAIN ix[d] /\ jx[d][e] = ix[d][e]
      BY <2>2 DEF WithBlock
    <3>2. a \in an
      BY <1>2, <3>1 DEF AnchorsMatch
    <3>3. a.chain = d /\ a.block = e
      BY <1>0, <1>2
    <3> QED BY <2>2, <3>2, <3>3
  <2> QED BY <2>1, <2>2
<1> QED BY <1>1, <1>2

LEMMA AnchorsCut ==
  ASSUME NEW an, NEW ix, AnchorsMatch(an, ix), NEW jx, NEW c \in Chain, NEW b,
         WithoutBlocks(ix, jx, c, b), NEW bn, bn = an \ Above(an, c, b)
  PROVE  AnchorsMatch(bn, jx)
<1> SUFFICES ASSUME NEW a
             PROVE  a \in bn <=> \E d \in Chain : \E e \in DOMAIN jx[d] : a = AnchorOf(d, e, jx[d][e])
  BY DEF AnchorsMatch
<1>0. \A d, e, q : AnchorOf(d, e, q).chain = d /\ AnchorOf(d, e, q).block = e
  BY DEF AnchorOf
<1>1. ASSUME a \in bn PROVE \E d \in Chain : \E e \in DOMAIN jx[d] : a = AnchorOf(d, e, jx[d][e])
  <2>1. a \in an /\ ~(a.chain = c /\ a.block >= b)
    BY <1>1 DEF Above
  <2>2. PICK d, e : d \in Chain /\ e \in DOMAIN ix[d] /\ a = AnchorOf(d, e, ix[d][e])
    BY <2>1 DEF AnchorsMatch
  <2>3. a.chain = d /\ a.block = e
    BY <1>0, <2>2
  <2>4. e \in DOMAIN jx[d] /\ jx[d][e] = ix[d][e]
    BY <2>1, <2>2, <2>3 DEF WithoutBlocks
  <2> QED BY <2>2, <2>4
<1>2. ASSUME NEW d \in Chain, NEW e \in DOMAIN jx[d], a = AnchorOf(d, e, jx[d][e]) PROVE a \in bn
  <2>1. e \in DOMAIN ix[d] /\ ~(d = c /\ e >= b) /\ jx[d][e] = ix[d][e]
    BY DEF WithoutBlocks
  <2>2. a \in an
    BY <1>2, <2>1 DEF AnchorsMatch
  <2>3. a.chain = d /\ a.block = e
    BY <1>0, <1>2
  <2> QED BY <2>1, <2>2, <2>3 DEF Above
<1> QED BY <1>1, <1>2

\* Signatures are told by the block hashes of the anchors, and by the chain that
\* the payload names: they are the right ones if it names no other indexed chain.
NoOtherNamed == \A p \in Payload, c \in Chain : p \in Chain => p = c

LEMMA SignaturesCut ==
  ASSUME NoOtherNamed, Histories(indexed), AnchorsMatch(anchors, indexed),
         NEW X, X = AllOf(indexed),
         signatures = {SignatureRow(x, x.event) : x \in Of(X, "signature")},
         NEW c \in Chain, NEW b \in DOMAIN indexed[c]
  PROVE  (signatures \ SignaturesAnchored(c, b)) \ Above(signatures, c, b)
           = {SignatureRow(x, x.event) : x \in Of(Kept(X, c, b), "signature")}
<1> DEFINE gone == SignaturesAnchored(c, b) \cup Above(signatures, c, b)
<1>1. ASSUME NEW x \in Of(X, "signature"), NEW s, s = SignatureRow(x, x.event)
      PROVE  s \in gone <=> x.chain = c /\ x.block >= b
  <2>1. /\ x \in AllOf(indexed) /\ x \in FoundEvents /\ x.event.type = "signature"
        /\ s \in signatures
    BY <1>1, AllOfFields DEF Of
  <2>2. /\ x.chain \in Chain /\ x.hash[1] = x.chain /\ x.event.payload \in Payload
        /\ s.block = x.block /\ s.id[2] = x.hash /\ s.chain = x.event.payload
    BY <1>1, <2>1, FoundFields, EventFields DEF SignatureRow, EventLogId
  <2>3. ASSUME s \in SignaturesAnchored(c, b) PROVE x.chain = c /\ x.block >= b
    <3>1. PICK a \in Above(anchors, c, b) : s.block = a.block /\ s.id[2] = a.hash
      BY <2>3 DEF SignaturesAnchored
    <3>2. a \in anchors /\ a.chain = c /\ a.block >= b
      BY DEF Above
    <3>3. PICK d, e : d \in Chain /\ e \in DOMAIN indexed[d] /\ a = AnchorOf(d, e, indexed[d][e])
      BY <3>2 DEF AnchorsMatch
    <3>4. d = c /\ a.hash = indexed[c][e].hash
      BY <3>2, <3>3 DEF AnchorOf
    <3>5. indexed[c][e] \in Blocks(c)
      BY <3>3, <3>4, HistoryFields
    <3>6. a.hash[1] = c
      BY <3>4, <3>5 DEF Blocks
    <3> QED BY <2>2, <3>1, <3>2, <3>6
  <2>4. ASSUME s \in Above(signatures, c, b) PROVE x.chain = c /\ x.block >= b
    <3>1. s.chain = c /\ s.block >= b
      BY <2>4 DEF Above
    <3> QED BY <2>2, <3>1 DEF NoOtherNamed
  <2>5. ASSUME x.chain = c, x.block >= b PROVE s \in SignaturesAnchored(c, b)
    <3> DEFINE a == AnchorOf(c, x.block, indexed[c][x.block])
    <3>1. /\ x.block \in DOMAIN indexed[c]
          /\ x = Found(c, x.block, indexed[c][x.block], x.index)
      BY <2>1, <2>5, AllOfFields
    <3>2. x.hash = indexed[c][x.block].hash
      BY <3>1 DEF Found
    <3>3. a \in anchors
      BY <3>1 DEF AnchorsMatch
    <3>4. a.chain = c /\ a.block = x.block /\ a.hash = x.hash
      BY <3>2 DEF AnchorOf
    <3> HIDE DEF a
    <3> QED BY <2>1, <2>2, <2>5, <3>3, <3>4 DEF SignaturesAnchored, Above
  <2> QED BY <2>3, <2>4, <2>5
<1>2. (signatures \ SignaturesAnchored(c, b)) \ Above(signatures, c, b) = signatures \ gone
  OBVIOUS
<1>3. Of(Kept(X, c, b), "signature") = {x \in Of(X, "signature") : ~(x.chain = c /\ x.block >= b)}
  BY DEF Of, Kept
<1> HIDE DEF gone
<1> QED BY <1>1, <1>2, <1>3
-----------------------------------------------------------------------------
(* The invariant.                                                          *)

StoreInv ==
    /\ Histories(indexed)
    /\ Distinct(AllOf(indexed))
    /\ Database \in Databases
    /\ Matches(Database, AllOf(indexed))
    /\ AnchorsMatch(anchors, indexed)
    /\ checkpoint \in [Chain -> 1..(MaxBlock + 1)]

SignaturesInv == SignaturesMatch(Database, AllOf(indexed))

LEMMA DatabaseFields ==
  /\ Database.accepted = accepted /\ Database.assigned = assigned
  /\ Database.dispatched = dispatched /\ Database.imported = imported
  /\ Database.msgport = msgport /\ Database.signatures = signatures
BY DEF Database

LEMMA InitHolds ==
  ASSUME Init PROVE StoreInv /\ SignaturesInv
<1>1. \A c \in Chain : indexed[c] = <<>>
  BY DEF Init
<1>2. indexed = [c \in Chain |-> indexed[c]]
  BY <1>1 DEF Init
<1>3. Histories(indexed)
  <2>1. \A c \in Chain : indexed[c] \in Seq(Blocks(c)) /\ Len(indexed[c]) <= MaxBlock
    <3>1. ASSUME NEW S PROVE <<>> \in Seq(S) /\ Len(<<>>) <= MaxBlock
      <4>1. Len(<<>>) = 0 /\ MaxBlock \in Nat
        BY StoreAssumption
      <4> QED BY <4>1
    <3> QED BY <1>1, <3>1
  <2> QED BY <1>2, <2>1 DEF Histories
<1>4. \A c \in Chain : DOMAIN indexed[c] = {}
  BY <1>1
<1>5. AllOf(indexed) = {}
  BY <1>4 DEF AllOf
<1>6. Database \in Databases
  <2>1. IsFiniteSet({})
    BY FS_EmptySet
  <2>2. {} \in AssignedTables
    BY <2>1 DEF AssignedTables, Keyed
  <2> QED BY <2>2 DEF Init, Database, Databases
<1>7. Matches(Database, {}) /\ SignaturesMatch(Database, {})
  <2>1. \A t : Of({}, t) = {}
    BY DEF Of
  <2> QED BY <2>1 DEF Matches, RowsMatch, AcceptedMatch, FilledFrom, SignaturesMatch, Init, Database
<1>8. Distinct({})
  BY DEF Distinct
<1>9. AnchorsMatch(anchors, indexed)
  BY <1>4 DEF AnchorsMatch, Init
<1>10. checkpoint \in [Chain -> 1..(MaxBlock + 1)]
  BY StoreAssumption DEF Init
<1> QED BY <1>3, <1>5, <1>6, <1>7, <1>8, <1>9, <1>10 DEF StoreInv, SignaturesInv

LEMMA Committed ==
  ASSUME NEW w \in Databases, Commit(w) PROVE Database' = w
<1>1. w = [accepted |-> w.accepted, assigned |-> w.assigned, dispatched |-> w.dispatched,
           imported |-> w.imported, msgport |-> w.msgport, signatures |-> w.signatures]
  BY DEF Databases
<1> QED BY <1>1 DEF Commit, Database

\* A block written, new or again.
LEMMA BlockWritten ==
  ASSUME StoreInv, NEW c \in Chain, NEW b \in Height, NEW block \in Blocks(c),
         WriteBlock(c, b, block),
         NEW X, X = AllOf(indexed) \cup EventsIn(c, b, block), Distinct(X),
         \A x \in EventsIn(c, b, block) : Newest(x, X)
  PROVE  /\ Database' \in Databases /\ Matches(Database', X)
         /\ SignaturesInv => SignaturesMatch(Database', X)
         /\ checkpoint' \in [Chain -> 1..(MaxBlock + 1)]
<1> DEFINE w == WriteEvents(Database, c, b, block)
<1>1. /\ w \in Databases /\ Matches(w, X)
      /\ SignaturesMatch(Database, AllOf(indexed)) => SignaturesMatch(w, X)
  <2>1. /\ Database \in Databases /\ Matches(Database, AllOf(indexed))
        /\ AllOf(indexed) \in SUBSET FoundEvents
    BY AllOfFields DEF StoreInv
  <2>2. w = WriteEvents(Database, c, b, block)
    OBVIOUS
  <2> HIDE DEF w
  <2> QED BY <2>1, <2>2, WriteEventsMatch
<1>2. Commit(w)
  BY DEF WriteBlock
<1>3. Database' = w
  <2> HIDE DEF w
  <2> QED BY <1>1, <1>2, Committed
<1>4. checkpoint' \in [Chain -> 1..(MaxBlock + 1)]
  <2>1. checkpoint' = [checkpoint EXCEPT ![c] = b + 1]
    BY DEF WriteBlock, NextBlock
  <2>2. b + 1 \in 1..(MaxBlock + 1)
    BY StoreAssumption DEF Height
  <2> QED BY <2>1, <2>2 DEF StoreInv
<1> HIDE DEF w
<1> QED BY <1>1, <1>3, <1>4 DEF SignaturesInv

LEMMA IndexBlockHolds ==
  ASSUME StoreInv, NEW c \in Chain, IndexBlock(c)
  PROVE  StoreInv' /\ (SignaturesInv => SignaturesInv')
<1> DEFINE b == Len(indexed[c]) + 1
<1>1. b \in Height
  BY DEF IndexBlock
<1>2. PICK events \in Contents(c), hash \in Hash :
         /\ CanFollow(c, events)
         /\ WriteBlock(c, b, [hash |-> <<c, hash>>, events |-> events])
         /\ indexed' = [indexed EXCEPT ![c] = Append(@, [hash |-> <<c, hash>>, events |-> events])]
  BY DEF IndexBlock
<1> DEFINE block == [hash |-> <<c, hash>>, events |-> events]
           X == AllOf(indexed) \cup EventsIn(c, b, block)
<1>3. block \in Blocks(c) /\ CanFollow(c, block.events)
  BY <1>2 DEF Blocks
<1>4. /\ WriteBlock(c, b, block) /\ b = Len(indexed[c]) + 1
      /\ indexed' = [indexed EXCEPT ![c] = Append(indexed[c], block)]
  BY <1>2
<1>5. Histories(indexed) /\ Distinct(AllOf(indexed)) /\ AnchorsMatch(anchors, indexed)
  BY DEF StoreInv
<1>6. X = AllOf(indexed) \cup EventsIn(c, b, block)
  OBVIOUS
<1> HIDE DEF b, block, X
<1>7. Distinct(X) /\ \A x \in EventsIn(c, b, block) : Newest(x, X)
  BY <1>1, <1>3, <1>4, <1>5, <1>6, NewBlock
<1>8. /\ Database' \in Databases /\ Matches(Database', X)
      /\ SignaturesInv => SignaturesMatch(Database', X)
      /\ checkpoint' \in [Chain -> 1..(MaxBlock + 1)]
  BY <1>1, <1>3, <1>4, <1>6, <1>7, BlockWritten
<1>9. Histories(indexed') /\ WithBlock(indexed, indexed', c, b, block) /\ AllOf(indexed') = X
  <2>1. Histories(indexed') /\ WithBlock(indexed, indexed', c, b, block)
    BY <1>1, <1>3, <1>4, <1>5, HistoryAppend
  <2>2. AllOf(indexed') = AllOf(indexed) \cup EventsIn(c, b, block)
    BY <2>1, EventsAdded
  <2> QED BY <1>6, <2>1, <2>2
<1>10. AnchorsMatch(anchors', indexed')
  <2>1. anchors' = {a \in anchors : a.chain # c \/ a.block # b} \cup {AnchorOf(c, b, block)}
    BY <1>4 DEF WriteBlock, AnchorOf
  <2> QED BY <1>5, <1>9, <2>1, AnchorsWritten
<1> QED BY <1>7, <1>8, <1>9, <1>10 DEF StoreInv, SignaturesInv

LEMMA IndexBlockAgainHolds ==
  ASSUME StoreInv, NEW c \in Chain, IndexBlockAgain(c)
  PROVE  StoreInv' /\ (SignaturesInv => SignaturesInv')
<1>1. PICK b \in DOMAIN indexed[c] : WriteBlock(c, b, indexed[c][b])
  BY DEF IndexBlockAgain
<1> DEFINE block == indexed[c][b]
           X == AllOf(indexed)
<1>2. Histories(indexed) /\ Distinct(X) /\ AnchorsMatch(anchors, indexed) /\ Matches(Database, X)
  BY DEF StoreInv
<1>3. b \in Height /\ block \in Blocks(c) /\ EventsIn(c, b, block) \in SUBSET X
  BY <1>2, BlockOfHistory
<1>4. X \in SUBSET FoundEvents /\ X = X \cup EventsIn(c, b, block)
  BY <1>2, <1>3, AllOfFields
<1>5. indexed' = indexed
  BY DEF IndexBlockAgain
<1>6. \A x \in EventsIn(c, b, block) : Newest(x, X)
  <2>1. \A r, s \in Database.assigned : r.msg = s.msg => r = s
    BY DatabaseFields DEF IndexBlockAgain, AssignedOnce
  <2>2. RowsMatch(Database, X)
    BY <1>2 DEF Matches
  <2> HIDE DEF X, block
  <2> QED BY <1>2, <1>3, <1>4, <2>1, <2>2, AgainNewest
<1>7. /\ Database' \in Databases /\ Matches(Database', X)
      /\ SignaturesInv => SignaturesMatch(Database', X)
      /\ checkpoint' \in [Chain -> 1..(MaxBlock + 1)]
  <2>1. X = AllOf(indexed) \cup EventsIn(c, b, block) /\ WriteBlock(c, b, block)
    BY <1>1, <1>4
  <2> HIDE DEF X, block
  <2> QED BY <1>2, <1>3, <1>6, <2>1, BlockWritten
<1>8. WithBlock(indexed, indexed, c, b, block)
  BY DEF WithBlock
<1>9. AnchorsMatch(anchors', indexed)
  <2>1. anchors' = {a \in anchors : a.chain # c \/ a.block # b} \cup {AnchorOf(c, b, block)}
    BY <1>1 DEF WriteBlock, AnchorOf
  <2> HIDE DEF block
  <2> QED BY <1>2, <1>8, <2>1, AnchorsWritten
<1>10. X' = X
  BY <1>5
<1> QED BY <1>2, <1>5, <1>7, <1>9, <1>10 DEF StoreInv, SignaturesInv

LEMMA RollbackHolds ==
  ASSUME StoreInv, NEW c \in Chain, Rollback(c)
  PROVE  StoreInv' /\ (NoOtherNamed /\ SignaturesInv => SignaturesInv')
<1>1. PICK b \in DOMAIN indexed[c] :
         LET remaining == assigned \ Above(assigned, c, b) IN
           /\ assigned' = remaining
           /\ accepted' = Recompute(accepted \ Above(accepted, c, b), remaining,
                                    RecomputedMessages(c, b))
           /\ dispatched' = dispatched \ Above(dispatched, c, b)
           /\ imported' = imported \ Above(imported, c, b)
           /\ msgport' = msgport \ Above(msgport, c, b)
           /\ signatures' = (signatures \ SignaturesAnchored(c, b)) \ Above(signatures, c, b)
           /\ anchors' = anchors \ Above(anchors, c, b)
           /\ checkpoint' = [checkpoint EXCEPT ![c] = b]
           /\ indexed' = [indexed EXCEPT ![c] = SubSeq(@, 1, b - 1)]
  BY DEF Rollback
<1> DEFINE d == Database
           w == Database'
           X == AllOf(indexed)
           Y == Kept(X, c, b)
<1>2. /\ Histories(indexed) /\ Distinct(X) /\ AnchorsMatch(anchors, indexed)
      /\ d \in Databases /\ RowsMatch(d, X) /\ AcceptedMatch(d, X)
      /\ checkpoint \in [Chain -> 1..(MaxBlock + 1)]
  BY DEF StoreInv, Matches
<1>3. /\ d.accepted = accepted /\ d.assigned = assigned /\ d.dispatched = dispatched
      /\ d.imported = imported /\ d.msgport = msgport /\ d.signatures = signatures
  BY DatabaseFields
<1>4. w = [accepted |-> accepted', assigned |-> assigned', dispatched |-> dispatched',
           imported |-> imported', msgport |-> msgport', signatures |-> signatures']
  BY DEF Database
<1>5. /\ w.accepted = Recompute(d.accepted \ Above(d.accepted, c, b),
                                d.assigned \ Above(d.assigned, c, b),
                                {a.msg : a \in Above(d.assigned, c, b)})
      /\ w.assigned = d.assigned \ Above(d.assigned, c, b)
      /\ w.dispatched = d.dispatched \ Above(d.dispatched, c, b)
      /\ w.imported = d.imported \ Above(d.imported, c, b)
      /\ w.msgport = d.msgport \ Above(d.msgport, c, b)
      /\ w.signatures \subseteq d.signatures
  <2> HIDE DEF d, w
  <2> QED BY <1>1, <1>3, <1>4 DEF RecomputedMessages
<1> HIDE DEF d, w
<1>6. RowsMatch(w, Y)
  <2> HIDE DEF X
  <2> QED BY <1>2, <1>5, RollbackRows
<1>7. /\ w.accepted \in SUBSET AcceptedRows /\ w.assigned \in AssignedTables
      /\ AcceptedMatch(w, Y)
  <2> HIDE DEF X
  <2> QED BY <1>2, <1>5, RollbackAccepted
<1>8. w \in Databases
  BY <1>2, <1>4, <1>5, <1>7 DEF Databases
<1>9. Histories(indexed') /\ WithoutBlocks(indexed, indexed', c, b) /\ AllOf(indexed') = Y
  <2>1. indexed' = [indexed EXCEPT ![c] = SubSeq(indexed[c], 1, b - 1)]
    BY <1>1
  <2>2. AllOf(indexed') = Kept(AllOf(indexed), c, b)
    BY <1>2, <2>1, HistoryCut
  <2>3. Histories(indexed') /\ WithoutBlocks(indexed, indexed', c, b)
    BY <1>2, <2>1, HistoryCut
  <2> QED BY <2>2, <2>3
<1>10. Distinct(Y)
  <2>1. Y \in SUBSET X
    BY DEF Kept
  <2> HIDE DEF X, Y
  <2> QED BY <1>2, <2>1, DistinctSubset
<1>11. AnchorsMatch(anchors', indexed')
  <2>1. anchors' = anchors \ Above(anchors, c, b)
    BY <1>1
  <2> QED BY <1>2, <1>9, <2>1, AnchorsCut
<1>12. checkpoint' \in [Chain -> 1..(MaxBlock + 1)]
  <2>1. b \in 1..(MaxBlock + 1) /\ checkpoint' = [checkpoint EXCEPT ![c] = b]
    BY <1>1, <1>2, HistoryFields, StoreAssumption DEF Height
  <2> QED BY <1>2, <2>1
<1>13. NoOtherNamed /\ SignaturesInv => SignaturesInv'
  <2> SUFFICES ASSUME NoOtherNamed, SignaturesInv PROVE SignaturesInv'
    OBVIOUS
  <2>1. signatures = {SignatureRow(x, x.event) : x \in Of(X, "signature")}
    BY <1>3 DEF SignaturesInv, SignaturesMatch, d
  <2>2. X = AllOf(indexed)
    OBVIOUS
  <2> HIDE DEF X
  <2>3. (signatures \ SignaturesAnchored(c, b)) \ Above(signatures, c, b)
          = {SignatureRow(x, x.event) : x \in Of(Y, "signature")}
    BY <1>2, <2>1, <2>2, SignaturesCut
  <2>4. w.signatures = {SignatureRow(x, x.event) : x \in Of(Y, "signature")}
    BY <1>1, <1>4, <2>3
  <2> QED BY <1>9, <2>4 DEF SignaturesInv, SignaturesMatch, w
<1> QED BY <1>6, <1>7, <1>8, <1>9, <1>10, <1>11, <1>12, <1>13 DEF StoreInv, Matches, w

LEMMA StepHolds ==
  ASSUME StoreInv, [Next]_vars PROVE StoreInv' /\ (NoOtherNamed /\ SignaturesInv => SignaturesInv')
<1>1. ASSUME NEW c \in Chain, IndexBlock(c)
      PROVE  StoreInv' /\ (NoOtherNamed /\ SignaturesInv => SignaturesInv')
  BY <1>1, IndexBlockHolds
<1>2. ASSUME NEW c \in Chain, IndexBlockAgain(c)
      PROVE  StoreInv' /\ (NoOtherNamed /\ SignaturesInv => SignaturesInv')
  BY <1>2, IndexBlockAgainHolds
<1>3. ASSUME NEW c \in Chain, Rollback(c)
      PROVE  StoreInv' /\ (NoOtherNamed /\ SignaturesInv => SignaturesInv')
  BY <1>3, RollbackHolds
<1>4. CASE UNCHANGED vars
  <2>1. Database' = Database /\ indexed' = indexed /\ anchors' = anchors /\ checkpoint' = checkpoint
    BY <1>4 DEF vars, tables, Database
  <2> QED BY <2>1 DEF StoreInv, SignaturesInv
<1> QED BY <1>1, <1>2, <1>3, <1>4 DEF Next

\* The inductive invariant of the event tables.
THEOREM StoreInvariant == Spec => []StoreInv
<1>1. Init => StoreInv
  BY InitHolds
<1>2. StoreInv /\ [Next]_vars => StoreInv'
  BY StepHolds
<1> QED BY <1>1, <1>2, PTL DEF Spec

LEMMA IndexedIsAll == Indexed = AllOf(indexed)
BY DEF Indexed, EventsOf, AllOf, EventsIn

\* Types: every row of every table has the fields, and an accepted row the
\* message of its own chain, that the code gives it (src/database.rs:214-545).
THEOREM TypeCorrect == Spec => []TypeOK
<1>1. StoreInv => TypeOK
  <2> SUFFICES ASSUME StoreInv PROVE TypeOK
    OBVIOUS
  <2>1. /\ accepted \in SUBSET AcceptedRows /\ assigned \in AssignedTables
        /\ dispatched \in SUBSET MessageRows /\ imported \in SUBSET MessageRows
        /\ msgport \in SUBSET [id : EventId, chain : Chain, block : Height]
        /\ signatures \in SUBSET [id : EventId, chain : Payload, block : Height]
    BY DatabaseFields DEF StoreInv, Databases
  <2>2. anchors \subseteq [chain : Chain, block : Height, hash : BlockHash]
    BY AnchorsTyped DEF StoreInv
  <2>3. \A r \in accepted :
           /\ r \in [id : Msg, chain : Chain, block : Height,
                     oracle : LogId \cup {Unset}, relayer : LogId \cup {Unset}]
           /\ r.id \in MsgOf[r.chain]
    BY <2>1 DEF AcceptedRows
  <2>4. assigned \subseteq [id : LogId, chain : Chain, block : Height, msg : Msg,
                            oracle : {"listed", "b49e", "other"},
                            relayer : {"listed", "other"}]
    BY <2>1 DEF AssignedTables, AssignedRows
  <2>5. checkpoint \in [Chain -> 1..(MaxBlock + 1)]
    BY DEF StoreInv
  <2> QED BY <2>1, <2>2, <2>3, <2>4, <2>5 DEF TypeOK, MessageRows
<1> QED BY <1>1, StoreInvariant, PTL

\* After any sequence of range writes, late repetitions of them and rollbacks,
\* on any chains, the assigned, dispatched, imported and msgport tables hold
\* exactly the events of the blocks indexed now: a rollback takes away what the
\* blocks it undoes had added and nothing else (src/database.rs:156-212).
THEOREM TablesAreIndexed == Spec => []RowsMatchIndexed
<1>1. StoreInv => RowsMatchIndexed
  <2> SUFFICES ASSUME StoreInv PROVE RowsMatchIndexed
    OBVIOUS
  <2>1. RowsMatch(Database, Indexed)
    BY IndexedIsAll DEF StoreInv, Matches
  <2>2. \A type : IndexedOf(type) = Of(Indexed, type)
    BY DEF IndexedOf, Of
  <2> QED BY <2>1, <2>2, DatabaseFields DEF RowsMatch, RowsMatchIndexed
<1> QED BY <1>1, StoreInvariant, PTL

\* In whatever order acceptances and assignments were indexed, repeated, rolled
\* back and indexed again, every accepted row names the latest assignment of its
\* message that counts for it, and the rows are those of the acceptances indexed
\* now (src/database.rs:382-435, 686-763).
THEOREM AcceptedAreFilled == Spec => []AcceptedMatchIndexed
<1>1. StoreInv => AcceptedMatchIndexed
  <2> SUFFICES ASSUME StoreInv PROVE AcceptedMatchIndexed
    OBVIOUS
  <2>1. AcceptedMatch(Database, Indexed)
    BY IndexedIsAll DEF StoreInv, Matches
  <2>2. /\ \A r \in accepted : /\ r.oracle = LatestId(OracleRows(r, assigned))
                               /\ r.relayer = LatestId(RelayerRows(r, assigned))
        /\ {KeyOf(r) : r \in accepted} = {EventKey(x) : x \in Of(Indexed, "accepted")}
    BY <2>1, DatabaseFields DEF AcceptedMatch, FilledFrom
  <2>3. IndexedOf("accepted") = Of(Indexed, "accepted")
    BY DEF IndexedOf, Of
  <2>4. \A r \in accepted :
          LET mine == {a \in assigned : a.msg = r.id} IN
            /\ r.oracle = LatestId({a \in mine : OracleMatches(a, r)})
            /\ r.relayer = LatestId({a \in mine : a.relayer = "listed"})
    BY <2>2 DEF OracleRows, RelayerRows
  <2>5. {[id |-> r.id, chain |-> r.chain, block |-> r.block] : r \in accepted}
          = {[id |-> x.event.msg, chain |-> x.chain, block |-> x.block] :
                x \in IndexedOf("accepted")}
    BY <2>2, <2>3 DEF KeyOf, EventKey
  <2> QED BY <2>4, <2>5 DEF AcceptedMatchIndexed
<1> QED BY <1>1, StoreInvariant, PTL

\* The signature table holds exactly the signatures of the blocks indexed now,
\* although its rows do not say which chain they were indexed on: provided that
\* no payload names another chain that is indexed.  Without that the code fails
\* (the run store_signatures_two; src/database.rs:171-190, 353-380).
THEOREM SignaturesAreIndexed ==
  NoOtherNamed => (Spec => []SignaturesMatchIndexed)
<1> SUFFICES ASSUME NoOtherNamed PROVE Spec => []SignaturesMatchIndexed
  OBVIOUS
<1>1. Init => StoreInv /\ SignaturesInv
  BY InitHolds
<1>2. StoreInv /\ SignaturesInv /\ [Next]_vars => (StoreInv /\ SignaturesInv)'
  BY StepHolds
<1>3. SignaturesInv => SignaturesMatchIndexed
  <2>1. IndexedOf("signature") = Of(AllOf(indexed), "signature")
    BY IndexedIsAll DEF IndexedOf, Of
  <2> QED BY <2>1, DatabaseFields DEF SignaturesInv, SignaturesMatch, SignaturesMatchIndexed
<1> QED BY <1>1, <1>2, <1>3, PTL DEF Spec
===============================================================================
