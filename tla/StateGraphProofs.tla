-------------------------- MODULE StateGraphProofs --------------------------
(***************************************************************************)
(* Proofs about StateGraph, for any graph, outputs, conditions that        *)
(* compare texts, limit of iterations and number of invocations: types,    *)
(* and what a kill costs.                                                  *)
(***************************************************************************)
EXTENDS StateGraph, Iteration

Pc == {"new", "node", "condition", "yield", "returned", "raised", "killed"}

-----------------------------------------------------------------------------
(* Facts about positions                                                   *)

\* The first position.
LEMMA StartIsPosition == Start \in Position
BY GraphIsBuilt DEF Start, Position, Target, Slot, GraphAssumption

\* A node that has run leaves a position, with one more iteration.
LEMMA RanIsPosition ==
    ASSUME NEW p \in Position, p.node \in Node, p.iteration < MaxIterations,
           NEW v \in Outputs[p.node]
    PROVE  /\ Ran(p, v) \in Position
           /\ Ran(p, v).node = p.node
           /\ Ran(p, v).iteration = p.iteration + 1
<1>1. v \in Slot
  BY GraphIsBuilt DEF GraphAssumption
<1>2. p.state \in [Node -> Slot] /\ p.iteration \in 0 .. MaxIterations
      /\ MaxIterations \in Nat
  BY GraphIsBuilt DEF Position, GraphAssumption
<1>3. Merged(p.state, p.node, v) \in [Node -> Slot]
  BY <1>1, <1>2 DEF Merged
<1>4. p.iteration + 1 \in 0 .. MaxIterations
  BY <1>2
<1> QED BY <1>3, <1>4 DEF Ran, Position

\* A next node that the edges give is a target.
LEMMA SettledIsPosition ==
    ASSUME NEW p \in Position, p.node \in Node, Resolves(p.node, p.state)
    PROVE  Settled(p) \in Position
<1>1. NextNode(p.node, p.state) \in Target
  <2>1. CASE p.node \in DOMAIN Mapping
    <3>1. p.state[Key[p.node]] \in DOMAIN Mapping[p.node]
      BY <2>1 DEF Resolves
    <3> QED BY <2>1, <3>1 DEF NextNode, Target
  <2>2. CASE p.node \notin DOMAIN Mapping
    <3>1. Edge[p.node] \in Node \cup {END}
      BY <2>2, GraphIsBuilt DEF GraphAssumption
    <3> QED BY <2>2, <3>1 DEF NextNode, Target
  <2> QED BY <2>1, <2>2
<1> QED BY <1>1 DEF Settled, Position

\* A file holds a position, which loading and storing leave as it is.
LEMMA StoredIsPosition ==
    ASSUME NEW p \in Position
    PROVE  /\ Stored(p) \in Position
           /\ Stored(p).node = p.node /\ Stored(p).iteration = p.iteration
           /\ Stored(Stored(p)) = Stored(p)
<1> DEFINE texts(s) == [n \in Node |-> IF s[n] = Unset THEN Unset ELSE Text[s[n]]]
<1>1. p.state \in [Node -> Slot]
  BY DEF Position
<1>2. texts(p.state) \in [Node -> Slot]
  BY <1>1, GraphIsBuilt DEF GraphAssumption, Slot
<1>3. texts(texts(p.state)) = texts(p.state)
  <2>1. ASSUME NEW n \in Node
        PROVE  texts(texts(p.state))[n] = texts(p.state)[n]
    <3>1. CASE p.state[n] = Unset
      BY <3>1
    <3>2. CASE p.state[n] # Unset
      <4>1. p.state[n] \in Value
        BY <1>1, <3>2 DEF Slot
      <4>2. Text[p.state[n]] # Unset /\ Text[Text[p.state[n]]] = Text[p.state[n]]
        BY <4>1, GraphIsBuilt DEF GraphAssumption
      <4> QED BY <3>2, <4>2
    <3> QED BY <3>1, <3>2
  <2> QED BY <2>1
<1>4. Stored(p) = [p EXCEPT !.state = texts(p.state)]
  BY DEF Stored
<1>5. /\ Stored(p) \in Position /\ Stored(p).state = texts(p.state)
      /\ Stored(p).node = p.node /\ Stored(p).iteration = p.iteration
  BY <1>2, <1>4 DEF Position
<1>6. Stored(Stored(p)) = [Stored(p) EXCEPT !.state = texts(Stored(p).state)]
  BY DEF Stored
<1>7. Stored(Stored(p)) = Stored(p)
  BY <1>3, <1>5, <1>6 DEF Position
<1> QED BY <1>5, <1>7

\* Where the head of the loop leads.
LEMMA LoopHeadLeads ==
    ASSUME NEW p \in Position
    PROVE  /\ LoopHead(p) \in {"node", "returned", "raised"}
           /\ LoopHead(p) = "node" => p.node \in Node /\ p.iteration < MaxIterations
<1>1. p.iteration \in Int /\ MaxIterations \in Int
  BY GraphIsBuilt DEF Position, GraphAssumption
<1>2. CASE p.node = END
  BY <1>2, GraphIsBuilt DEF LoopHead, GraphAssumption
<1>3. CASE p.node # END /\ p.iteration >= MaxIterations
  BY <1>1, <1>3 DEF LoopHead
<1>4. CASE p.node # END /\ p.node \notin Node /\ p.iteration < MaxIterations
  BY <1>1, <1>4 DEF LoopHead
<1>5. CASE p.node # END /\ p.node \in Node /\ p.iteration < MaxIterations
  BY <1>1, <1>5 DEF LoopHead
<1> QED BY <1>1, <1>2, <1>3, <1>4, <1>5

-----------------------------------------------------------------------------
(* The inductive invariant                                                 *)

\* An invocation that awaits a node or a condition has a node to run.
PcFits ==
    \A i \in Invocation :
        /\ pc[i] = "node" => at[i].node \in Node /\ at[i].iteration < MaxIterations
        /\ pc[i] = "condition" => at[i].node \in Node

\* What the file holds is what reading and writing it again leaves.
FileIsText == file \notin {NoFile, Torn} => Stored(file) = file

\* Of two invocations under way none is alone.
AloneIsAlone ==
    \A i, j \in Invocation : i # j /\ Active(i) /\ Active(j) => ~alone[i]

Inv == TypeOK /\ PcFits /\ FileIsText /\ AloneIsAlone /\ OneNodeLost

-----------------------------------------------------------------------------
\* The initial states satisfy the invariant.
LEMMA InitInv == Init => Inv
<1> SUFFICES ASSUME Init PROVE Inv
  OBVIOUS
<1>1. TypeOK
  BY StartIsPosition DEF Init, TypeOK
<1>2. PcFits /\ FileIsText /\ AloneIsAlone /\ OneNodeLost
  BY DEF Init, PcFits, FileIsText, AloneIsAlone, OneNodeLost, Active
<1> QED BY <1>1, <1>2 DEF Inv

\* An invocation that stops leaves the others and the file as they were, or
\* the file torn; nobody who was alone remains.
LEMMA StopsStep ==
    ASSUME Inv, NEW i \in Invocation, NEW how \in {"raised", "killed"}, Stops(i, how),
           \/ UNCHANGED file
           \/ Active(i) /\ file' = Torn
    PROVE  Inv'
<1> USE DEF Inv
<1>1. /\ pc' = [pc EXCEPT ![i] = how] /\ at' = [at EXCEPT ![i] = Start]
      /\ stream' = [stream EXCEPT ![i] = FALSE] /\ alone' = [alone EXCEPT ![i] = TRUE]
  BY DEF Stops
<1>2. TypeOK'
  BY <1>1, StartIsPosition DEF TypeOK
<1>3. /\ ~Active(i)'
      /\ \A j \in Invocation \ {i} : /\ pc'[j] = pc[j] /\ at'[j] = at[j]
                                     /\ alone'[j] = alone[j] /\ (Active(j)' <=> Active(j))
  BY <1>1 DEF Active, TypeOK
<1>4. PcFits' /\ AloneIsAlone' /\ FileIsText'
  <2>1. PcFits'
    BY <1>1, <1>3 DEF PcFits, Active, TypeOK
  <2>2. AloneIsAlone'
    BY <1>3 DEF AloneIsAlone
  <2>3. FileIsText'
    BY DEF FileIsText
  <2> QED BY <2>1, <2>2, <2>3
<1>5. OneNodeLost'
  <2> SUFFICES ASSUME NEW j \in Invocation, Active(j)', alone'[j]
               PROVE  \/ at'[j] = Start
                      \/ pc'[j] = "condition" /\ at'[j].iteration = 1
                      \/ /\ file' \notin {NoFile, Torn}
                         /\ \/ pc'[j] # "condition" /\ file' = Stored(at'[j])
                            \/ /\ pc'[j] = "condition" /\ file'.node = at'[j].node
                               /\ file'.iteration = at'[j].iteration - 1
    BY DEF OneNodeLost, Stored
  <2>1. j # i /\ Active(j) /\ alone[j] /\ pc'[j] = pc[j] /\ at'[j] = at[j]
    BY <1>3
  <2>2. ~Active(i)
    BY <2>1 DEF AloneIsAlone
  <2>3. file' = file
    BY <2>2
  <2> QED BY <2>1, <2>3 DEF OneNodeLost
<1> QED BY <1>2, <1>4, <1>5

\* An invocation goes to position p, and its checkpoint was written or is the
\* one before.
LEMMA GoesStep ==
    ASSUME Inv, NEW i \in Invocation, NEW p \in Position, Active(i),
           at' = [at EXCEPT ![i] = p],
           NEW c \in Pc, pc' = [pc EXCEPT ![i] = c],
           c = "node" => p.node \in Node /\ p.iteration < MaxIterations,
           c = "condition" => p.node \in Node,
           UNCHANGED <<stream, alone>>,
           file' \in Position \cup {NoFile, Torn}, FileIsText',
           \/ p = Start
           \/ c = "condition" /\ p.iteration = 1
           \/ /\ file' \in Position
              /\ \/ c # "condition" /\ file' = Stored(p)
                 \/ /\ c = "condition" /\ file'.node = p.node
                    /\ file'.iteration = p.iteration - 1
    PROVE  Inv'
<1> USE DEF Inv
<1>1. TypeOK'
  BY DEF TypeOK, Pc
<1>2. /\ pc'[i] = c /\ at'[i] = p
      /\ \A j \in Invocation \ {i} : pc'[j] = pc[j] /\ at'[j] = at[j]
  BY DEF TypeOK
<1>3. PcFits'
  BY <1>2 DEF PcFits
<1>5. \A j \in Invocation : Active(j)' => Active(j)
  BY <1>2 DEF Active
<1>6. AloneIsAlone'
  BY <1>5 DEF AloneIsAlone
<1>7. OneNodeLost'
  <2> SUFFICES ASSUME NEW j \in Invocation, Active(j)', alone'[j]
               PROVE  \/ at'[j] = Start
                      \/ pc'[j] = "condition" /\ at'[j].iteration = 1
                      \/ /\ file' \notin {NoFile, Torn}
                         /\ \/ pc'[j] # "condition" /\ file' = Stored(at'[j])
                            \/ /\ pc'[j] = "condition" /\ file'.node = at'[j].node
                               /\ file'.iteration = at'[j].iteration - 1
    BY DEF OneNodeLost, Stored
  <2>1. j = i
    BY <1>5 DEF AloneIsAlone
  <2> QED BY <1>2, <2>1, FilesAreTold
<1> QED BY <1>1, <1>3, <1>6, <1>7

\* What follows once the next node is known keeps the invariant.
LEMMA SettleStep ==
    ASSUME Inv, NEW i \in Invocation, NEW p \in Position, p.node \in Node, Active(i),
           Settle(i, p)
    PROVE  Inv'
<1>1. CASE Stops(i, "raised") /\ UNCHANGED file
  BY <1>1, StopsStep
<1>2. CASE Stops(i, "raised") /\ file' = Torn
  BY <1>2, StopsStep
<1>3. CASE /\ Resolves(p.node, p.state) /\ file' = Saved(i, Settled(p))
           /\ at' = [at EXCEPT ![i] = Settled(p)]
           /\ pc' = [pc EXCEPT ![i] = IF stream[i] THEN "yield" ELSE LoopHead(Settled(p))]
           /\ UNCHANGED <<stream, alone>>
  <2> DEFINE q == Settled(p)
             c == IF stream[i] THEN "yield" ELSE LoopHead(q)
  <2>1. q \in Position
    BY <1>3, SettledIsPosition
  <2>2. file' = Stored(q) /\ file' \in Position /\ Stored(file') = file'
    BY <1>3, <2>1, StoredIsPosition DEF Saved
  <2>3. /\ c \in Pc /\ c # "condition"
        /\ c = "node" => q.node \in Node /\ q.iteration < MaxIterations
    BY <2>1, LoopHeadLeads DEF Pc
  <2>4. FileIsText'
    BY <2>2 DEF FileIsText, Stored
  <2>5. at' = [at EXCEPT ![i] = q] /\ pc' = [pc EXCEPT ![i] = c]
    BY <1>3
  <2> HIDE DEF q, c
  <2> QED BY <1>3, <2>1, <2>2, <2>3, <2>4, <2>5, GoesStep
<1> QED BY <1>1, <1>2, <1>3 DEF Settle

\* An invocation that begins, or resumes, stands where it begins, or where
\* the file is.
LEMMA EntersStep ==
    ASSUME Inv, NEW i \in Invocation, NEW p \in Position, ~Active(i), From(i, p),
           stream' \in [Invocation -> BOOLEAN], alone' = Joined(i), UNCHANGED file,
           p = Start \/ (file \notin {NoFile, Torn} /\ p = file)
    PROVE  Inv'
<1> USE DEF Inv
<1>1. /\ at' = [at EXCEPT ![i] = p] /\ pc' = [pc EXCEPT ![i] = LoopHead(p)]
      /\ LoopHead(p) \in {"node", "returned", "raised"}
      /\ LoopHead(p) = "node" => p.node \in Node /\ p.iteration < MaxIterations
  BY LoopHeadLeads DEF From
<1>2. alone' \in [Invocation -> BOOLEAN]
  <2>1. alone' = [j \in Invocation |-> IF j = i THEN \A k \in Invocation \ {i} : ~Active(k)
                                       ELSE alone[j] /\ ~Active(j)]
    BY DEF Joined
  <2>2. ASSUME NEW j \in Invocation
        PROVE  (IF j = i THEN \A k \in Invocation \ {i} : ~Active(k)
                ELSE alone[j] /\ ~Active(j)) \in BOOLEAN
    OBVIOUS
  <2> QED BY <2>1, <2>2
<1>3. TypeOK'
  BY <1>1, <1>2 DEF TypeOK
<1>4. /\ pc'[i] = LoopHead(p) /\ at'[i] = p
      /\ \A j \in Invocation \ {i} : /\ pc'[j] = pc[j] /\ at'[j] = at[j]
                                     /\ (Active(j)' <=> Active(j))
                                     /\ (alone'[j] <=> alone[j] /\ ~Active(j))
      /\ alone'[i] <=> \A k \in Invocation \ {i} : ~Active(k)
  BY <1>1 DEF TypeOK, Active, Joined
<1>5. PcFits'
  BY <1>1, <1>4 DEF PcFits
<1>6. FileIsText'
  BY DEF FileIsText, Stored
<1>7. AloneIsAlone'
  BY <1>4 DEF AloneIsAlone
<1>8. OneNodeLost'
  <2> SUFFICES ASSUME NEW j \in Invocation, Active(j)', alone'[j]
               PROVE  \/ at'[j] = Start
                      \/ /\ file' \notin {NoFile, Torn}
                         /\ pc'[j] # "condition" /\ file' = Stored(at'[j])
    BY DEF OneNodeLost, Stored
  <2>1. j = i
    BY <1>4
  <2>2. p = file => file = Stored(p) \/ p = Start \/ file \in {NoFile, Torn}
    BY DEF FileIsText
  <2> QED BY <1>1, <1>4, <2>1, <2>2
<1> QED BY <1>3, <1>5, <1>6, <1>7, <1>8

\* A node that returns, or a condition that has been evaluated.
LEMMA ReturnsStep ==
    ASSUME Inv, NEW i \in Invocation, NodeReturns(i) \/ ConditionReturns(i)
    PROVE  Inv'
<1> USE DEF Inv
<1>1. CASE ConditionReturns(i)
  BY <1>1, SettleStep DEF ConditionReturns, PcFits, TypeOK, Active
<1>2. CASE NodeReturns(i)
  <2>1. /\ pc[i] = "node" /\ Active(i) /\ at[i] \in Position
        /\ at[i].node \in Node /\ at[i].iteration < MaxIterations
    BY <1>2 DEF NodeReturns, PcFits, TypeOK, Active
  <2>2. PICK v \in Outputs[at[i].node] :
            IF Ran(at[i], v).node \in AsyncCondition
            THEN /\ at' = [at EXCEPT ![i] = Ran(at[i], v)]
                 /\ pc' = [pc EXCEPT ![i] = "condition"]
                 /\ UNCHANGED <<stream, file, alone>>
            ELSE Settle(i, Ran(at[i], v))
    BY <1>2 DEF NodeReturns
  <2> DEFINE p == Ran(at[i], v)
  <2>3. p \in Position /\ p.node = at[i].node /\ p.iteration = at[i].iteration + 1
    BY <2>1, <2>2, RanIsPosition
  <2>4. CASE p.node \in AsyncCondition
    <3>1. /\ at' = [at EXCEPT ![i] = p] /\ pc' = [pc EXCEPT ![i] = "condition"]
          /\ UNCHANGED <<stream, file, alone>>
      BY <2>2, <2>4
    <3>2. FileIsText' /\ file' \in Position \cup {NoFile, Torn}
      BY <3>1 DEF FileIsText, TypeOK, Stored
    <3>3. CASE alone[i]
      <4>1. at[i].iteration \in Nat
        BY <2>1 DEF Position
      <4>2. at[i] = Start \/ (file \notin {NoFile, Torn} /\ file = Stored(at[i]))
        BY <2>1, <3>3 DEF OneNodeLost
      <4>3. CASE at[i] = Start
        <5>1. p.iteration = 1
          BY <2>3, <4>3 DEF Start
        <5> HIDE DEF p
        <5> QED BY <2>1, <2>3, <3>1, <3>2, <5>1, GoesStep DEF Pc
      <4>4. CASE file \notin {NoFile, Torn} /\ file = Stored(at[i])
        <5>1. /\ file' \in Position /\ file'.node = p.node
              /\ file'.iteration = p.iteration - 1
          BY <2>1, <2>3, <3>1, <4>1, <4>4, StoredIsPosition DEF TypeOK
        <5> HIDE DEF p
        <5> QED BY <2>1, <2>3, <3>1, <3>2, <5>1, GoesStep DEF Pc
      <4> QED BY <4>2, <4>3, <4>4
    <3>4. CASE ~alone[i]
      <4> HIDE DEF p
      <4>1. TypeOK'
        BY <2>3, <3>1 DEF TypeOK
      <4>2. /\ pc'[i] = "condition" /\ at'[i] = p
            /\ \A j \in Invocation \ {i} : pc'[j] = pc[j] /\ at'[j] = at[j]
        BY <3>1 DEF TypeOK
      <4>3. PcFits'
        BY <2>1, <2>3, <4>2 DEF PcFits
      <4>4. AloneIsAlone'
        BY <2>1, <3>1, <4>2 DEF AloneIsAlone, Active
      <4>5. OneNodeLost'
        BY <3>1, <3>4, <4>2 DEF OneNodeLost, Active, Stored
      <4> QED BY <3>2, <4>1, <4>3, <4>4, <4>5
    <3> QED BY <3>3, <3>4
  <2>5. CASE p.node \notin AsyncCondition
    <3>1. Settle(i, p) /\ p.node \in Node
      BY <2>1, <2>2, <2>3, <2>5
    <3> HIDE DEF p
    <3> QED BY <2>1, <2>3, <3>1, SettleStep
  <2> QED BY <2>4, <2>5
<1> QED BY <1>1, <1>2

\* A consumer that reads on moves its stream to the head of the loop.
LEMMA ConsumedStep ==
    ASSUME Inv, NEW i \in Invocation, Consumed(i)
    PROVE  Inv'
<1> USE DEF Inv
<1>1. /\ pc[i] = "yield" /\ pc' = [pc EXCEPT ![i] = LoopHead(at[i])]
      /\ UNCHANGED <<stream, at, file, alone>>
  BY DEF Consumed
<1>2. /\ at[i] \in Position
      /\ LoopHead(at[i]) \in {"node", "returned", "raised"}
      /\ LoopHead(at[i]) = "node" => at[i].node \in Node /\ at[i].iteration < MaxIterations
  BY LoopHeadLeads DEF TypeOK
<1>3. /\ pc'[i] = LoopHead(at[i]) /\ Active(i)
      /\ \A j \in Invocation \ {i} : pc'[j] = pc[j]
  BY <1>1 DEF TypeOK, Active
<1>4. TypeOK' /\ PcFits'
  BY <1>1, <1>2, <1>3 DEF TypeOK, PcFits
<1>5. FileIsText' /\ AloneIsAlone'
  BY <1>1, <1>3 DEF FileIsText, AloneIsAlone, Active, Stored
<1>6. OneNodeLost'
  BY <1>1, <1>2, <1>3 DEF OneNodeLost, Active, Stored
<1> QED BY <1>4, <1>5, <1>6

\* A kill ends every invocation under way.
LEMMA CrashStep ==
    ASSUME Inv, Crash
    PROVE  Inv'
<1> USE DEF Inv
<1>1. \A i \in Invocation : ~Active(i)'
  BY DEF Crash, Active
<1>2. TypeOK'
  <2>1. stream' \in [Invocation -> BOOLEAN] /\ alone' \in [Invocation -> BOOLEAN]
    BY DEF Crash, TypeOK
  <2>2. pc' \in [Invocation -> Pc] /\ at' \in [Invocation -> Position]
    BY StartIsPosition DEF Crash, TypeOK, Pc
  <2>3. file' \in Position \cup {NoFile, Torn}
    BY DEF Crash, TypeOK
  <2> QED BY <2>1, <2>2, <2>3 DEF TypeOK, Pc
<1>3. PcFits' /\ AloneIsAlone' /\ OneNodeLost'
  BY <1>1 DEF PcFits, AloneIsAlone, OneNodeLost, Active
<1>4. FileIsText'
  BY DEF Crash, FileIsText, Stored
<1> QED BY <1>2, <1>3, <1>4

\* The invariant is inductive.
LEMMA InvAlways == Spec => []Inv
<1>1. Init => Inv
  BY InitInv
<1>2. Inv /\ [Next]_vars => Inv'
  <2> SUFFICES ASSUME Inv, [Next]_vars PROVE Inv'
    OBVIOUS
  <2>1. ASSUME NEW i \in Invocation, Begin(i) PROVE Inv'
    BY <2>1, StartIsPosition, EntersStep DEF Begin, Inv, TypeOK
  <2>2. ASSUME NEW i \in Invocation, Resume(i) PROVE Inv'
    <3>1. CASE file = Torn
      BY <2>2, <3>1, StopsStep DEF Resume
    <3>2. CASE file # Torn
      <4>1. /\ ~Active(i) /\ From(i, file) /\ alone' = Joined(i) /\ UNCHANGED file
            /\ stream' = [stream EXCEPT ![i] = FALSE] /\ file \notin {NoFile, Torn}
        BY <2>2, <3>2 DEF Resume, Loaded
      <4>2. file \in Position /\ stream' \in [Invocation -> BOOLEAN]
        BY <4>1 DEF Inv, TypeOK
      <4> QED BY <4>1, <4>2, EntersStep
    <3> QED BY <3>1, <3>2
  <2>3. ASSUME NEW i \in Invocation, Goes(i) PROVE Inv'
    <3>1. CASE NodeReturns(i) \/ ConditionReturns(i)
      BY <3>1, ReturnsStep
    <3>2. CASE Fails(i) \/ Abandoned(i)
      BY <3>2, StopsStep DEF Fails, Abandoned
    <3>3. CASE Consumed(i)
      BY <3>3, ConsumedStep
    <3> QED BY <2>3, <3>1, <3>2, <3>3 DEF Goes
  <2>4. CASE Crash
    BY <2>4, CrashStep
  <2>5. CASE UNCHANGED vars
    BY <2>5 DEF vars, Inv, TypeOK, PcFits, FileIsText, AloneIsAlone, OneNodeLost,
       Active, Stored
  <2> QED BY <2>1, <2>2, <2>3, <2>4, <2>5 DEF Next
<1> QED BY <1>1, <1>2, PTL DEF Spec

-----------------------------------------------------------------------------
(* What an undisturbed execution reaches                                   *)

\* Positions without a limit of iterations: Reach goes on for ever.
Place == [state : [Node -> Slot], node : Target, iteration : Nat]

Texts(s) == [n \in Node |-> IF s[n] = Unset THEN Unset ELSE Text[s[n]]]

\* The texts of a state are a state, and their own texts.
LEMMA TextsOfState ==
    ASSUME NEW s \in [Node -> Slot]
    PROVE  Texts(s) \in [Node -> Slot] /\ Texts(Texts(s)) = Texts(s)
<1>1. Texts(s) \in [Node -> Slot]
  BY GraphIsBuilt DEF GraphAssumption, Slot, Texts
<1>2. ASSUME NEW n \in Node
      PROVE  Texts(Texts(s))[n] = Texts(s)[n]
  <2>1. CASE s[n] = Unset
    BY <2>1 DEF Texts
  <2>2. CASE s[n] # Unset
    <3>1. s[n] \in Value
      BY <2>2 DEF Slot
    <3>2. Text[s[n]] # Unset /\ Text[Text[s[n]]] = Text[s[n]]
      BY <3>1, GraphIsBuilt DEF GraphAssumption
    <3> QED BY <2>2, <3>2 DEF Texts
  <2> QED BY <2>1, <2>2
<1>3. Texts(Texts(s)) = Texts(s)
  BY <1>2 DEF Texts
<1> QED BY <1>1, <1>3

\* States with the same texts branch alike: a condition compares texts.
LEMMA SameTextsBranchAlike ==
    ASSUME NEW s \in [Node -> Slot], NEW u \in [Node -> Slot], Texts(s) = Texts(u),
           NEW n \in Node
    PROVE  /\ Resolves(n, s) <=> Resolves(n, u)
           /\ Resolves(n, s) => NextNode(n, s) = NextNode(n, u)
<1>1. CASE n \notin DOMAIN Mapping
  BY <1>1 DEF Resolves, NextNode
<1>2. CASE n \in DOMAIN Mapping
  <2>1. PICK k \in Node : k = Key[n]
    BY <1>2, GraphIsBuilt DEF GraphAssumption
  <2>2. Texts(s)[k] = Texts(u)[k] /\ s[k] \in Slot /\ u[k] \in Slot
    OBVIOUS
  <2>3. \A v \in Value : Text[v] \in Value /\ Text[v] # Unset
    BY GraphIsBuilt DEF GraphAssumption
  <2>4. \/ s[k] = u[k]
        \/ s[k] \in Value /\ u[k] \in Value /\ Text[s[k]] = Text[u[k]]
    BY <2>2, <2>3 DEF Texts, Slot
  <2>5. \A v \in Value :
            /\ v \in DOMAIN Mapping[n] <=> Text[v] \in DOMAIN Mapping[n]
            /\ v \in DOMAIN Mapping[n] => Mapping[n][v] = Mapping[n][Text[v]]
    BY <1>2, GraphIsBuilt DEF GraphAssumption
  <2>6. /\ s[k] \in DOMAIN Mapping[n] <=> u[k] \in DOMAIN Mapping[n]
        /\ s[k] \in DOMAIN Mapping[n] => Mapping[n][s[k]] = Mapping[n][u[k]]
    BY <2>4, <2>5
  <2> QED BY <1>2, <2>1, <2>6 DEF Resolves, NextNode
<1> QED BY <1>1, <1>2

\* The fields of a position that is run, settled and stored.
LEMMA StepOfPlace ==
    ASSUME NEW p \in Place, p.node \in Node, NEW v \in Slot,
           NEW m \in [Node -> Slot], m = Merged(p.state, p.node, v)
    PROVE  /\ Ran(p, v) = [state |-> m, node |-> p.node, iteration |-> p.iteration + 1]
           /\ Resolves(p.node, m) =>
                  /\ NextNode(p.node, m) \in Target
                  /\ Stored(Settled(Ran(p, v))) =
                         [state |-> Texts(m), node |-> NextNode(p.node, m),
                          iteration |-> p.iteration + 1]
<1>1. PICK r : r = [state |-> m, node |-> p.node, iteration |-> p.iteration + 1]
  OBVIOUS
<1>2. Ran(p, v) = r
  <2>1. p = [state |-> p.state, node |-> p.node, iteration |-> p.iteration]
    BY DEF Place
  <2>2. Ran(p, v) = [p EXCEPT !.state = m, !.iteration = p.iteration + 1]
    BY DEF Ran
  <2> QED BY <1>1, <2>1, <2>2
<1>3. ASSUME Resolves(p.node, m)
      PROVE  /\ NextNode(p.node, m) \in Target
             /\ Stored(Settled(r)) = [state |-> Texts(m), node |-> NextNode(p.node, m),
                                      iteration |-> p.iteration + 1]
  <2>1. NextNode(p.node, m) \in Target
    <3>1. CASE p.node \in DOMAIN Mapping
      <4>1. m[Key[p.node]] \in DOMAIN Mapping[p.node]
        BY <1>3, <3>1 DEF Resolves
      <4> QED BY <3>1, <4>1 DEF NextNode, Target
    <3>2. CASE p.node \notin DOMAIN Mapping
      <4>1. Edge[p.node] \in Node \cup {END}
        BY <3>2, GraphIsBuilt DEF GraphAssumption
      <4> QED BY <3>2, <4>1 DEF NextNode, Target
    <3> QED BY <3>1, <3>2
  <2>2. PICK q : q = [state |-> m, node |-> NextNode(p.node, m),
                      iteration |-> p.iteration + 1]
    OBVIOUS
  <2>3. Settled(r) = q
    BY <1>1, <2>2 DEF Settled
  <2>4. Stored(q) = [state |-> Texts(m), node |-> NextNode(p.node, m),
                     iteration |-> p.iteration + 1]
    BY <2>2 DEF Stored, Texts
  <2> QED BY <2>1, <2>3, <2>4
<1> QED BY <1>1, <1>2, <1>3

\* A node leaves a state.
LEMMA MergedIsState ==
    ASSUME NEW p \in Place, p.node \in Node, NEW v \in Slot
    PROVE  Merged(p.state, p.node, v) \in [Node -> Slot]
<1>1. p.state \in [Node -> Slot]
  BY DEF Place
<1> QED BY <1>1 DEF Merged

\* What follows a place is a place.
LEMMA SuccessorsArePlaces ==
    ASSUME NEW p \in Place, p.node \in Node
    PROVE  Successors(p) \subseteq Place
<1> SUFFICES ASSUME NEW v \in Outputs[p.node], Resolves(p.node, Ran(p, v).state)
             PROVE  Stored(Settled(Ran(p, v))) \in Place
  BY DEF Successors
<1>1. v \in Slot
  BY GraphIsBuilt DEF GraphAssumption
<1>2. PICK m \in [Node -> Slot] : m = Merged(p.state, p.node, v)
  BY <1>1, MergedIsState
<1>3. Ran(p, v) = [state |-> m, node |-> p.node, iteration |-> p.iteration + 1]
  BY <1>1, <1>2, StepOfPlace
<1>4. Resolves(p.node, m)
  BY <1>3
<1>5. /\ NextNode(p.node, m) \in Target
      /\ Stored(Settled(Ran(p, v))) = [state |-> Texts(m), node |-> NextNode(p.node, m),
                                       iteration |-> p.iteration + 1]
  BY <1>1, <1>2, <1>4, StepOfPlace
<1>6. Texts(m) \in [Node -> Slot] /\ p.iteration + 1 \in Nat
  BY TextsOfState DEF Place
<1> QED BY <1>5, <1>6 DEF Place

\* Reach is what its definition says.
LEMMA ReachUnfolds ==
    /\ Reach[0] = {Start}
    /\ \A k \in Nat :
           Reach[k + 1] = UNION {Successors(p) : p \in {q \in Reach[k] : q.node \in Node}}
<1> DEFINE After(X) == UNION {Successors(p) : p \in {q \in X : q.node \in Node}}
           G == [X \in SUBSET Place |-> After(X)]
<1>1. {Start} \in SUBSET Place
  BY GraphIsBuilt DEF Start, Place, Target, Slot, GraphAssumption
<1>2. G \in [SUBSET Place -> SUBSET Place]
  <2>1. ASSUME NEW X \in SUBSET Place
        PROVE  After(X) \in SUBSET Place
    BY SuccessorsArePlaces
  <2> QED BY <2>1
<1>3. \A X \in SUBSET Place : G[X] = After(X)
  OBVIOUS
<1> HIDE DEF G
<1>4. PICK f \in [Nat -> SUBSET Place] : IteratesOn(f, {Start}, G)
  BY <1>1, <1>2, IterationExists
<1>5. f[0] = {Start} /\ \A k \in Nat : f[k + 1] = After(f[k])
  BY <1>3, <1>4 DEF IteratesOn
<1> HIDE DEF After
<1>6. ASSUME NEW k \in Nat
      PROVE  f[k] = IF k = 0 THEN {Start} ELSE After(f[k - 1])
  <2>1. CASE k = 0
    BY <1>5, <2>1
  <2>2. CASE k # 0
    <3>1. k - 1 \in Nat /\ (k - 1) + 1 = k
      BY <2>2
    <3>2. f[(k - 1) + 1] = After(f[k - 1])
      BY <1>5, <3>1
    <3> QED BY <2>2, <3>1, <3>2
  <2> QED BY <2>1, <2>2
<1>7. f = [k \in Nat |-> IF k = 0 THEN {Start} ELSE After(f[k - 1])]
  BY <1>6
<1>8. Reach = [k \in Nat |-> IF k = 0 THEN {Start} ELSE After(Reach[k - 1])]
  BY <1>7 DEF Reach, After
<1>9. Reach[0] = {Start}
  BY <1>8
<1>10. ASSUME NEW k \in Nat
       PROVE  Reach[k + 1] = After(Reach[k])
  <2>1. k + 1 \in Nat /\ k + 1 # 0 /\ (k + 1) - 1 = k
    OBVIOUS
  <2>2. Reach[k + 1] = After(Reach[(k + 1) - 1])
    BY <1>8, <2>1
  <2> QED BY <2>1, <2>2
<1> QED BY <1>9, <1>10 DEF After

\* One node more, from a position whose text is reached, and the text of the
\* next position is reached.
LEMMA NodeReaches ==
    ASSUME NEW q \in Position, q.node \in Node, Stored(q) \in Reach[q.iteration],
           NEW v \in Outputs[q.node], Resolves(q.node, Ran(q, v).state)
    PROVE  Stored(Settled(Ran(q, v))) \in Reach[q.iteration + 1]
<1>1. v \in Slot
  BY GraphIsBuilt DEF GraphAssumption
<1>2. q \in Place
  BY GraphIsBuilt DEF Position, Place, GraphAssumption
<1>3. q.state \in [Node -> Slot] /\ q.iteration \in Nat
  BY <1>2 DEF Place
<1>4. PICK s : s = Stored(q)
  OBVIOUS
<1>5. /\ s.state = Texts(q.state) /\ s.node = q.node /\ s.iteration = q.iteration
      /\ s \in Place
  <2>1. /\ s.state = Texts(q.state) /\ s.node = q.node /\ s.iteration = q.iteration
        /\ s = [q EXCEPT !.state = Texts(q.state)]
    BY <1>2, <1>4 DEF Stored, Texts, Place
  <2>2. Texts(q.state) \in [Node -> Slot]
    BY <1>3, TextsOfState
  <2> QED BY <1>2, <2>1, <2>2 DEF Place
<1>6. PICK m \in [Node -> Slot] : m = Merged(q.state, q.node, v)
  BY <1>1, <1>2, MergedIsState
<1>7. PICK l \in [Node -> Slot] : l = Merged(s.state, q.node, v)
  BY <1>1, <1>5, MergedIsState
<1>8. Texts(l) = Texts(m)
  <2>1. Texts(Texts(q.state)) = Texts(q.state) /\ Texts(q.state) \in [Node -> Slot]
    BY <1>3, TextsOfState
  <2>2. CASE v = Unset
    BY <1>5, <1>6, <1>7, <2>1, <2>2 DEF Merged, NoUpdate
  <2>3. CASE v # Unset
    <3>1. /\ m = [q.state EXCEPT ![q.node] = v]
          /\ l = [Texts(q.state) EXCEPT ![q.node] = v]
      BY <1>5, <1>6, <1>7, <2>3 DEF Merged, NoUpdate
    <3>2. ASSUME NEW n \in Node
          PROVE  Texts(l)[n] = Texts(m)[n]
      <4>1. CASE n = q.node
        BY <1>3, <2>1, <3>1, <4>1 DEF Texts
      <4>2. CASE n # q.node
        <5>1. m[n] = q.state[n] /\ l[n] = Texts(q.state)[n]
          BY <1>3, <2>1, <3>1, <4>2
        <5>2. Texts(m)[n] = Texts(q.state)[n]
          BY <5>1 DEF Texts
        <5>3. Texts(l)[n] = Texts(Texts(q.state))[n]
          BY <5>1 DEF Texts
        <5> QED BY <2>1, <5>2, <5>3
      <4> QED BY <4>1, <4>2
    <3> QED BY <3>2 DEF Texts
  <2> QED BY <2>2, <2>3
<1>9. /\ Ran(q, v).state = m /\ Ran(s, v).state = l
  <2>1. Ran(q, v) = [state |-> m, node |-> q.node, iteration |-> q.iteration + 1]
    BY <1>1, <1>2, <1>6, StepOfPlace
  <2>2. Ran(s, v) = [state |-> l, node |-> s.node, iteration |-> s.iteration + 1]
    BY <1>1, <1>5, <1>7, StepOfPlace
  <2> QED BY <2>1, <2>2
<1>10. /\ Resolves(q.node, m) /\ Resolves(q.node, l)
       /\ NextNode(q.node, l) = NextNode(q.node, m)
  BY <1>8, <1>9, SameTextsBranchAlike
<1>11. Stored(Settled(Ran(s, v))) = Stored(Settled(Ran(q, v)))
  <2>1. Stored(Settled(Ran(q, v))) = [state |-> Texts(m), node |-> NextNode(q.node, m),
                                      iteration |-> q.iteration + 1]
    BY <1>1, <1>2, <1>6, <1>10, StepOfPlace
  <2>2. Stored(Settled(Ran(s, v))) = [state |-> Texts(l), node |-> NextNode(s.node, l),
                                      iteration |-> s.iteration + 1]
    BY <1>1, <1>5, <1>7, <1>10, StepOfPlace
  <2> QED BY <1>5, <1>8, <1>10, <2>1, <2>2
<1>12. Stored(Settled(Ran(s, v))) \in Successors(s)
  BY <1>5, <1>9, <1>10 DEF Successors
<1>13. s \in Reach[q.iteration] /\ s.node \in Node
  BY <1>4, <1>5
<1> QED BY <1>3, <1>11, <1>12, <1>13, ReachUnfolds

-----------------------------------------------------------------------------
(* Every position is one that an undisturbed execution reaches             *)

\* A condition is asked after a node that ran at a reachable position.
ConditionReachable ==
    \A i \in Invocation : pc[i] = "condition" =>
        \E q \in Position : \E v \in Outputs[q.node] :
            /\ q.node \in Node /\ at[i] = Ran(q, v)
            /\ Stored(q) \in Reach[q.iteration]

ReachInv == PositionsReachable /\ ConditionReachable

\* The first position is reached.
LEMMA StartReached == Stored(Start) = Start /\ Start \in Reach[Start.iteration]
<1>1. Stored(Start) = Start
  BY DEF Stored, Start
<1>2. Start.iteration = 0
  BY DEF Start
<1> QED BY <1>1, <1>2, ReachUnfolds

\* An invocation moves to a position that is reached, the others stay.
LEMMA ReachMoves ==
    ASSUME ReachInv, TypeOK, NEW i \in Invocation, NEW p \in Position, NEW c \in Pc,
           at' = [at EXCEPT ![i] = p], pc' = [pc EXCEPT ![i] = c],
           c # "condition",
           c \in {"node", "yield", "returned"} => Stored(p) \in Reach[p.iteration],
           file' \notin {NoFile, Torn} => file' \in Reach[file'.iteration]
    PROVE  ReachInv'
<1>1. /\ pc'[i] = c /\ at'[i] = p
      /\ \A j \in Invocation \ {i} : pc'[j] = pc[j] /\ at'[j] = at[j]
  BY DEF TypeOK
<1>2. ConditionReachable'
  <2>1. ASSUME NEW j \in Invocation, pc'[j] = "condition"
        PROVE  \E q \in Position : \E v \in Outputs[q.node] :
                   /\ q.node \in Node /\ at'[j] = Ran(q, v)
                   /\ Stored(q) \in Reach[q.iteration]
    BY <1>1, <2>1 DEF ReachInv, ConditionReachable
  <2> QED BY <2>1 DEF ConditionReachable, Ran, Merged, Stored
<1>3. ASSUME NEW j \in Invocation, pc'[j] \in {"node", "yield", "returned"}
      PROVE  Stored(at'[j]) \in Reach[at'[j].iteration]
  BY <1>1, <1>3 DEF ReachInv, PositionsReachable
<1>4. PositionsReachable'
  BY <1>3 DEF PositionsReachable, Stored
<1> QED BY <1>2, <1>4 DEF ReachInv

\* An invocation that stops is at the first position.
LEMMA ReachStops ==
    ASSUME ReachInv, TypeOK, NEW i \in Invocation, NEW how \in {"raised", "killed"},
           Stops(i, how), file' \in {file, Torn}
    PROVE  ReachInv'
<1>1. at' = [at EXCEPT ![i] = Start] /\ pc' = [pc EXCEPT ![i] = how]
  BY DEF Stops
<1>2. file' \notin {NoFile, Torn} => file' \in Reach[file'.iteration]
  BY DEF ReachInv, PositionsReachable
<1> QED BY <1>1, <1>2, ReachMoves, StartIsPosition DEF Pc

\* The next node is known, after one that ran at a reachable position.
LEMMA ReachSettles ==
    ASSUME Inv, ReachInv, NEW i \in Invocation, NEW p \in Position, p.node \in Node,
           NEW q \in Position, NEW v \in Outputs[q.node], q.node \in Node,
           p = Ran(q, v), Stored(q) \in Reach[q.iteration], Settle(i, p)
    PROVE  ReachInv'
<1>0. TypeOK
  BY DEF Inv
<1>1. CASE Stops(i, "raised") /\ file' \in {file, Torn}
  BY <1>0, <1>1, ReachStops
<1>2. CASE /\ Resolves(p.node, p.state) /\ file' = Saved(i, Settled(p))
           /\ at' = [at EXCEPT ![i] = Settled(p)]
           /\ pc' = [pc EXCEPT ![i] = IF stream[i] THEN "yield" ELSE LoopHead(Settled(p))]
  <2>1. PICK s \in Position : s = Settled(p)
    BY <1>2, SettledIsPosition
  <2>2. PICK c : c = IF stream[i] THEN "yield" ELSE LoopHead(s)
    OBVIOUS
  <2>3. c \in Pc /\ c # "condition"
    BY <2>1, <2>2, LoopHeadLeads DEF Pc
  <2>4. p.node = q.node /\ p.iteration = q.iteration + 1
    BY DEF Ran, Position
  <2>5. s.iteration = q.iteration + 1
    BY <2>1, <2>4 DEF Settled, Position
  <2>6. Stored(s) \in Reach[s.iteration]
    BY <1>2, <2>1, <2>4, <2>5, NodeReaches
  <2>7. file' = Stored(s) /\ Stored(s).iteration = s.iteration
    BY <1>2, <2>1, StoredIsPosition DEF Saved
  <2> QED BY <1>0, <1>2, <2>1, <2>2, <2>3, <2>6, <2>7, ReachMoves
<1> QED BY <1>1, <1>2 DEF Settle

\* A node or a condition returns.
LEMMA ReachReturns ==
    ASSUME Inv, ReachInv, NEW i \in Invocation, NodeReturns(i) \/ ConditionReturns(i)
    PROVE  ReachInv'
<1>0. TypeOK /\ PcFits
  BY DEF Inv
<1>1. CASE ConditionReturns(i)
  <2>1. pc[i] = "condition" /\ Settle(i, at[i]) /\ at[i] \in Position /\ at[i].node \in Node
    BY <1>0, <1>1 DEF ConditionReturns, PcFits, TypeOK
  <2>2. PICK q \in Position : \E v \in Outputs[q.node] :
            q.node \in Node /\ at[i] = Ran(q, v) /\ Stored(q) \in Reach[q.iteration]
    BY <2>1 DEF ReachInv, ConditionReachable
  <2>3. PICK v \in Outputs[q.node] :
            q.node \in Node /\ at[i] = Ran(q, v) /\ Stored(q) \in Reach[q.iteration]
    BY <2>2
  <2> QED BY <2>1, <2>3, ReachSettles
<1>2. CASE NodeReturns(i)
  <2>1. PICK q \in Position : q = at[i]
    BY <1>0 DEF TypeOK
  <2>2. /\ pc[i] = "node" /\ q.node \in Node /\ q.iteration < MaxIterations
        /\ Stored(q) \in Reach[q.iteration]
    BY <1>0, <1>2, <2>1 DEF NodeReturns, PcFits, ReachInv, PositionsReachable
  <2>3. PICK v \in Outputs[q.node] :
            IF Ran(q, v).node \in AsyncCondition
            THEN /\ at' = [at EXCEPT ![i] = Ran(q, v)]
                 /\ pc' = [pc EXCEPT ![i] = "condition"]
                 /\ UNCHANGED <<stream, file, alone>>
            ELSE Settle(i, Ran(q, v))
    BY <1>2, <2>1 DEF NodeReturns
  <2>4. PICK p \in Position : p = Ran(q, v) /\ p.node = q.node
    BY <2>2, <2>3, RanIsPosition
  <2>5. CASE p.node \in AsyncCondition
    <3>1. /\ at' = [at EXCEPT ![i] = p] /\ pc' = [pc EXCEPT ![i] = "condition"]
          /\ UNCHANGED file
      BY <2>3, <2>4, <2>5
    <3>2. /\ pc'[i] = "condition" /\ at'[i] = p
          /\ \A j \in Invocation \ {i} : pc'[j] = pc[j] /\ at'[j] = at[j]
      BY <1>0, <3>1 DEF TypeOK
    <3>3. ASSUME NEW j \in Invocation, pc'[j] = "condition"
          PROVE  \E r \in Position : \E w \in Outputs[r.node] :
                     /\ r.node \in Node /\ at'[j] = Ran(r, w)
                     /\ Stored(r) \in Reach[r.iteration]
      <4>1. CASE j = i
        BY <2>2, <2>3, <2>4, <3>2, <4>1
      <4>2. CASE j # i
        BY <3>2, <3>3, <4>2 DEF ReachInv, ConditionReachable
      <4> QED BY <4>1, <4>2
    <3>4. ConditionReachable'
      BY <3>3 DEF ConditionReachable, Ran, Merged, Stored
    <3>5. ASSUME NEW j \in Invocation, pc'[j] \in {"node", "yield", "returned"}
          PROVE  Stored(at'[j]) \in Reach[at'[j].iteration]
      BY <3>2, <3>5 DEF ReachInv, PositionsReachable
    <3>6. PositionsReachable'
      BY <3>1, <3>5 DEF PositionsReachable, Stored, ReachInv
    <3> QED BY <3>4, <3>6 DEF ReachInv
  <2>6. CASE p.node \notin AsyncCondition
    <3>1. Settle(i, p)
      BY <2>3, <2>4, <2>6
    <3> QED BY <2>2, <2>3, <2>4, <3>1, ReachSettles
  <2> QED BY <2>5, <2>6
<1> QED BY <1>1, <1>2

\* A begun, resumed or continued invocation is where it was, at the start or
\* where the file is.
LEMMA ReachEnters ==
    ASSUME Inv, ReachInv, NEW i \in Invocation, NEW p \in Position, From(i, p),
           Stored(p) \in Reach[p.iteration], UNCHANGED file
    PROVE  ReachInv'
<1>1. at' = [at EXCEPT ![i] = p] /\ pc' = [pc EXCEPT ![i] = LoopHead(p)]
  BY DEF From
<1>2. LoopHead(p) \in Pc /\ LoopHead(p) # "condition"
  BY LoopHeadLeads DEF Pc
<1>3. file' \notin {NoFile, Torn} => file' \in Reach[file'.iteration]
  BY DEF ReachInv, PositionsReachable
<1> QED BY <1>1, <1>2, <1>3, ReachMoves DEF Inv

\* Whatever a step does, the positions stay reachable.
LEMMA ReachStep ==
    ASSUME Inv, ReachInv, [Next]_vars
    PROVE  ReachInv'
<1>0. TypeOK
  BY DEF Inv
<1>1. ASSUME NEW i \in Invocation, Begin(i) PROVE ReachInv'
  BY <1>1, StartReached, StartIsPosition, ReachEnters DEF Begin
<1>2. ASSUME NEW i \in Invocation, Resume(i) PROVE ReachInv'
  <2>1. CASE file = Torn
    <3>1. Stops(i, "raised") /\ file' = file
      BY <1>2, <2>1 DEF Resume
    <3> QED BY <1>0, <3>1, ReachStops
  <2>2. CASE file # Torn
    <3>1. From(i, file) /\ UNCHANGED file /\ file \notin {NoFile, Torn}
      BY <1>2, <2>2 DEF Resume, Loaded
    <3>2. file \in Position /\ Stored(file) = file /\ file \in Reach[file.iteration]
      BY <1>0, <3>1 DEF Inv, TypeOK, FileIsText, ReachInv, PositionsReachable
    <3> QED BY <3>1, <3>2, ReachEnters
  <2> QED BY <2>1, <2>2
<1>3. ASSUME NEW i \in Invocation, Goes(i) PROVE ReachInv'
  <2>1. CASE NodeReturns(i) \/ ConditionReturns(i)
    BY <2>1, ReachReturns
  <2>2. CASE Fails(i) \/ Abandoned(i)
    <3>1. UNCHANGED file /\ (Stops(i, "raised") \/ Stops(i, "killed"))
      BY <2>2 DEF Fails, Abandoned
    <3> QED BY <1>0, <3>1, ReachStops
  <2>3. CASE Consumed(i)
    <3>1. /\ pc[i] = "yield" /\ pc' = [pc EXCEPT ![i] = LoopHead(at[i])]
          /\ UNCHANGED <<at, file>> /\ at[i] \in Position /\ at = [at EXCEPT ![i] = at[i]]
      BY <1>0, <2>3 DEF Consumed, TypeOK
    <3>2. From(i, at[i]) /\ Stored(at[i]) \in Reach[at[i].iteration]
      BY <3>1 DEF From, ReachInv, PositionsReachable
    <3> QED BY <3>1, <3>2, ReachEnters
  <2> QED BY <1>3, <2>1, <2>2, <2>3 DEF Goes
<1>4. CASE Crash
  <2>1. \A i \in Invocation : /\ pc'[i] \notin {"node", "condition", "yield"}
                              /\ pc'[i] = "returned" => pc[i] = "returned" /\ at'[i] = at[i]
    BY <1>4 DEF Crash, Active
  <2>2. file' \in {file, Torn}
    BY <1>4 DEF Crash
  <2>3. ConditionReachable'
    BY <2>1 DEF ConditionReachable
  <2>4. ASSUME NEW j \in Invocation, pc'[j] \in {"node", "yield", "returned"}
        PROVE  Stored(at'[j]) \in Reach[at'[j].iteration]
    BY <2>1, <2>4 DEF ReachInv, PositionsReachable
  <2>5. PositionsReachable'
    BY <2>2, <2>4 DEF PositionsReachable, ReachInv, Stored
  <2> QED BY <2>3, <2>5 DEF ReachInv
<1>5. CASE UNCHANGED vars
  <2>1. UNCHANGED <<pc, at, file>>
    BY <1>5 DEF vars
  <2>2. ConditionReachable' /\ PositionsReachable'
    BY <2>1 DEF ReachInv, ConditionReachable, PositionsReachable, Stored, Ran, Merged
  <2> QED BY <2>2 DEF ReachInv
<1> QED BY <1>1, <1>2, <1>3, <1>4, <1>5 DEF Next

-----------------------------------------------------------------------------
(* The theorems                                                            *)

\* For any graph and limit, the variables keep their types; an invocation
\* never passes max_iterations, resumed or not.
THEOREM TypeCorrect == Spec => []TypeOK
<1>1. Inv => TypeOK
  BY DEF Inv
<1> QED BY <1>1, InvAlways, PTL

\* Whatever kills, torn writes and resumptions there are, a run whose id is
\* used by one invocation at a time loses at most the node it was running.
THEOREM KillCostsOneNode == Spec => []OneNodeLost
<1>1. Inv => OneNodeLost
  BY DEF Inv
<1> QED BY <1>1, InvAlways, PTL
\* However often runs are killed, resumed or started twice at a time, on a
\* file that a write may have left torn, what a checkpoint holds and what an
\* invocation goes on from, or returns, is a position that one undisturbed
\* execution reaches after as many nodes: for any graph whose conditions
\* compare texts.
THEOREM ResumptionsStayOnPaths == Spec => []PositionsReachable
<1>1. Init => ReachInv
  BY DEF Init, ReachInv, PositionsReachable, ConditionReachable
<1>2. Inv /\ ReachInv /\ [Next]_vars => ReachInv'
  BY ReachStep
<1>3. ReachInv => PositionsReachable
  BY DEF ReachInv
<1> QED BY <1>1, <1>2, <1>3, InvAlways, PTL DEF Spec
=============================================================================
