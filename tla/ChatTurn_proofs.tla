--------------------------- MODULE ChatTurn_proofs ---------------------------
(***************************************************************************)
(* Theorems about ChatTurn, for any number of requests, turns, deltas and  *)
(* task deaths.                                                            *)
(***************************************************************************)
EXTENDS ChatTurn, FiniteSetTheorems, TLAPS

\* Each step, by name: the case split of every proof below.
LEMMA StepCases ==
  ASSUME Next
  PROVE  \E p \in Posts :
           \/ Lookup(p) \/ FindReply(p) \/ Replay(p) \/ Admit(p) \/ PersistUser(p)
           \/ EmitMeta(p) \/ EmitRefusal(p) \/ Subscribe(p) \/ EmitToken(p)
           \/ TakeUsage(p) \/ StopCancelled(p) \/ Exhausted(p) \/ GenerationFails(p)
           \/ EmitError(p) \/ SaveReply(p) \/ EmitCitation(p) \/ RecordUsage(p)
           \/ EmitUsage(p) \/ EmitDone(p) \/ Raise(p) \/ Cancel(p)
           \/ Follow(p) \/ Frame(p) \/ Disconnect(p) \/ Resume(p) \/ ResumeFollow(p)
           \/ Expire(p)
  BY DEF Next, TaskNext, ServerReads

-----------------------------------------------------------------------------
(* Types.                                                                  *)

TypeInv == TypeOK /\ ReplayInv

\* What _replay_events returns, event by event.
LEMMA ReplayFacts ==
  ASSUME NEW p \in Posts
  PROVE  /\ Len(ReplayEvents(p)) \in {4, 5}
         /\ \A k \in 1 .. Len(ReplayEvents(p)) : ReplayEvents(p)[k] \in EventTypes
<1>1. CASE grounded[p]
  <2>1. ReplayEvents(p) = <<"meta", "token", "citation", "usage", "complete">>
    BY <1>1 DEF ReplayEvents
  <2> QED BY <2>1 DEF EventTypes, Statuses
<1>2. CASE ~grounded[p]
  <2>1. ReplayEvents(p) = <<"meta", "token", "usage", "complete">>
    BY <1>2 DEF ReplayEvents
  <2> QED BY <2>1 DEF EventTypes, Statuses
<1> QED BY <1>1, <1>2

\* The log only grows, at its end.
LEMMA AppendFacts ==
  ASSUME log \in Seq(Rows), NEW row \in Rows
  PROVE  /\ Append(log, row) \in Seq(Rows)
         /\ Len(Append(log, row)) = Len(log) + 1
         /\ Len(log) \in Nat
         /\ DOMAIN Append(log, row) = DOMAIN log \cup {Len(log) + 1}
         /\ Len(log) + 1 \notin DOMAIN log
         /\ \A k \in DOMAIN log : Append(log, row)[k] = log[k]
         /\ Append(log, row)[Len(log) + 1] = row
  OBVIOUS

\* An event with a seq is an event of the buffer.
LEMMA EmitTypes ==
  ASSUME StoreTypeOK, TaskTypeOK, NEW p \in Posts, NEW event \in EventTypes,
         Emit(p, event)
  PROVE  /\ buffer' \in [Posts -> SUBSET Events]
         /\ seq' \in [Posts -> Nat]
  BY DEF StoreTypeOK, TaskTypeOK, Emit, Events

\* The type invariant holds initially and every step keeps it.
LEMMA TypeInductive ==
  /\ Init => TypeInv
  /\ TypeInv /\ [Next]_vars => TypeInv'
<1>1. Init => TypeInv
  BY ChatAssumption
     DEF Init, TypeInv, TypeOK, StoreTypeOK, TaskTypeOK, ReadTypeOK, ReplayInv, Statuses, Steps
<1>2. ASSUME TypeInv, [Next]_vars PROVE TypeInv'
  <2> USE ChatAssumption, <1>2
      DEF TypeInv, TypeOK, storeVars, genVars, taskVars, readVars, Goto, Move, EmitThen
  <2>1. ASSUME NEW p \in Posts, Lookup(p) PROVE TypeInv'
    <3>1. StoreTypeOK' /\ ReadTypeOK' BY <2>1 DEF Lookup, StoreTypeOK, ReadTypeOK
    <3>2. TaskTypeOK'
      <4>1. CASE UserSeqs(Turn[p]) = {}
        <5>1. found' = found /\ pc' = [pc EXCEPT ![p] = "admit"] BY <2>1, <4>1 DEF Lookup
        <5> QED BY <2>1, <5>1 DEF Lookup, TaskTypeOK, Steps
      <4>2. CASE UserSeqs(Turn[p]) # {}
        <5>1. PICK k \in UserSeqs(Turn[p]) :
                /\ found' = [found EXCEPT ![p] = k]
                /\ pc' = [pc EXCEPT ![p] = "reply"]
          BY <2>1, <4>2 DEF Lookup
        <5>2. k \in Nat /\ k >= 1 /\ k <= Len(log) BY DEF UserSeqs, StoreTypeOK
        <5> QED BY <2>1, <5>1, <5>2 DEF Lookup, TaskTypeOK, Steps
      <4> QED BY <4>1, <4>2
    <3>3. ReplayInv' BY <2>1 DEF Lookup, ReplayInv, ReplayEvents, TaskTypeOK
    <3> QED BY <3>1, <3>2, <3>3
  <2>2. ASSUME NEW p \in Posts, FindReply(p) PROVE TypeInv'
    <3>1. StoreTypeOK' /\ ReadTypeOK' BY <2>2 DEF FindReply, StoreTypeOK, ReadTypeOK
    <3>2. TaskTypeOK'
      <4>1. CASE found[p] + 1 \in DOMAIN log
        <5>1. found[p] + 1 \in Nat /\ found[p] + 1 >= 1 /\ found[p] + 1 <= Len(log)
          BY <4>1 DEF StoreTypeOK, TaskTypeOK
        <5>2. log[found[p] + 1].grounded \in BOOLEAN
          <6>1. log[found[p] + 1] \in Rows BY <4>1 DEF StoreTypeOK
          <6> QED BY <6>1 DEF Rows
        <5>3. /\ found' = [found EXCEPT ![p] = found[p] + 1]
              /\ grounded' = [grounded EXCEPT ![p] = log[found[p] + 1].grounded]
              /\ pc' = [pc EXCEPT ![p] = "replay"]
          BY <2>2, <4>1 DEF FindReply
        <5> QED BY <2>2, <5>1, <5>2, <5>3 DEF FindReply, TaskTypeOK, Steps
      <4>2. CASE found[p] + 1 \notin DOMAIN log
        BY <2>2, <4>2 DEF FindReply, TaskTypeOK, Steps
      <4> QED BY <4>1, <4>2
    <3>3. ReplayInv'
      <4>1. Len(ReplayEvents(p)') \in {4, 5}
        BY <3>2 DEF ReplayEvents, TaskTypeOK
      <4> QED BY <2>2, <4>1 DEF FindReply, ReplayInv, ReplayEvents, TaskTypeOK
    <3> QED BY <3>1, <3>2, <3>3
  <2>3. ASSUME NEW p \in Posts, Replay(p) PROVE TypeInv'
    <3>1. seq[p] + 1 \in 1 .. Len(ReplayEvents(p)) /\ Len(ReplayEvents(p)) \in {4, 5}
      BY <2>3, ReplayFacts DEF Replay, ReplayInv, TaskTypeOK
    <3>2. ReplayEvents(p)[seq[p] + 1] \in EventTypes BY <3>1, ReplayFacts
    <3>3. buffer' \in [Posts -> SUBSET Events] /\ seq' \in [Posts -> Nat]
      BY <2>3, <3>2, EmitTypes DEF Replay
    <3>4. StoreTypeOK' BY <2>3, <3>3 DEF Replay, StoreTypeOK
    <3>5. TaskTypeOK' BY <2>3, <3>3 DEF Replay, TaskTypeOK, Steps
    <3>6. ReadTypeOK' BY <2>3 DEF Replay, ReadTypeOK
    <3>7. ReplayInv' BY <2>3, <3>1 DEF Replay, ReplayInv, ReplayEvents, TaskTypeOK, Emit
    <3> QED BY <3>4, <3>5, <3>6, <3>7
  <2>4. ASSUME NEW p \in Posts, Admit(p) PROVE TypeInv'
    <3>1. StoreTypeOK' BY <2>4 DEF Admit, StoreTypeOK, TaskTypeOK
    <3>2. TaskTypeOK' BY <2>4 DEF Admit, TaskTypeOK, Steps, Statuses
    <3>3. ReadTypeOK' BY <2>4 DEF Admit, ReadTypeOK
    <3>4. ReplayInv' BY <2>4 DEF Admit, ReplayInv, ReplayEvents, TaskTypeOK
    <3> QED BY <3>1, <3>2, <3>3, <3>4
  <2>5. ASSUME NEW p \in Posts, PersistUser(p) PROVE TypeInv'
    <3>1. Row(p, "user", 0, "complete", FALSE) \in Rows
      BY DEF Row, Rows, Statuses
    <3>2. log' = log \/ \E row \in Rows : log' = Append(log, row)
      BY <2>5, <3>1 DEF PersistUser
    <3>3. log' \in Seq(Rows) /\ Len(log') >= Len(log)
      BY <3>2, AppendFacts DEF StoreTypeOK
    <3>4. StoreTypeOK' BY <2>5, <3>3 DEF PersistUser, StoreTypeOK
    <3>5. TaskTypeOK'
      <4>1. pc' \in [Posts -> Steps] /\ pc'[p] \in {"meta", "raised"}
            /\ \A q \in Posts \ {p} : pc'[q] = pc[q]
        BY <2>5 DEF PersistUser, TaskTypeOK, Steps
      <4> QED BY <2>5, <3>3, <4>1 DEF PersistUser, StoreTypeOK, TaskTypeOK
    <3>6. ReadTypeOK' BY <2>5 DEF PersistUser, ReadTypeOK
    <3>7. ReplayInv' BY <2>5 DEF PersistUser, ReplayInv, ReplayEvents, TaskTypeOK
    <3> QED BY <3>4, <3>5, <3>6, <3>7
  <2>6. ASSUME NEW p \in Posts, EmitMeta(p) PROVE TypeInv'
    <3>1. buffer' \in [Posts -> SUBSET Events] /\ seq' \in [Posts -> Nat]
      BY <2>6, EmitTypes DEF EmitMeta, EventTypes, Statuses, TaskTypeOK
    <3>2. StoreTypeOK' BY <2>6, <3>1 DEF EmitMeta, StoreTypeOK
    <3>3. TaskTypeOK' BY <2>6, <3>1 DEF EmitMeta, TaskTypeOK, Steps, Statuses
    <3>4. ReadTypeOK' BY <2>6 DEF EmitMeta, ReadTypeOK
    <3>5. ReplayInv' BY <2>6 DEF EmitMeta, ReplayInv, ReplayEvents, TaskTypeOK, Emit
    <3> QED BY <3>2, <3>3, <3>4, <3>5
  <2>7. ASSUME NEW p \in Posts, EmitRefusal(p) PROVE TypeInv'
    <3>1. buffer' \in [Posts -> SUBSET Events] /\ seq' \in [Posts -> Nat]
      BY <2>7, EmitTypes DEF EmitRefusal, EventTypes, Statuses, TaskTypeOK
    <3>2. StoreTypeOK' BY <2>7, <3>1 DEF EmitRefusal, StoreTypeOK
    <3>3. TaskTypeOK' BY <2>7, <3>1 DEF EmitRefusal, TaskTypeOK, Steps, Statuses
    <3>4. ReadTypeOK' BY <2>7 DEF EmitRefusal, ReadTypeOK
    <3>5. ReplayInv' BY <2>7 DEF EmitRefusal, ReplayInv, ReplayEvents, TaskTypeOK, Emit
    <3> QED BY <3>2, <3>3, <3>4, <3>5
  <2>8. ASSUME NEW p \in Posts, Subscribe(p) PROVE TypeInv'
    <3>1. StoreTypeOK' BY <2>8 DEF Subscribe, StoreTypeOK, TaskTypeOK
    <3>2. TaskTypeOK' BY <2>8 DEF Subscribe, TaskTypeOK, Steps, Statuses
    <3>3. ReadTypeOK' BY <2>8 DEF Subscribe, ReadTypeOK
    <3>4. ReplayInv' BY <2>8 DEF Subscribe, ReplayInv, ReplayEvents, TaskTypeOK
    <3> QED BY <3>1, <3>2, <3>3, <3>4
  <2>9. ASSUME NEW p \in Posts, EmitToken(p) PROVE TypeInv'
    <3>1. buffer' \in [Posts -> SUBSET Events] /\ seq' \in [Posts -> Nat]
      BY <2>9, EmitTypes DEF EmitToken, EventTypes, Statuses, TaskTypeOK
    <3>2. StoreTypeOK' BY <2>9, <3>1 DEF EmitToken, StoreTypeOK
    <3>3. TaskTypeOK'
      <4>1. text' \in [Posts -> Nat] BY <2>9 DEF EmitToken, TaskTypeOK
      <4> QED BY <2>9, <3>1, <4>1 DEF EmitToken, TaskTypeOK
    <3>4. ReadTypeOK' BY <2>9 DEF EmitToken, ReadTypeOK
    <3>5. ReplayInv' BY <2>9 DEF EmitToken, ReplayInv, ReplayEvents, TaskTypeOK, Emit
    <3> QED BY <3>2, <3>3, <3>4, <3>5
  <2>10. ASSUME NEW p \in Posts, TakeUsage(p) PROVE TypeInv'
    <3>1. StoreTypeOK' BY <2>10 DEF TakeUsage, StoreTypeOK, TaskTypeOK
    <3>2. TaskTypeOK' BY <2>10 DEF TakeUsage, TaskTypeOK, Steps, Statuses
    <3>3. ReadTypeOK' BY <2>10 DEF TakeUsage, ReadTypeOK
    <3>4. ReplayInv' BY <2>10 DEF TakeUsage, ReplayInv, ReplayEvents, TaskTypeOK
    <3> QED BY <3>1, <3>2, <3>3, <3>4
  <2>11. ASSUME NEW p \in Posts, StopCancelled(p) PROVE TypeInv'
    <3>1. StoreTypeOK' BY <2>11 DEF StopCancelled, StoreTypeOK, TaskTypeOK, AfterGeneration
    <3>2. TaskTypeOK' BY <2>11 DEF StopCancelled, TaskTypeOK, Steps, Statuses, AfterGeneration
    <3>3. ReadTypeOK' BY <2>11 DEF StopCancelled, ReadTypeOK, AfterGeneration
    <3>4. ReplayInv' BY <2>11 DEF StopCancelled, ReplayInv, ReplayEvents, TaskTypeOK, AfterGeneration
    <3> QED BY <3>1, <3>2, <3>3, <3>4
  <2>12. ASSUME NEW p \in Posts, Exhausted(p) PROVE TypeInv'
    <3>1. StoreTypeOK' BY <2>12 DEF Exhausted, StoreTypeOK, TaskTypeOK
    <3>2. TaskTypeOK' BY <2>12 DEF Exhausted, TaskTypeOK, Steps, Statuses
    <3>3. ReadTypeOK' BY <2>12 DEF Exhausted, ReadTypeOK
    <3>4. ReplayInv' BY <2>12 DEF Exhausted, ReplayInv, ReplayEvents, TaskTypeOK
    <3> QED BY <3>1, <3>2, <3>3, <3>4
  <2>13. ASSUME NEW p \in Posts, GenerationFails(p) PROVE TypeInv'
    <3>1. StoreTypeOK'
      <4>1. <<seq[p], "token">> \in Events BY DEF TaskTypeOK, Events, EventTypes
      <4>2. \/ buffer' = buffer
            \/ buffer' = [buffer EXCEPT ![p] = @ \cup {<<seq[p], "token">>}]
        BY <2>13 DEF GenerationFails
      <4>3. buffer' \in [Posts -> SUBSET Events] BY <4>1, <4>2 DEF StoreTypeOK
      <4> QED BY <2>13, <4>3 DEF GenerationFails, StoreTypeOK
    <3>2. TaskTypeOK'
      <4>1. text' = text \/ text' = [text EXCEPT ![p] = @ + 1]
        BY <2>13 DEF GenerationFails
      <4>2. text' \in [Posts -> Nat]
        <5>1. CASE text' = text BY <5>1 DEF TaskTypeOK
        <5>2. CASE text' = [text EXCEPT ![p] = @ + 1] BY <5>2 DEF TaskTypeOK
        <5> QED BY <4>1, <5>1, <5>2
      <4>3. status' \in [Posts -> Statuses]
        BY <2>13 DEF GenerationFails, TaskTypeOK, Statuses
      <4> QED BY <2>13, <4>2, <4>3 DEF GenerationFails, TaskTypeOK, Steps
    <3>3. ReadTypeOK' BY <2>13 DEF GenerationFails, ReadTypeOK
    <3>4. ReplayInv' BY <2>13 DEF GenerationFails, ReplayInv, ReplayEvents, TaskTypeOK
    <3> QED BY <3>1, <3>2, <3>3, <3>4
  <2>14. ASSUME NEW p \in Posts, EmitError(p) PROVE TypeInv'
    <3>1. buffer' \in [Posts -> SUBSET Events] /\ seq' \in [Posts -> Nat]
      BY <2>14, EmitTypes DEF EmitError, EventTypes, Statuses, TaskTypeOK
    <3>2. StoreTypeOK' BY <2>14, <3>1 DEF EmitError, StoreTypeOK
    <3>3. TaskTypeOK' BY <2>14, <3>1 DEF EmitError, TaskTypeOK, Steps, Statuses, AfterGeneration
    <3>4. ReadTypeOK' BY <2>14 DEF EmitError, ReadTypeOK
    <3>5. ReplayInv' BY <2>14 DEF EmitError, ReplayInv, ReplayEvents, TaskTypeOK, Emit, AfterGeneration
    <3> QED BY <3>2, <3>3, <3>4, <3>5
  <2>15. ASSUME NEW p \in Posts, SaveReply(p) PROVE TypeInv'
    <3>1. Row(p, "assistant", text[p], SavedAs(status[p]), grounded[p]) \in Rows
      BY DEF Row, Rows, Statuses, SavedAs, TaskTypeOK
    <3>2. log' = log \/ log' = Append(log, Row(p, "assistant", text[p], SavedAs(status[p]), grounded[p]))
      BY <2>15 DEF SaveReply, Save
    <3>3. log' \in Seq(Rows) /\ Len(log') >= Len(log)
      BY <3>1, <3>2, AppendFacts DEF StoreTypeOK
    <3>4. StoreTypeOK' BY <2>15, <3>3 DEF SaveReply, Save, StoreTypeOK
    <3>5. TaskTypeOK' BY <2>15, <3>3 DEF SaveReply, Save, StoreTypeOK, TaskTypeOK, Steps
    <3>6. ReadTypeOK' BY <2>15 DEF SaveReply, Save, ReadTypeOK
    <3>7. ReplayInv' BY <2>15 DEF SaveReply, Save, ReplayInv, ReplayEvents, TaskTypeOK
    <3> QED BY <3>4, <3>5, <3>6, <3>7
  <2>16. ASSUME NEW p \in Posts, EmitCitation(p) PROVE TypeInv'
    <3>1. buffer' \in [Posts -> SUBSET Events] /\ seq' \in [Posts -> Nat]
      BY <2>16, EmitTypes DEF EmitCitation, EventTypes, Statuses, TaskTypeOK
    <3>2. StoreTypeOK' BY <2>16, <3>1 DEF EmitCitation, StoreTypeOK
    <3>3. TaskTypeOK' BY <2>16, <3>1 DEF EmitCitation, TaskTypeOK, Steps, Statuses
    <3>4. ReadTypeOK' BY <2>16 DEF EmitCitation, ReadTypeOK
    <3>5. ReplayInv' BY <2>16 DEF EmitCitation, ReplayInv, ReplayEvents, TaskTypeOK, Emit
    <3> QED BY <3>2, <3>3, <3>4, <3>5
  <2>17. ASSUME NEW p \in Posts, RecordUsage(p) PROVE TypeInv'
    <3>1. StoreTypeOK'
      <4>1. cost[p] \in Nat BY DEF TaskTypeOK
      <4>2. settled' \in Nat BY <2>17, <4>1 DEF RecordUsage, StoreTypeOK
      <4> QED BY <2>17, <4>2 DEF RecordUsage, StoreTypeOK
    <3>2. TaskTypeOK' BY <2>17 DEF RecordUsage, TaskTypeOK, Steps, Statuses
    <3>3. ReadTypeOK' BY <2>17 DEF RecordUsage, ReadTypeOK
    <3>4. ReplayInv' BY <2>17 DEF RecordUsage, ReplayInv, ReplayEvents, TaskTypeOK
    <3> QED BY <3>1, <3>2, <3>3, <3>4
  <2>18. ASSUME NEW p \in Posts, EmitUsage(p) PROVE TypeInv'
    <3>1. buffer' \in [Posts -> SUBSET Events] /\ seq' \in [Posts -> Nat]
      BY <2>18, EmitTypes DEF EmitUsage, EventTypes, Statuses, TaskTypeOK
    <3>2. StoreTypeOK' BY <2>18, <3>1 DEF EmitUsage, StoreTypeOK
    <3>3. TaskTypeOK' BY <2>18, <3>1 DEF EmitUsage, TaskTypeOK, Steps, Statuses
    <3>4. ReadTypeOK' BY <2>18 DEF EmitUsage, ReadTypeOK
    <3>5. ReplayInv' BY <2>18 DEF EmitUsage, ReplayInv, ReplayEvents, TaskTypeOK, Emit
    <3> QED BY <3>2, <3>3, <3>4, <3>5
  <2>19. ASSUME NEW p \in Posts, EmitDone(p) PROVE TypeInv'
    <3>1. buffer' \in [Posts -> SUBSET Events] /\ seq' \in [Posts -> Nat]
      BY <2>19, EmitTypes DEF EmitDone, EventTypes, Statuses, TaskTypeOK
    <3>2. StoreTypeOK' BY <2>19, <3>1 DEF EmitDone, StoreTypeOK
    <3>3. TaskTypeOK' BY <2>19, <3>1 DEF EmitDone, TaskTypeOK, Steps, Statuses
    <3>4. ReadTypeOK' BY <2>19 DEF EmitDone, ReadTypeOK
    <3>5. ReplayInv' BY <2>19 DEF EmitDone, ReplayInv, ReplayEvents, TaskTypeOK, Emit
    <3> QED BY <3>2, <3>3, <3>4, <3>5
  <2>20. ASSUME NEW p \in Posts, Raise(p) PROVE TypeInv'
    <3>1. StoreTypeOK' BY <2>20 DEF Raise, StoreTypeOK, TaskTypeOK
    <3>2. TaskTypeOK' BY <2>20 DEF Raise, TaskTypeOK, Steps, Statuses
    <3>3. ReadTypeOK' BY <2>20 DEF Raise, ReadTypeOK
    <3>4. ReplayInv' BY <2>20 DEF Raise, ReplayInv, ReplayEvents, TaskTypeOK
    <3> QED BY <3>1, <3>2, <3>3, <3>4
  <2>21. ASSUME NEW p \in Posts, Cancel(p) PROVE TypeInv'
    <3>1. StoreTypeOK' BY <2>21 DEF Cancel, StoreTypeOK, TaskTypeOK
    <3>2. TaskTypeOK' BY <2>21 DEF Cancel, TaskTypeOK, Steps, Statuses
    <3>3. ReadTypeOK' BY <2>21 DEF Cancel, ReadTypeOK
    <3>4. ReplayInv' BY <2>21 DEF Cancel, ReplayInv, ReplayEvents, TaskTypeOK
    <3> QED BY <3>1, <3>2, <3>3, <3>4
  <2>22. ASSUME NEW p \in Posts, Follow(p) PROVE TypeInv'
    <3>1. StoreTypeOK' BY <2>22 DEF Follow, StoreTypeOK, TaskTypeOK, Read
    <3>2. TaskTypeOK' BY <2>22 DEF Follow, TaskTypeOK, Steps, Statuses, Read
    <3>3. ReadTypeOK' BY <2>22 DEF Follow, ReadTypeOK, Read
    <3>4. ReplayInv' BY <2>22 DEF Follow, ReplayInv, ReplayEvents, TaskTypeOK, Read
    <3> QED BY <3>1, <3>2, <3>3, <3>4
  <2>23. ASSUME NEW p \in Posts, Frame(p) PROVE TypeInv'
    <3>1. StoreTypeOK' BY <2>23 DEF Frame, StoreTypeOK, TaskTypeOK
    <3>2. TaskTypeOK' BY <2>23 DEF Frame, TaskTypeOK, Steps, Statuses
    <3>3. ReadTypeOK'
      <4> USE DEF ReadTypeOK, StoreTypeOK
      <4>1. PICK pending \in SUBSET Events, e \in Events :
              /\ cursor' = [cursor EXCEPT ![p] = e[1]]
              /\ got' = [got EXCEPT ![p] = @ \cup {e}]
              /\ \/ /\ reading' = [reading EXCEPT ![p] = "closed"]
                    /\ batch' = [batch EXCEPT ![p] = {}]
                 \/ /\ batch' = [batch EXCEPT ![p] = pending \ {e}]
                    /\ UNCHANGED reading
        BY <2>23 DEF Frame, Ahead
      <4>2. e[1] \in Nat BY DEF Events
      <4> QED BY <4>1, <4>2
    <3>4. ReplayInv' BY <2>23 DEF Frame, ReplayInv, ReplayEvents, TaskTypeOK
    <3> QED BY <3>1, <3>2, <3>3, <3>4
  <2>24. ASSUME NEW p \in Posts, Disconnect(p) PROVE TypeInv'
    <3>1. StoreTypeOK' BY <2>24 DEF Disconnect, StoreTypeOK, TaskTypeOK
    <3>2. TaskTypeOK' BY <2>24 DEF Disconnect, TaskTypeOK, Steps, Statuses
    <3>3. ReadTypeOK' BY <2>24 DEF Disconnect, ReadTypeOK
    <3>4. ReplayInv' BY <2>24 DEF Disconnect, ReplayInv, ReplayEvents, TaskTypeOK, Read
    <3> QED BY <3>1, <3>2, <3>3, <3>4
  <2>25. ASSUME NEW p \in Posts, Resume(p) PROVE TypeInv'
    <3>1. StoreTypeOK' BY <2>25 DEF Resume, StoreTypeOK, TaskTypeOK, Read
    <3>2. TaskTypeOK' BY <2>25 DEF Resume, TaskTypeOK, Steps, Statuses, Read
    <3>3. ReadTypeOK' BY <2>25 DEF Resume, ReadTypeOK, Read
    <3>4. ReplayInv' BY <2>25 DEF Resume, ReplayInv, ReplayEvents, TaskTypeOK, Read
    <3> QED BY <3>1, <3>2, <3>3, <3>4
  <2>26. ASSUME NEW p \in Posts, ResumeFollow(p) PROVE TypeInv'
    <3>1. StoreTypeOK' BY <2>26 DEF ResumeFollow, StoreTypeOK, TaskTypeOK, Read
    <3>2. TaskTypeOK' BY <2>26 DEF ResumeFollow, TaskTypeOK, Steps, Statuses, Read
    <3>3. ReadTypeOK' BY <2>26 DEF ResumeFollow, ReadTypeOK, Read
    <3>4. ReplayInv' BY <2>26 DEF ResumeFollow, ReplayInv, ReplayEvents, TaskTypeOK, Read
    <3> QED BY <3>1, <3>2, <3>3, <3>4
  <2>27. ASSUME NEW p \in Posts, Expire(p) PROVE TypeInv'
    <3>1. StoreTypeOK' BY <2>27 DEF Expire, StoreTypeOK, TaskTypeOK
    <3>2. TaskTypeOK' BY <2>27 DEF Expire, TaskTypeOK, Steps, Statuses
    <3>3. ReadTypeOK' BY <2>27 DEF Expire, ReadTypeOK
    <3>4. ReplayInv' BY <2>27 DEF Expire, ReplayInv, ReplayEvents, TaskTypeOK
    <3> QED BY <3>1, <3>2, <3>3, <3>4
  <2>28. CASE UNCHANGED vars
    BY <2>28 DEF vars, StoreTypeOK, TaskTypeOK, ReadTypeOK, ReplayInv, ReplayEvents
  <2> QED
    BY StepCases, <2>1, <2>2, <2>3, <2>4, <2>5, <2>6, <2>7, <2>8, <2>9, <2>10, <2>11, <2>12, <2>13, <2>14, <2>15, <2>16, <2>17, <2>18, <2>19, <2>20, <2>21, <2>22, <2>23, <2>24, <2>25, <2>26, <2>27, <2>28
<1> QED BY <1>1, <1>2

\* Every value execute(), the route and the adapters handle is of its type:
\* the event a replay takes next exists, and a found seq is one of the log.
THEOREM ChatTypeCorrect == Spec => []TypeOK
<1>1. Init => TypeInv BY TypeInductive
<1>2. TypeInv /\ [Next]_vars => TypeInv' BY TypeInductive
<1>3. TypeInv => TypeOK BY DEF TypeInv
<1> QED BY <1>1, <1>2, <1>3, PTL DEF Spec

-----------------------------------------------------------------------------
(* TurnStoredOnce is inductive: only two steps insert into the log.        *)

\* Every other step leaves the messages alone.
LEMMA LogFrame ==
  ASSUME Next
  PROVE  log' = log \/ \E p \in Posts : PersistUser(p) \/ SaveReply(p)
  BY StepCases
     DEF storeVars, taskVars, Move, EmitThen, Read, Lookup, FindReply, Replay, Admit, EmitMeta,
         EmitRefusal, Subscribe, EmitToken, TakeUsage, StopCancelled, Exhausted,
         GenerationFails, EmitError, EmitCitation, RecordUsage, EmitUsage, EmitDone,
         Raise, Cancel, Follow, Frame, Disconnect, Resume, ResumeFollow, Expire

\* TurnStoredOnce holds initially and every step keeps it.
LEMMA StoredOnceInductive ==
  /\ Init => TurnStoredOnce
  /\ TypeOK /\ TurnStoredOnce /\ [Next]_vars => TurnStoredOnce'
<1>1. Init => TurnStoredOnce BY DEF Init, TurnStoredOnce
<1>2. ASSUME TypeOK, TurnStoredOnce, [Next]_vars PROVE TurnStoredOnce'
  <2> USE <1>2
  <2>1. CASE log' = log BY <2>1 DEF TurnStoredOnce
  <2>2. ASSUME NEW p \in Posts, PersistUser(p), log' # log PROVE TurnStoredOnce'
    <3>1. PICK row \in Rows : /\ row.role = "user" /\ row.post = p
                             /\ log' = Append(log, row)
      BY <2>2 DEF PersistUser, Row, Rows, Statuses
    <3>2. \A k \in DOMAIN log : log[k].role = "user" => Turn[log[k].post] # Turn[p]
      BY <2>2 DEF PersistUser, UserSeqs
    <3> QED BY <3>1, <3>2, AppendFacts DEF TurnStoredOnce, TypeOK, StoreTypeOK
  <2>3. ASSUME NEW p \in Posts, SaveReply(p) PROVE TurnStoredOnce'
    <3>1. PICK row \in Rows : row.role = "assistant" /\ log' = Append(log, row)
      BY <2>3 DEF SaveReply, Save, SavedAs, Row, Rows, Statuses, TypeOK, TaskTypeOK
    <3> QED BY <3>1, AppendFacts DEF TurnStoredOnce, TypeOK, StoreTypeOK
  <2> QED BY LogFrame, <2>1, <2>2, <2>3 DEF vars, storeVars
<1> QED BY <1>1, <1>2

\* However many retries of a turn there are and wherever they overlap, its user
\* message is in the thread once.
THEOREM TurnsStoredOnce == Spec => []TurnStoredOnce
<1>1. Spec => []TypeOK BY ChatTypeCorrect
<1>2. Init => TurnStoredOnce BY StoredOnceInductive
<1>3. TypeOK /\ TurnStoredOnce /\ [Next]_vars => TurnStoredOnce' BY StoredOnceInductive
<1> QED BY <1>1, <1>2, <1>3, PTL DEF Spec

-----------------------------------------------------------------------------
(* SeqInv: what every kind of step does to the counter and to the client.  *)

\* A step that neither appends nor reads; the task of a failed append stays in
\* its error step or dies.
LEMMA SeqQuiet ==
  ASSUME SeqInv, UNCHANGED <<seq, buffer, batch, cursor, got>>,
         \A q \in Posts : reading[q] = "following" => reading'[q] = "following",
         \A q \in Posts : pc[q] \in {"error", "raised"} => pc'[q] \in {"error", "raised"}
  PROVE  SeqInv'
<1>1. NothingSkipped' BY DEF SeqInv, NothingSkipped, Twins
<1>2. ASSUME NEW q \in Posts PROVE SeqPart(q)'
  <2>1. SeqPart(q) BY DEF SeqInv
  <2>2. \A e : Uncounted(q, e) => Uncounted(q, e)' BY DEF Uncounted
  <2> QED BY <2>1, <2>2 DEF SeqPart, Twins
<1> QED BY <1>1, <1>2 DEF SeqInv

\* What a step does to one request leaves the others' streams alone.
LEMMA SeqLocal ==
  ASSUME SeqInv, NEW p \in Posts, SeqPart(p)',
         \A e \in buffer'[p] :
           e[1] <= cursor'[p] => e \in got'[p] \/ \E f \in got'[p] : Twins(e, f),
         \A q \in Posts \ {p} :
           /\ pc'[q] = pc[q] /\ seq'[q] = seq[q] /\ buffer'[q] = buffer[q]
           /\ batch'[q] = batch[q] /\ cursor'[q] = cursor[q] /\ got'[q] = got[q]
           /\ reading'[q] = reading[q]
  PROVE  SeqInv'
<1>1. ASSUME NEW q \in Posts PROVE SeqPart(q)'
  <2>1. CASE q = p BY <2>1
  <2>2. CASE q # p
    <3>1. SeqPart(q) BY DEF SeqInv
    <3>2. \A e : Uncounted(q, e) => Uncounted(q, e)' BY <2>2 DEF Uncounted
    <3> QED BY <2>2, <3>1, <3>2 DEF SeqPart, Twins
  <2> QED BY <2>1, <2>2
<1>2. NothingSkipped' BY DEF SeqInv, NothingSkipped, Twins
<1> QED BY <1>1, <1>2 DEF SeqInv

\* An event that is added to the buffer at seq[p]: the first of its seq, or the
\* error event after an uncounted delta.
LEMMA SeqAdd ==
  ASSUME TypeOK, SeqInv, NEW p \in Posts, NEW event,
         buffer' = [buffer EXCEPT ![p] = @ \cup {<<seq[p], event>>}],
         UNCHANGED <<batch, cursor, got, reading>>,
         \A q \in Posts \ {p} : pc'[q] = pc[q] /\ seq'[q] = seq[q],
         pc[p] # "raised", pc[p] = "error" => event = "failure",
         \/ seq'[p] = seq[p] + 1
         \/ seq'[p] = seq[p] /\ pc[p] # "error" /\ pc'[p] = "error" /\ event = "token"
  PROVE  SeqInv'
<1> USE DEF TypeOK, StoreTypeOK, TaskTypeOK, ReadTypeOK
<1>0. PICK new : new = <<seq[p], event>> OBVIOUS
<1>1. /\ seq[p] \in Nat /\ cursor[p] \in Int
      /\ buffer'[p] = buffer[p] \cup {new}
      /\ \A q \in Posts \ {p} : buffer'[q] = buffer[q]
  BY <1>0
<1>2. SeqPart(p) BY DEF SeqInv
<1>3. \A e \in buffer[p] : e[1] \in Nat /\ e = <<e[1], e[2]>> BY DEF Events
<1>4. /\ new[1] = seq[p] /\ new[2] = event
      /\ seq[p] < seq'[p] \/ (Uncounted(p, new)' /\ pc[p] # "error")
  BY <1>0, <1>1 DEF Uncounted
<1>5. ASSUME NEW e, Uncounted(p, e) PROVE e[1] = seq[p] /\ e[1] < seq'[p] /\ Twins(e, new)
  <2>1. e[1] = seq[p] /\ e[2] = "token" /\ event = "failure" BY <1>5 DEF Uncounted
  <2>2. seq'[p] = seq[p] + 1 BY <2>1
  <2>3. {e[2], new[2]} = {"token", "failure"} BY <1>4, <2>1
  <2> QED BY <1>1, <1>4, <2>1, <2>2, <2>3 DEF Twins
<1>6. ASSUME NEW e \in buffer[p]
      PROVE  /\ e[1] <= seq[p]
             /\ e[1] = seq[p] => Uncounted(p, e)
             /\ e[1] < seq'[p] \/ Uncounted(p, e)'
  <2>1. e[1] < seq[p] \/ Uncounted(p, e) BY <1>2 DEF SeqPart
  <2>2. CASE e[1] < seq[p] BY <1>1, <1>3, <2>2
  <2>3. CASE Uncounted(p, e) BY <1>1, <1>5, <2>3
  <2> QED BY <2>1, <2>2, <2>3
<1>7. \A e \in buffer'[p] : e[1] < seq'[p] \/ Uncounted(p, e)'
  <2> TAKE e \in buffer'[p]
  <2>1. CASE e \in buffer[p] BY <1>6, <2>1
  <2>2. CASE e = new BY <1>4, <2>2
  <2> QED BY <1>1, <2>1, <2>2
<1>8. ASSUME NEW e \in buffer'[p], NEW f \in buffer'[p], e[1] = f[1]
      PROVE  e = f \/ Twins(e, f)
  <2>1. CASE e \in buffer[p] /\ f \in buffer[p] BY <1>2, <1>8, <2>1 DEF SeqPart
  <2>2. CASE e \in buffer[p] /\ f = new
    BY <1>4, <1>5, <1>6, <1>8, <2>2
  <2>3. CASE f \in buffer[p] /\ e = new
    BY <1>4, <1>5, <1>6, <1>8, <2>3 DEF Twins
  <2> QED BY <1>1, <2>1, <2>2, <2>3
<1>9. \/ cursor[p] < seq[p]
      \/ cursor[p] = seq[p] /\ \E e \in got[p] : Uncounted(p, e)
  BY <1>2 DEF SeqPart, Uncounted
<1>10. cursor'[p] < seq'[p]
       \/ \E e \in got'[p] : e[1] = cursor'[p] /\ Uncounted(p, e)'
  <2>1. CASE cursor[p] < seq[p]
    <3>1. seq'[p] = seq[p] + 1 \/ seq'[p] = seq[p] OBVIOUS
    <3> QED BY <1>1, <2>1, <3>1
  <2>2. CASE cursor[p] = seq[p] /\ \E e \in got[p] : Uncounted(p, e)
    <3>1. seq[p] < seq'[p] BY <1>5, <2>2
    <3> QED BY <2>2, <3>1
  <2> QED BY <1>9, <2>1, <2>2
<1>11. SeqPart(p)'
  <2>1. batch'[p] \subseteq buffer'[p] BY <1>1, <1>2 DEF SeqPart
  <2>2. batch'[p] # {} => reading'[p] = "following" BY <1>2 DEF SeqPart
  <2>3. \A e \in batch'[p] :
          \/ cursor'[p] < e[1]
          \/ cursor'[p] = e[1] /\ \E f \in got'[p] : Twins(e, f)
    BY <1>2 DEF SeqPart
  <2>4. ASSUME NEW e \in batch'[p], NEW f \in buffer'[p], cursor'[p] < f[1], f[1] < e[1]
        PROVE  f \in batch'[p]
    <3>1. e \in buffer[p] /\ e[1] <= seq[p] /\ e[1] \in Nat BY <1>2, <1>3, <1>6 DEF SeqPart
    <3>2. f # new BY <1>1, <1>4, <2>4, <3>1
    <3> QED BY <1>1, <1>2, <2>4, <3>2 DEF SeqPart
  <2>5. \A e, f \in buffer'[p] : e[1] = f[1] => e = f \/ Twins(e, f) BY <1>8
  <2> QED BY <1>7, <1>10, <2>1, <2>2, <2>3, <2>4, <2>5 DEF SeqPart, Twins
<1>12. ASSUME NEW e \in buffer'[p], e[1] <= cursor'[p]
       PROVE  e \in got'[p] \/ \E f \in got'[p] : Twins(e, f)
  <2>1. CASE e \in buffer[p] BY <1>12, <2>1 DEF SeqInv, NothingSkipped
  <2>2. CASE e = new
    <3>1. PICK f \in got[p] : Uncounted(p, f) BY <1>1, <1>4, <1>9, <1>12, <2>2
    <3>2. Twins(f, new) BY <1>5, <3>1
    <3> QED BY <2>2, <3>1, <3>2 DEF Twins
  <2> QED BY <1>1, <2>1, <2>2
<1> QED BY <1>1, <1>11, <1>12, SeqLocal

\* An event that is appended and counted.
LEMMA SeqEmit ==
  ASSUME TypeOK, SeqInv, NEW p \in Posts, NEW event,
         Emit(p, event), UNCHANGED <<batch, cursor, got, reading>>,
         \A q \in Posts \ {p} : pc'[q] = pc[q],
         pc[p] # "raised", pc[p] = "error" => event = "failure"
  PROVE  SeqInv'
<1>1. seq'[p] = seq[p] + 1 /\ \A q \in Posts \ {p} : seq'[q] = seq[q]
  BY DEF Emit, TypeOK, TaskTypeOK
<1>2. buffer' = [buffer EXCEPT ![p] = @ \cup {<<seq[p], event>>}] BY DEF Emit
<1> QED BY <1>1, <1>2, SeqAdd

\* SeqInv holds initially and every step keeps it.
LEMMA SeqInductive ==
  /\ Init => SeqInv
  /\ TypeOK /\ SeqInv /\ [Next]_vars => SeqInv'
<1>1. Init => SeqInv
  <2> SUFFICES ASSUME Init PROVE SeqInv OBVIOUS
  <2>1. \A p \in Posts : /\ buffer[p] = {} /\ batch[p] = {}
                         /\ cursor[p] = -1 /\ seq[p] = 0
    BY DEF Init
  <2> QED BY <2>1 DEF SeqInv, SeqPart, NothingSkipped
<1>2. ASSUME TypeOK, SeqInv, [Next]_vars PROVE SeqInv'
  <2> USE <1>2 DEF storeVars, genVars, taskVars, readVars, Goto, Move, EmitThen
  <2>1. ASSUME NEW p \in Posts, Lookup(p) PROVE SeqInv'
    <3>1. UNCHANGED <<seq, buffer, batch, cursor, got, reading>> BY <2>1 DEF Lookup
    <3>2. \A q \in Posts : pc[q] \in {"error", "raised"} => pc'[q] \in {"error", "raised"}
      BY <2>1 DEF Lookup, TypeOK, TaskTypeOK
    <3> QED BY <3>1, <3>2, SeqQuiet
  <2>2. ASSUME NEW p \in Posts, FindReply(p) PROVE SeqInv'
    <3>1. UNCHANGED <<seq, buffer, batch, cursor, got, reading>> BY <2>2 DEF FindReply
    <3>2. \A q \in Posts : pc[q] \in {"error", "raised"} => pc'[q] \in {"error", "raised"}
      BY <2>2 DEF FindReply, TypeOK, TaskTypeOK
    <3> QED BY <3>1, <3>2, SeqQuiet
  <2>3. ASSUME NEW p \in Posts, Replay(p) PROVE SeqInv'
    <3>1. /\ Emit(p, ReplayEvents(p)[seq[p] + 1]) /\ UNCHANGED <<batch, cursor, got, reading>>
          /\ pc[p] # "raised" /\ pc[p] # "error"
      BY <2>3 DEF Replay
    <3>2. \A q \in Posts \ {p} : pc'[q] = pc[q]
      BY <2>3 DEF Replay, TypeOK, TaskTypeOK
    <3> QED BY <3>1, <3>2, SeqEmit
  <2>4. ASSUME NEW p \in Posts, Admit(p) PROVE SeqInv'
    <3>1. UNCHANGED <<seq, buffer, batch, cursor, got, reading>> BY <2>4 DEF Admit
    <3>2. \A q \in Posts : pc[q] \in {"error", "raised"} => pc'[q] \in {"error", "raised"}
      BY <2>4 DEF Admit, TypeOK, TaskTypeOK
    <3> QED BY <3>1, <3>2, SeqQuiet
  <2>5. ASSUME NEW p \in Posts, PersistUser(p) PROVE SeqInv'
    <3>1. UNCHANGED <<seq, buffer, batch, cursor, got, reading>> BY <2>5 DEF PersistUser
    <3>2. \A q \in Posts : pc[q] \in {"error", "raised"} => pc'[q] \in {"error", "raised"}
      BY <2>5 DEF PersistUser, TypeOK, TaskTypeOK
    <3> QED BY <3>1, <3>2, SeqQuiet
  <2>6. ASSUME NEW p \in Posts, EmitMeta(p) PROVE SeqInv'
    <3>1. /\ Emit(p, "meta") /\ UNCHANGED <<batch, cursor, got, reading>>
          /\ pc[p] # "raised" /\ pc[p] # "error"
      BY <2>6 DEF EmitMeta
    <3>2. \A q \in Posts \ {p} : pc'[q] = pc[q]
      BY <2>6 DEF EmitMeta, TypeOK, TaskTypeOK
    <3> QED BY <3>1, <3>2, SeqEmit
  <2>7. ASSUME NEW p \in Posts, EmitRefusal(p) PROVE SeqInv'
    <3>1. /\ Emit(p, "token") /\ UNCHANGED <<batch, cursor, got, reading>>
          /\ pc[p] # "raised" /\ pc[p] # "error"
      BY <2>7 DEF EmitRefusal
    <3>2. \A q \in Posts \ {p} : pc'[q] = pc[q]
      BY <2>7 DEF EmitRefusal, TypeOK, TaskTypeOK
    <3> QED BY <3>1, <3>2, SeqEmit
  <2>8. ASSUME NEW p \in Posts, Subscribe(p) PROVE SeqInv'
    <3>1. UNCHANGED <<seq, buffer, batch, cursor, got, reading>> BY <2>8 DEF Subscribe
    <3>2. \A q \in Posts : pc[q] \in {"error", "raised"} => pc'[q] \in {"error", "raised"}
      BY <2>8 DEF Subscribe, TypeOK, TaskTypeOK
    <3> QED BY <3>1, <3>2, SeqQuiet
  <2>9. ASSUME NEW p \in Posts, EmitToken(p) PROVE SeqInv'
    <3>1. /\ Emit(p, "token") /\ UNCHANGED <<batch, cursor, got, reading>>
          /\ pc[p] # "raised" /\ pc[p] # "error"
      BY <2>9 DEF EmitToken
    <3>2. \A q \in Posts \ {p} : pc'[q] = pc[q]
      BY <2>9 DEF EmitToken, TypeOK, TaskTypeOK
    <3> QED BY <3>1, <3>2, SeqEmit
  <2>10. ASSUME NEW p \in Posts, TakeUsage(p) PROVE SeqInv'
    <3>1. UNCHANGED <<seq, buffer, batch, cursor, got, reading>> BY <2>10 DEF TakeUsage
    <3>2. \A q \in Posts : pc[q] \in {"error", "raised"} => pc'[q] \in {"error", "raised"}
      BY <2>10 DEF TakeUsage, TypeOK, TaskTypeOK
    <3> QED BY <3>1, <3>2, SeqQuiet
  <2>11. ASSUME NEW p \in Posts, StopCancelled(p) PROVE SeqInv'
    <3>1. UNCHANGED <<seq, buffer, batch, cursor, got, reading>> BY <2>11 DEF StopCancelled, AfterGeneration
    <3>2. \A q \in Posts : pc[q] \in {"error", "raised"} => pc'[q] \in {"error", "raised"}
      BY <2>11 DEF StopCancelled, TypeOK, TaskTypeOK, AfterGeneration
    <3> QED BY <3>1, <3>2, SeqQuiet
  <2>12. ASSUME NEW p \in Posts, Exhausted(p) PROVE SeqInv'
    <3>1. UNCHANGED <<seq, buffer, batch, cursor, got, reading>> BY <2>12 DEF Exhausted
    <3>2. \A q \in Posts : pc[q] \in {"error", "raised"} => pc'[q] \in {"error", "raised"}
      BY <2>12 DEF Exhausted, TypeOK, TaskTypeOK
    <3> QED BY <3>1, <3>2, SeqQuiet
  <2>13. ASSUME NEW p \in Posts, GenerationFails(p) PROVE SeqInv'
    <3>1. /\ pc[p] = "generate" /\ pc'[p] = "error"
          /\ \A q \in Posts \ {p} : pc'[q] = pc[q]
          /\ UNCHANGED <<seq, batch, cursor, got, reading>>
      BY <2>13 DEF GenerationFails, TypeOK, TaskTypeOK
    <3>2. CASE buffer' = buffer BY <3>1, <3>2, SeqQuiet
    <3>3. CASE buffer' = [buffer EXCEPT ![p] = @ \cup {<<seq[p], "token">>}]
      BY <3>1, <3>3, SeqAdd
    <3> QED BY <2>13, <3>2, <3>3 DEF GenerationFails
  <2>14. ASSUME NEW p \in Posts, EmitError(p) PROVE SeqInv'
    <3>1. /\ Emit(p, "failure") /\ UNCHANGED <<batch, cursor, got, reading>>
          /\ pc[p] # "raised"
      BY <2>14 DEF EmitError
    <3>2. \A q \in Posts \ {p} : pc'[q] = pc[q]
      BY <2>14 DEF EmitError, TypeOK, TaskTypeOK, AfterGeneration
    <3> QED BY <3>1, <3>2, SeqEmit
  <2>15. ASSUME NEW p \in Posts, SaveReply(p) PROVE SeqInv'
    <3>1. UNCHANGED <<seq, buffer, batch, cursor, got, reading>> BY <2>15 DEF SaveReply, Save
    <3>2. \A q \in Posts : pc[q] \in {"error", "raised"} => pc'[q] \in {"error", "raised"}
      BY <2>15 DEF SaveReply, TypeOK, TaskTypeOK, Save
    <3> QED BY <3>1, <3>2, SeqQuiet
  <2>16. ASSUME NEW p \in Posts, EmitCitation(p) PROVE SeqInv'
    <3>1. /\ Emit(p, "citation") /\ UNCHANGED <<batch, cursor, got, reading>>
          /\ pc[p] # "raised" /\ pc[p] # "error"
      BY <2>16 DEF EmitCitation
    <3>2. \A q \in Posts \ {p} : pc'[q] = pc[q]
      BY <2>16 DEF EmitCitation, TypeOK, TaskTypeOK
    <3> QED BY <3>1, <3>2, SeqEmit
  <2>17. ASSUME NEW p \in Posts, RecordUsage(p) PROVE SeqInv'
    <3>1. UNCHANGED <<seq, buffer, batch, cursor, got, reading>> BY <2>17 DEF RecordUsage
    <3>2. \A q \in Posts : pc[q] \in {"error", "raised"} => pc'[q] \in {"error", "raised"}
      BY <2>17 DEF RecordUsage, TypeOK, TaskTypeOK
    <3> QED BY <3>1, <3>2, SeqQuiet
  <2>18. ASSUME NEW p \in Posts, EmitUsage(p) PROVE SeqInv'
    <3>1. /\ Emit(p, "usage") /\ UNCHANGED <<batch, cursor, got, reading>>
          /\ pc[p] # "raised" /\ pc[p] # "error"
      BY <2>18 DEF EmitUsage
    <3>2. \A q \in Posts \ {p} : pc'[q] = pc[q]
      BY <2>18 DEF EmitUsage, TypeOK, TaskTypeOK
    <3> QED BY <3>1, <3>2, SeqEmit
  <2>19. ASSUME NEW p \in Posts, EmitDone(p) PROVE SeqInv'
    <3>1. /\ Emit(p, status[p]) /\ UNCHANGED <<batch, cursor, got, reading>>
          /\ pc[p] # "raised" /\ pc[p] # "error"
      BY <2>19 DEF EmitDone
    <3>2. \A q \in Posts \ {p} : pc'[q] = pc[q]
      BY <2>19 DEF EmitDone, TypeOK, TaskTypeOK
    <3> QED BY <3>1, <3>2, SeqEmit
  <2>20. ASSUME NEW p \in Posts, Raise(p) PROVE SeqInv'
    <3>1. UNCHANGED <<seq, buffer, batch, cursor, got, reading>> BY <2>20 DEF Raise
    <3>2. \A q \in Posts : pc[q] \in {"error", "raised"} => pc'[q] \in {"error", "raised"}
      BY <2>20 DEF Raise, TypeOK, TaskTypeOK
    <3> QED BY <3>1, <3>2, SeqQuiet
  <2>21. ASSUME NEW p \in Posts, Cancel(p) PROVE SeqInv'
    <3>1. UNCHANGED <<seq, buffer, batch, cursor, got, reading>> BY <2>21 DEF Cancel
    <3>2. \A q \in Posts : pc[q] \in {"error", "raised"} => pc'[q] \in {"error", "raised"}
      BY <2>21 DEF Cancel, TypeOK, TaskTypeOK
    <3> QED BY <3>1, <3>2, SeqQuiet
  <2>22. ASSUME NEW p \in Posts, Follow(p) PROVE SeqInv'
    <3>1. /\ UNCHANGED <<seq, buffer, batch, cursor, got>>
          /\ \A q \in Posts : reading[q] = "following" => reading'[q] = "following"
      BY <2>22 DEF Follow, Read, TypeOK, ReadTypeOK
    <3>2. \A q \in Posts : pc[q] \in {"error", "raised"} => pc'[q] \in {"error", "raised"}
      BY <2>22 DEF Follow, TypeOK, TaskTypeOK, Read
    <3> QED BY <3>1, <3>2, SeqQuiet
  <2>23. ASSUME NEW p \in Posts, Frame(p) PROVE SeqInv'
    <3> USE DEF TypeOK, StoreTypeOK, TaskTypeOK, ReadTypeOK
    <3> DEFINE pending == IF batch[p] = {} THEN Ahead(p) ELSE batch[p]
    <3>1. PICK e \in pending :
            /\ reading[p] = "following"
            /\ \A f \in pending : ~Before(f, e)
            /\ cursor' = [cursor EXCEPT ![p] = e[1]]
            /\ got' = [got EXCEPT ![p] = @ \cup {e}]
            /\ \/ /\ e[2] \in Statuses
                  /\ reading' = [reading EXCEPT ![p] = "closed"]
                  /\ batch' = [batch EXCEPT ![p] = {}]
               \/ /\ e[2] \notin Statuses
                  /\ batch' = [batch EXCEPT ![p] = pending \ {e}]
                  /\ UNCHANGED reading
      BY <2>23 DEF Frame
    <3>2. UNCHANGED <<pc, seq, buffer>> BY <2>23 DEF Frame
    <3>3. SeqPart(p) BY DEF SeqInv
    <3>4. \A f \in buffer[p] : f[1] \in Nat BY DEF Events
    <3>5. /\ pending \subseteq buffer[p]
          /\ \A f \in pending : cursor[p] <= f[1]
          /\ \A f \in pending : \A g \in buffer[p] :
               cursor[p] < g[1] /\ g[1] < f[1] => g \in pending
      <4>1. cursor[p] \in Int OBVIOUS
      <4>2. CASE batch[p] = {}
        <5>1. pending = {f \in buffer[p] : f[1] > cursor[p]} BY <4>2 DEF Ahead
        <5> HIDE DEF pending
        <5> QED BY <3>4, <4>1, <5>1
      <4>3. CASE batch[p] # {}
        <5>1. pending = batch[p] BY <4>3
        <5> HIDE DEF pending
        <5>2. pending \subseteq buffer[p] BY <3>3, <5>1 DEF SeqPart
        <5>3. \A f \in pending : cursor[p] < f[1] \/ cursor[p] = f[1]
          BY <3>3, <5>1 DEF SeqPart
        <5>4. \A f \in pending : \A g \in buffer[p] :
                cursor[p] < g[1] /\ g[1] < f[1] => g \in pending
          BY <3>3, <5>1 DEF SeqPart
        <5>5. ASSUME NEW f \in pending PROVE cursor[p] <= f[1]
          <6>1. f[1] \in Nat BY <3>4, <5>2
          <6>2. cursor[p] < f[1] \/ cursor[p] = f[1] BY <5>3
          <6> QED BY <4>1, <6>1, <6>2
        <5> QED BY <5>2, <5>4, <5>5
      <4> QED BY <4>2, <4>3
    <3>6. /\ cursor[p] \in Int /\ cursor'[p] = e[1] /\ got'[p] = got[p] \cup {e}
          /\ e \in buffer[p] /\ e[1] \in Nat /\ cursor[p] <= e[1]
          /\ batch'[p] = {} \/ batch'[p] = pending \ {e}
          /\ batch'[p] # {} => reading'[p] = "following"
      BY <3>1, <3>4, <3>5
    <3> HIDE DEF pending
    <3>7. \A f \in pending : e[1] <= f[1] BY <3>1, <3>4, <3>5, <3>6 DEF Before
    <3>8. ASSUME NEW f \in pending, f # e, f[1] = e[1] PROVE Twins(f, e)
      BY <3>3, <3>5, <3>6, <3>8 DEF SeqPart
    <3>9. ASSUME NEW f \in buffer[p], f[1] <= cursor'[p]
          PROVE  f \in got'[p] \/ \E g \in got'[p] : Twins(f, g)
      <4>1. CASE f = e BY <3>6, <4>1
      <4>2. CASE f # e /\ f[1] = e[1] BY <3>3, <3>6, <4>2 DEF SeqPart
      <4>3. CASE f # e /\ f[1] # e[1] /\ f[1] > cursor[p]
        <5>1. f[1] < e[1] /\ f \in pending BY <3>4, <3>5, <3>6, <3>9, <4>3
        <5> QED BY <3>4, <3>6, <3>7, <5>1
      <4>4. CASE f # e /\ f[1] # e[1] /\ f[1] <= cursor[p]
        <5>1. f \in got[p] \/ \E g \in got[p] : Twins(f, g)
          BY <4>4 DEF SeqInv, NothingSkipped
        <5> QED BY <3>6, <5>1
      <4> QED BY <3>4, <3>6, <4>1, <4>2, <4>3, <4>4
    <3>10. SeqPart(p)'
      <4>1. \A f : Uncounted(p, f) => Uncounted(p, f)' BY <3>2 DEF Uncounted
      <4>2. \A f \in buffer'[p] : f[1] < seq'[p] \/ Uncounted(p, f)'
        BY <3>2, <3>3, <4>1 DEF SeqPart
      <4>3. \A f, g \in buffer'[p] : f[1] = g[1] => f = g \/ Twins(f, g)
        BY <3>2, <3>3 DEF SeqPart
      <4>4. cursor'[p] < seq'[p] \/ \E f \in got'[p] : f[1] = cursor'[p] /\ Uncounted(p, f)'
        BY <3>2, <3>6, <4>2
      <4>5. batch'[p] \subseteq buffer'[p] BY <3>2, <3>5, <3>6
      <4>6. ASSUME NEW f \in batch'[p]
            PROVE  \/ cursor'[p] < f[1]
                   \/ cursor'[p] = f[1] /\ \E g \in got'[p] : Twins(f, g)
        <5>1. f \in pending /\ f # e /\ e[1] <= f[1] BY <3>6, <3>7
        <5>2. CASE f[1] = e[1] BY <3>6, <3>8, <5>1, <5>2
        <5>3. CASE f[1] # e[1] BY <3>4, <3>5, <3>6, <5>1, <5>3
        <5> QED BY <5>2, <5>3
      <4>7. ASSUME NEW f \in batch'[p], NEW g \in buffer'[p], cursor'[p] < g[1], g[1] < f[1]
            PROVE  g \in batch'[p]
        <5>1. f \in pending /\ batch'[p] = pending \ {e} BY <3>6, <4>7
        <5>2. g \in pending BY <3>2, <3>4, <3>5, <3>6, <4>7, <5>1
        <5>3. g # e BY <3>6, <4>7
        <5> QED BY <5>1, <5>2, <5>3
      <4> QED BY <3>6, <4>2, <4>3, <4>4, <4>5, <4>6, <4>7 DEF SeqPart, Twins
    <3>11. \A q \in Posts \ {p} :
             /\ pc'[q] = pc[q] /\ seq'[q] = seq[q] /\ buffer'[q] = buffer[q]
             /\ batch'[q] = batch[q] /\ cursor'[q] = cursor[q] /\ got'[q] = got[q]
             /\ reading'[q] = reading[q]
      BY <3>1, <3>2
    <3> QED BY <3>2, <3>9, <3>10, <3>11, SeqLocal
  <2>24. ASSUME NEW p \in Posts, Disconnect(p) PROVE SeqInv'
    <3> USE DEF TypeOK, ReadTypeOK
    <3>1. /\ UNCHANGED <<pc, seq, buffer, cursor, got>>
          /\ batch'[p] = {}
          /\ \A q \in Posts \ {p} : batch'[q] = batch[q] /\ reading'[q] = reading[q]
      BY <2>24 DEF Disconnect
    <3>2. SeqPart(p) BY DEF SeqInv
    <3>3. \A e : Uncounted(p, e) => Uncounted(p, e)' BY <3>1 DEF Uncounted
    <3>4. SeqPart(p)' BY <3>1, <3>2, <3>3 DEF SeqPart, Twins
    <3> QED BY <3>1, <3>4, SeqLocal DEF SeqInv, NothingSkipped
  <2>25. ASSUME NEW p \in Posts, Resume(p) PROVE SeqInv'
    <3>1. /\ UNCHANGED <<seq, buffer, batch, cursor, got>>
          /\ \A q \in Posts : reading[q] = "following" => reading'[q] = "following"
      BY <2>25 DEF Resume, Read, TypeOK, ReadTypeOK
    <3>2. \A q \in Posts : pc[q] \in {"error", "raised"} => pc'[q] \in {"error", "raised"}
      BY <2>25 DEF Resume, TypeOK, TaskTypeOK, Read
    <3> QED BY <3>1, <3>2, SeqQuiet
  <2>26. ASSUME NEW p \in Posts, ResumeFollow(p) PROVE SeqInv'
    <3>1. /\ UNCHANGED <<seq, buffer, batch, cursor, got>>
          /\ \A q \in Posts : reading[q] = "following" => reading'[q] = "following"
      BY <2>26 DEF ResumeFollow, Read, TypeOK, ReadTypeOK
    <3>2. \A q \in Posts : pc[q] \in {"error", "raised"} => pc'[q] \in {"error", "raised"}
      BY <2>26 DEF ResumeFollow, TypeOK, TaskTypeOK, Read
    <3> QED BY <3>1, <3>2, SeqQuiet
  <2>27. ASSUME NEW p \in Posts, Expire(p) PROVE SeqInv'
    <3> USE DEF TypeOK, StoreTypeOK
    <3>1. /\ UNCHANGED <<pc, seq, batch, cursor, got, reading>>
          /\ buffer'[p] = {} /\ \A q \in Posts \ {p} : buffer'[q] = buffer[q]
          /\ reading[p] # "following"
      BY <2>27 DEF Expire
    <3>2. SeqPart(p) BY DEF SeqInv
    <3>3. batch[p] = {} BY <3>1, <3>2 DEF SeqPart
    <3>4. \A e : Uncounted(p, e) => Uncounted(p, e)' BY <3>1 DEF Uncounted
    <3>5. SeqPart(p)' BY <3>1, <3>2, <3>3, <3>4 DEF SeqPart
    <3> QED BY <3>1, <3>5, SeqLocal
  <2>28. CASE UNCHANGED vars BY <2>28, SeqQuiet DEF vars
  <2> QED
    BY StepCases, <2>1, <2>2, <2>3, <2>4, <2>5, <2>6, <2>7, <2>8, <2>9, <2>10, <2>11, <2>12, <2>13, <2>14, <2>15, <2>16, <2>17, <2>18, <2>19, <2>20, <2>21, <2>22, <2>23, <2>24, <2>25, <2>26, <2>27, <2>28
<1> QED BY <1>1, <1>2

\* Last-Event-ID resume: whatever breaks, reconnects and expires, a client has
\* every buffered event up to its cursor, but for one of a delta and an error
\* event that share a seq.
THEOREM ResumeSkipsNothing == Spec => []NothingSkipped
<1>1. Spec => []TypeOK BY ChatTypeCorrect
<1>2. Init => SeqInv BY SeqInductive
<1>3. TypeOK /\ SeqInv /\ [Next]_vars => SeqInv' BY SeqInductive
<1>4. SeqInv => NothingSkipped BY DEF SeqInv
<1> QED BY <1>1, <1>2, <1>3, <1>4, PTL DEF Spec

-----------------------------------------------------------------------------
(* SettleInv: the reply, its cost and its bill.                            *)

\* A step of the task of p that writes neither the log nor the budget.
LEMMA SettleLocal ==
  ASSUME TypeOK, SettleInv, NEW p \in Posts, UNCHANGED <<log, settled, billed>>,
         \A q \in Posts \ {p} :
           pc'[q] = pc[q] /\ cost'[q] = cost[q] /\ grounded'[q] = grounded[q],
         SettlePart(p)', p \in billed => cost'[p] = cost[p],
         pc'[p] = "ended" => pc[p] = "done" /\ cost'[p] = cost[p]
  PROVE  SettleInv'
<1>1. \A q \in Posts : Replies(q)' = Replies(q) BY DEF Replies
<1>2. ASSUME NEW q \in Posts PROVE SettlePart(q)'
  <2>1. CASE q = p BY <2>1
  <2>2. CASE q # p BY <1>1, <2>2 DEF SettleInv, SettlePart
  <2> QED BY <2>1, <2>2
<1>3. ASSUME NEW q \in Posts, pc'[q] = "ended", cost'[q] = 1, Replies(q)' # {}
      PROVE  q \in billed'
  <2>1. CASE q = p BY <1>1, <1>3, <2>1 DEF SettleInv, SettlePart
  <2>2. CASE q # p BY <1>1, <1>3, <2>2 DEF SettleInv, SettledBeforeDone
  <2> QED BY <2>1, <2>2
<1>4. ASSUME NEW q \in billed' PROVE Replies(q)' # {} /\ cost'[q] = 1
  <2>1. q \in Posts /\ q \in billed BY DEF TypeOK, StoreTypeOK
  <2>2. Replies(q) # {} /\ cost[q] = 1 BY <2>1 DEF SettleInv, SettledBeforeDone
  <2>3. cost'[q] = cost[q] BY <2>1
  <2> QED BY <1>1, <2>1, <2>2, <2>3
<1>5. SettledBeforeDone' BY <1>3, <1>4 DEF SettleInv, SettledBeforeDone
<1> QED BY <1>2, <1>5 DEF SettleInv

\* A step of the client or of the buffer.
LEMMA SettleQuiet ==
  ASSUME SettleInv, UNCHANGED <<log, settled, billed, pc, cost, grounded>>
  PROVE  SettleInv'
<1>1. \A q \in Posts : Replies(q)' = Replies(q) BY DEF Replies
<1>2. \A q \in billed : Replies(q)' = Replies(q) BY DEF Replies
<1> QED BY <1>1, <1>2 DEF SettleInv, SettlePart, SettledBeforeDone

\* A message inserted for p changes the replies of no other request.
LEMMA RepliesGrow ==
  ASSUME TypeOK, NEW row \in Rows, log' = Append(log, row)
  PROVE  /\ \A q : row.role = "user" \/ q # row.post => Replies(q)' = Replies(q)
         /\ \A q : Replies(q) # {} => Replies(q)' # {}
         /\ row.role = "assistant" => Replies(row.post)' # {}
  BY AppendFacts DEF Replies, TypeOK, StoreTypeOK

\* SettleInv holds initially and every step keeps it.
LEMMA SettleInductive ==
  /\ Init => SettleInv
  /\ TypeOK /\ SettleInv /\ [Next]_vars => SettleInv'
<1>1. Init => SettleInv
  <2> SUFFICES ASSUME Init PROVE SettleInv OBVIOUS
  <2>1. Cardinality(billed) = 0 /\ IsFiniteSet(billed) BY FS_EmptySet DEF Init
  <2>2. \A p \in Posts : Replies(p) = {} BY DEF Init, Replies
  <2> QED BY <2>1, <2>2 DEF Init, SettleInv, SettlePart, SettledBeforeDone, Costless, Unsaved
<1>2. ASSUME TypeOK, SettleInv, [Next]_vars PROVE SettleInv'
  <2> USE <1>2 DEF storeVars, genVars, taskVars, readVars, Goto, Move, EmitThen
  <2>1. ASSUME NEW p \in Posts, Lookup(p) PROVE SettleInv'
    <3> USE DEF TypeOK, TaskTypeOK
    <3>1. /\ UNCHANGED <<log, settled, billed>>
          /\ \A q \in Posts \ {p} :
               pc'[q] = pc[q] /\ cost'[q] = cost[q] /\ grounded'[q] = grounded[q]
      BY <2>1 DEF Lookup
    <3>2. Replies(p)' = Replies(p) BY <3>1 DEF Replies
    <3>3. SettlePart(p) BY DEF SettleInv
    <3>4. SettlePart(p)' BY <2>1, <3>1, <3>2, <3>3 DEF Lookup, SettlePart, Costless, Unsaved
    <3>5. p \in billed => cost'[p] = cost[p] BY <2>1, <3>3 DEF Lookup, SettlePart
    <3>6. pc'[p] = "ended" => pc[p] = "done" /\ cost'[p] = cost[p]
      BY <2>1 DEF Lookup
    <3> QED BY <3>1, <3>4, <3>5, <3>6, SettleLocal
  <2>2. ASSUME NEW p \in Posts, FindReply(p) PROVE SettleInv'
    <3> USE DEF TypeOK, TaskTypeOK
    <3>1. /\ UNCHANGED <<log, settled, billed>>
          /\ \A q \in Posts \ {p} :
               pc'[q] = pc[q] /\ cost'[q] = cost[q] /\ grounded'[q] = grounded[q]
      BY <2>2 DEF FindReply
    <3>2. Replies(p)' = Replies(p) BY <3>1 DEF Replies
    <3>3. SettlePart(p) BY DEF SettleInv
    <3>4. SettlePart(p)' BY <2>2, <3>1, <3>2, <3>3 DEF FindReply, SettlePart, Costless, Unsaved
    <3>5. p \in billed => cost'[p] = cost[p] BY <2>2, <3>3 DEF FindReply, SettlePart
    <3>6. pc'[p] = "ended" => pc[p] = "done" /\ cost'[p] = cost[p]
      BY <2>2 DEF FindReply
    <3> QED BY <3>1, <3>4, <3>5, <3>6, SettleLocal
  <2>3. ASSUME NEW p \in Posts, Replay(p) PROVE SettleInv'
    <3> USE DEF TypeOK, TaskTypeOK
    <3>1. /\ UNCHANGED <<log, settled, billed>>
          /\ \A q \in Posts \ {p} :
               pc'[q] = pc[q] /\ cost'[q] = cost[q] /\ grounded'[q] = grounded[q]
      BY <2>3 DEF Replay
    <3>2. Replies(p)' = Replies(p) BY <3>1 DEF Replies
    <3>3. SettlePart(p) BY DEF SettleInv
    <3>4. SettlePart(p)' BY <2>3, <3>1, <3>2, <3>3 DEF Replay, SettlePart, Costless, Unsaved
    <3>5. p \in billed => cost'[p] = cost[p] BY <2>3, <3>3 DEF Replay, SettlePart
    <3>6. pc'[p] = "ended" => pc[p] = "done" /\ cost'[p] = cost[p]
      BY <2>3 DEF Replay
    <3> QED BY <3>1, <3>4, <3>5, <3>6, SettleLocal
  <2>4. ASSUME NEW p \in Posts, Admit(p) PROVE SettleInv'
    <3> USE DEF TypeOK, TaskTypeOK
    <3>1. /\ UNCHANGED <<log, settled, billed>>
          /\ \A q \in Posts \ {p} :
               pc'[q] = pc[q] /\ cost'[q] = cost[q] /\ grounded'[q] = grounded[q]
      BY <2>4 DEF Admit
    <3>2. Replies(p)' = Replies(p) BY <3>1 DEF Replies
    <3>3. SettlePart(p) BY DEF SettleInv
    <3>4. SettlePart(p)' BY <2>4, <3>1, <3>2, <3>3 DEF Admit, SettlePart, Costless, Unsaved
    <3>5. p \in billed => cost'[p] = cost[p] BY <2>4, <3>3 DEF Admit, SettlePart
    <3>6. pc'[p] = "ended" => pc[p] = "done" /\ cost'[p] = cost[p]
      BY <2>4 DEF Admit
    <3> QED BY <3>1, <3>4, <3>5, <3>6, SettleLocal
  <2>5. ASSUME NEW p \in Posts, PersistUser(p) PROVE SettleInv'
    <3> USE DEF TypeOK, TaskTypeOK
    <3>1. /\ pc[p] = "persist" /\ pc'[p] \in {"meta", "raised"}
          /\ \A q \in Posts \ {p} : pc'[q] = pc[q]
          /\ UNCHANGED <<settled, billed, cost, grounded>>
      BY <2>5 DEF PersistUser
    <3>2. log' = log \/ \E row \in Rows : row.role = "user" /\ log' = Append(log, row)
      BY <2>5 DEF PersistUser, Row, Rows, Statuses
    <3>3. \A q : Replies(q)' = Replies(q)
      <4>1. CASE log' = log BY <4>1 DEF Replies
      <4>2. ASSUME NEW row \in Rows, row.role = "user", log' = Append(log, row)
            PROVE  \A q : Replies(q)' = Replies(q)
        BY <4>2, RepliesGrow
      <4> QED BY <3>2, <4>1, <4>2
    <3>4. \A q \in Posts : SettlePart(q)'
      BY <3>1, <3>3 DEF SettleInv, SettlePart, Costless, Unsaved
    <3>5. SettledBeforeDone' BY <3>1, <3>3 DEF SettleInv, SettledBeforeDone
    <3> QED BY <3>1, <3>4, <3>5 DEF SettleInv
  <2>6. ASSUME NEW p \in Posts, EmitMeta(p) PROVE SettleInv'
    <3> USE DEF TypeOK, TaskTypeOK
    <3>1. /\ UNCHANGED <<log, settled, billed>>
          /\ \A q \in Posts \ {p} :
               pc'[q] = pc[q] /\ cost'[q] = cost[q] /\ grounded'[q] = grounded[q]
      BY <2>6 DEF EmitMeta
    <3>2. Replies(p)' = Replies(p) BY <3>1 DEF Replies
    <3>3. SettlePart(p) BY DEF SettleInv
    <3>4. SettlePart(p)' BY <2>6, <3>1, <3>2, <3>3 DEF EmitMeta, SettlePart, Costless, Unsaved
    <3>5. p \in billed => cost'[p] = cost[p] BY <2>6, <3>3 DEF EmitMeta, SettlePart
    <3>6. pc'[p] = "ended" => pc[p] = "done" /\ cost'[p] = cost[p]
      BY <2>6 DEF EmitMeta
    <3> QED BY <3>1, <3>4, <3>5, <3>6, SettleLocal
  <2>7. ASSUME NEW p \in Posts, EmitRefusal(p) PROVE SettleInv'
    <3> USE DEF TypeOK, TaskTypeOK
    <3>1. /\ UNCHANGED <<log, settled, billed>>
          /\ \A q \in Posts \ {p} :
               pc'[q] = pc[q] /\ cost'[q] = cost[q] /\ grounded'[q] = grounded[q]
      BY <2>7 DEF EmitRefusal
    <3>2. Replies(p)' = Replies(p) BY <3>1 DEF Replies
    <3>3. SettlePart(p) BY DEF SettleInv
    <3>4. SettlePart(p)' BY <2>7, <3>1, <3>2, <3>3 DEF EmitRefusal, SettlePart, Costless, Unsaved
    <3>5. p \in billed => cost'[p] = cost[p] BY <2>7, <3>3 DEF EmitRefusal, SettlePart
    <3>6. pc'[p] = "ended" => pc[p] = "done" /\ cost'[p] = cost[p]
      BY <2>7 DEF EmitRefusal
    <3> QED BY <3>1, <3>4, <3>5, <3>6, SettleLocal
  <2>8. ASSUME NEW p \in Posts, Subscribe(p) PROVE SettleInv'
    <3> USE DEF TypeOK, TaskTypeOK
    <3>1. /\ UNCHANGED <<log, settled, billed>>
          /\ \A q \in Posts \ {p} :
               pc'[q] = pc[q] /\ cost'[q] = cost[q] /\ grounded'[q] = grounded[q]
      BY <2>8 DEF Subscribe
    <3>2. Replies(p)' = Replies(p) BY <3>1 DEF Replies
    <3>3. SettlePart(p) BY DEF SettleInv
    <3>4. SettlePart(p)' BY <2>8, <3>1, <3>2, <3>3 DEF Subscribe, SettlePart, Costless, Unsaved
    <3>5. p \in billed => cost'[p] = cost[p] BY <2>8, <3>3 DEF Subscribe, SettlePart
    <3>6. pc'[p] = "ended" => pc[p] = "done" /\ cost'[p] = cost[p]
      BY <2>8 DEF Subscribe
    <3> QED BY <3>1, <3>4, <3>5, <3>6, SettleLocal
  <2>9. ASSUME NEW p \in Posts, EmitToken(p) PROVE SettleInv'
    BY <2>9, SettleQuiet DEF EmitToken
  <2>10. ASSUME NEW p \in Posts, TakeUsage(p) PROVE SettleInv'
    <3> USE DEF TypeOK, TaskTypeOK
    <3>1. /\ UNCHANGED <<log, settled, billed>>
          /\ \A q \in Posts \ {p} :
               pc'[q] = pc[q] /\ cost'[q] = cost[q] /\ grounded'[q] = grounded[q]
      BY <2>10 DEF TakeUsage
    <3>2. Replies(p)' = Replies(p) BY <3>1 DEF Replies
    <3>3. SettlePart(p) BY DEF SettleInv
    <3>4. SettlePart(p)' BY <2>10, <3>1, <3>2, <3>3 DEF TakeUsage, SettlePart, Costless, Unsaved
    <3>5. p \in billed => cost'[p] = cost[p] BY <2>10, <3>3 DEF TakeUsage, SettlePart
    <3>6. pc'[p] = "ended" => pc[p] = "done" /\ cost'[p] = cost[p]
      BY <2>10 DEF TakeUsage
    <3> QED BY <3>1, <3>4, <3>5, <3>6, SettleLocal
  <2>11. ASSUME NEW p \in Posts, StopCancelled(p) PROVE SettleInv'
    <3> USE DEF TypeOK, TaskTypeOK
    <3>1. /\ UNCHANGED <<log, settled, billed>>
          /\ \A q \in Posts \ {p} :
               pc'[q] = pc[q] /\ cost'[q] = cost[q] /\ grounded'[q] = grounded[q]
      BY <2>11 DEF StopCancelled, AfterGeneration
    <3>2. Replies(p)' = Replies(p) BY <3>1 DEF Replies
    <3>3. SettlePart(p) BY DEF SettleInv
    <3>4. SettlePart(p)' BY <2>11, <3>1, <3>2, <3>3 DEF StopCancelled, SettlePart, Costless, Unsaved, AfterGeneration
    <3>5. p \in billed => cost'[p] = cost[p] BY <2>11, <3>3 DEF StopCancelled, SettlePart
    <3>6. pc'[p] = "ended" => pc[p] = "done" /\ cost'[p] = cost[p]
      BY <2>11 DEF StopCancelled, AfterGeneration
    <3> QED BY <3>1, <3>4, <3>5, <3>6, SettleLocal
  <2>12. ASSUME NEW p \in Posts, Exhausted(p) PROVE SettleInv'
    <3> USE DEF TypeOK, TaskTypeOK
    <3>1. /\ UNCHANGED <<log, settled, billed>>
          /\ \A q \in Posts \ {p} :
               pc'[q] = pc[q] /\ cost'[q] = cost[q] /\ grounded'[q] = grounded[q]
      BY <2>12 DEF Exhausted
    <3>2. Replies(p)' = Replies(p) BY <3>1 DEF Replies
    <3>3. SettlePart(p) BY DEF SettleInv
    <3>4. SettlePart(p)' BY <2>12, <3>1, <3>2, <3>3 DEF Exhausted, SettlePart, Costless, Unsaved
    <3>5. p \in billed => cost'[p] = cost[p] BY <2>12, <3>3 DEF Exhausted, SettlePart
    <3>6. pc'[p] = "ended" => pc[p] = "done" /\ cost'[p] = cost[p]
      BY <2>12 DEF Exhausted
    <3> QED BY <3>1, <3>4, <3>5, <3>6, SettleLocal
  <2>13. ASSUME NEW p \in Posts, GenerationFails(p) PROVE SettleInv'
    <3> USE DEF TypeOK, TaskTypeOK
    <3>1. /\ UNCHANGED <<log, settled, billed>>
          /\ \A q \in Posts \ {p} :
               pc'[q] = pc[q] /\ cost'[q] = cost[q] /\ grounded'[q] = grounded[q]
      BY <2>13 DEF GenerationFails
    <3>2. Replies(p)' = Replies(p) BY <3>1 DEF Replies
    <3>3. SettlePart(p) BY DEF SettleInv
    <3>4. SettlePart(p)' BY <2>13, <3>1, <3>2, <3>3 DEF GenerationFails, SettlePart, Costless, Unsaved
    <3>5. p \in billed => cost'[p] = cost[p] BY <2>13, <3>3 DEF GenerationFails, SettlePart
    <3>6. pc'[p] = "ended" => pc[p] = "done" /\ cost'[p] = cost[p]
      BY <2>13 DEF GenerationFails
    <3> QED BY <3>1, <3>4, <3>5, <3>6, SettleLocal
  <2>14. ASSUME NEW p \in Posts, EmitError(p) PROVE SettleInv'
    <3> USE DEF TypeOK, TaskTypeOK
    <3>1. /\ UNCHANGED <<log, settled, billed>>
          /\ \A q \in Posts \ {p} :
               pc'[q] = pc[q] /\ cost'[q] = cost[q] /\ grounded'[q] = grounded[q]
      BY <2>14 DEF EmitError, AfterGeneration
    <3>2. Replies(p)' = Replies(p) BY <3>1 DEF Replies
    <3>3. SettlePart(p) BY DEF SettleInv
    <3>4. SettlePart(p)' BY <2>14, <3>1, <3>2, <3>3 DEF EmitError, SettlePart, Costless, Unsaved, AfterGeneration
    <3>5. p \in billed => cost'[p] = cost[p] BY <2>14, <3>3 DEF EmitError, SettlePart
    <3>6. pc'[p] = "ended" => pc[p] = "done" /\ cost'[p] = cost[p]
      BY <2>14 DEF EmitError, AfterGeneration
    <3> QED BY <3>1, <3>4, <3>5, <3>6, SettleLocal
  <2>15. ASSUME NEW p \in Posts, SaveReply(p) PROVE SettleInv'
    <3> USE DEF TypeOK, TaskTypeOK
    <3>1. /\ pc[p] = "save" /\ pc'[p] = (IF grounded[p] THEN "cite" ELSE "usage")
          /\ \A q \in Posts \ {p} : pc'[q] = pc[q]
          /\ UNCHANGED <<settled, billed, cost, grounded>>
      BY <2>15 DEF SaveReply, Save
    <3>2. PICK row \in Rows : /\ row.role = "assistant" /\ row.post = p
                             /\ log' = Append(log, row)
      <4> DEFINE saved == Row(p, "assistant", text[p], SavedAs(status[p]), grounded[p])
      <4>1. saved \in Rows /\ saved.role = "assistant" /\ saved.post = p
        BY DEF Row, Rows, Statuses, SavedAs
      <4>2. log' = Append(log, saved) BY <2>15 DEF SaveReply, Save
      <4> HIDE DEF saved
      <4> QED BY <4>1, <4>2
    <3>3. /\ \A q : q # p => Replies(q)' = Replies(q)
          /\ \A q : Replies(q) # {} => Replies(q)' # {}
          /\ Replies(p)' # {}
      BY <3>2, RepliesGrow
    <3>4. p \notin billed BY <3>1 DEF SettleInv, SettlePart
    <3>5. SettlePart(p)'
      <4>1. cost[p] = 1 => grounded[p] BY <3>1 DEF SettleInv, SettlePart
      <4> QED BY <3>1, <3>3, <3>4, <4>1 DEF SettlePart, Costless, Unsaved
    <3>6. ASSUME NEW q \in Posts, q # p PROVE SettlePart(q)'
      BY <3>1, <3>3, <3>6 DEF SettleInv, SettlePart
    <3>7. SettledBeforeDone' BY <3>1, <3>3, <3>4 DEF SettleInv, SettledBeforeDone
    <3> QED BY <3>1, <3>5, <3>6, <3>7 DEF SettleInv
  <2>16. ASSUME NEW p \in Posts, EmitCitation(p) PROVE SettleInv'
    <3> USE DEF TypeOK, TaskTypeOK
    <3>1. /\ UNCHANGED <<log, settled, billed>>
          /\ \A q \in Posts \ {p} :
               pc'[q] = pc[q] /\ cost'[q] = cost[q] /\ grounded'[q] = grounded[q]
      BY <2>16 DEF EmitCitation
    <3>2. Replies(p)' = Replies(p) BY <3>1 DEF Replies
    <3>3. SettlePart(p) BY DEF SettleInv
    <3>4. SettlePart(p)' BY <2>16, <3>1, <3>2, <3>3 DEF EmitCitation, SettlePart, Costless, Unsaved
    <3>5. p \in billed => cost'[p] = cost[p] BY <2>16, <3>3 DEF EmitCitation, SettlePart
    <3>6. pc'[p] = "ended" => pc[p] = "done" /\ cost'[p] = cost[p]
      BY <2>16 DEF EmitCitation
    <3> QED BY <3>1, <3>4, <3>5, <3>6, SettleLocal
  <2>17. ASSUME NEW p \in Posts, RecordUsage(p) PROVE SettleInv'
    <3> USE DEF TypeOK, TaskTypeOK
    <3>1. /\ pc[p] = "record" /\ pc'[p] = "usage"
          /\ \A q \in Posts \ {p} : pc'[q] = pc[q]
          /\ UNCHANGED <<log, cost, grounded>>
          /\ settled' = settled + cost[p] /\ billed' = billed \cup {p}
      BY <2>17 DEF RecordUsage
    <3>2. cost[p] = 1 /\ p \notin billed /\ Replies(p) # {}
      BY <3>1 DEF SettleInv, SettlePart
    <3>3. \A q : Replies(q)' = Replies(q) BY <3>1 DEF Replies
    <3>4. IsFiniteSet(billed') /\ settled' = Cardinality(billed')
      <4>1. IsFiniteSet(billed) /\ settled = Cardinality(billed)
        BY DEF SettleInv, SettledBeforeDone
      <4>2. /\ IsFiniteSet(billed \cup {p})
            /\ Cardinality(billed \cup {p}) = Cardinality(billed) + 1
        BY <3>2, <4>1, FS_AddElement
      <4> QED BY <3>1, <3>2, <4>1, <4>2
    <3>5. \A q \in Posts : SettlePart(q)'
      BY <3>1, <3>2, <3>3 DEF SettleInv, SettlePart, Costless, Unsaved
    <3>6. SettledBeforeDone'
      BY <3>1, <3>2, <3>3, <3>4 DEF SettleInv, SettledBeforeDone
    <3> QED BY <3>4, <3>5, <3>6 DEF SettleInv
  <2>18. ASSUME NEW p \in Posts, EmitUsage(p) PROVE SettleInv'
    <3> USE DEF TypeOK, TaskTypeOK
    <3>1. /\ UNCHANGED <<log, settled, billed>>
          /\ \A q \in Posts \ {p} :
               pc'[q] = pc[q] /\ cost'[q] = cost[q] /\ grounded'[q] = grounded[q]
      BY <2>18 DEF EmitUsage
    <3>2. Replies(p)' = Replies(p) BY <3>1 DEF Replies
    <3>3. SettlePart(p) BY DEF SettleInv
    <3>4. SettlePart(p)' BY <2>18, <3>1, <3>2, <3>3 DEF EmitUsage, SettlePart, Costless, Unsaved
    <3>5. p \in billed => cost'[p] = cost[p] BY <2>18, <3>3 DEF EmitUsage, SettlePart
    <3>6. pc'[p] = "ended" => pc[p] = "done" /\ cost'[p] = cost[p]
      BY <2>18 DEF EmitUsage
    <3> QED BY <3>1, <3>4, <3>5, <3>6, SettleLocal
  <2>19. ASSUME NEW p \in Posts, EmitDone(p) PROVE SettleInv'
    <3> USE DEF TypeOK, TaskTypeOK
    <3>1. /\ UNCHANGED <<log, settled, billed>>
          /\ \A q \in Posts \ {p} :
               pc'[q] = pc[q] /\ cost'[q] = cost[q] /\ grounded'[q] = grounded[q]
      BY <2>19 DEF EmitDone
    <3>2. Replies(p)' = Replies(p) BY <3>1 DEF Replies
    <3>3. SettlePart(p) BY DEF SettleInv
    <3>4. SettlePart(p)' BY <2>19, <3>1, <3>2, <3>3 DEF EmitDone, SettlePart, Costless, Unsaved
    <3>5. p \in billed => cost'[p] = cost[p] BY <2>19, <3>3 DEF EmitDone, SettlePart
    <3>6. pc'[p] = "ended" => pc[p] = "done" /\ cost'[p] = cost[p]
      BY <2>19 DEF EmitDone
    <3> QED BY <3>1, <3>4, <3>5, <3>6, SettleLocal
  <2>20. ASSUME NEW p \in Posts, Raise(p) PROVE SettleInv'
    <3> USE DEF TypeOK, TaskTypeOK
    <3>1. /\ UNCHANGED <<log, settled, billed>>
          /\ \A q \in Posts \ {p} :
               pc'[q] = pc[q] /\ cost'[q] = cost[q] /\ grounded'[q] = grounded[q]
      BY <2>20 DEF Raise
    <3>2. Replies(p)' = Replies(p) BY <3>1 DEF Replies
    <3>3. SettlePart(p) BY DEF SettleInv
    <3>4. SettlePart(p)' BY <2>20, <3>1, <3>2, <3>3 DEF Raise, SettlePart, Costless, Unsaved, Over, Steps
    <3>5. p \in billed => cost'[p] = cost[p] BY <2>20, <3>3 DEF Raise, SettlePart
    <3>6. pc'[p] = "ended" => pc[p] = "done" /\ cost'[p] = cost[p]
      BY <2>20 DEF Raise
    <3> QED BY <3>1, <3>4, <3>5, <3>6, SettleLocal
  <2>21. ASSUME NEW p \in Posts, Cancel(p) PROVE SettleInv'
    BY <2>21, SettleQuiet DEF Cancel
  <2>22. ASSUME NEW p \in Posts, Follow(p) PROVE SettleInv'
    BY <2>22, SettleQuiet DEF Follow, Read
  <2>23. ASSUME NEW p \in Posts, Frame(p) PROVE SettleInv'
    BY <2>23, SettleQuiet DEF Frame
  <2>24. ASSUME NEW p \in Posts, Disconnect(p) PROVE SettleInv'
    BY <2>24, SettleQuiet DEF Disconnect, Read
  <2>25. ASSUME NEW p \in Posts, Resume(p) PROVE SettleInv'
    BY <2>25, SettleQuiet DEF Resume, Read
  <2>26. ASSUME NEW p \in Posts, ResumeFollow(p) PROVE SettleInv'
    BY <2>26, SettleQuiet DEF ResumeFollow, Read
  <2>27. ASSUME NEW p \in Posts, Expire(p) PROVE SettleInv'
    BY <2>27, SettleQuiet DEF Expire
  <2>28. CASE UNCHANGED vars BY <2>28, SettleQuiet DEF vars
  <2> QED
    BY StepCases, <2>1, <2>2, <2>3, <2>4, <2>5, <2>6, <2>7, <2>8, <2>9, <2>10, <2>11, <2>12, <2>13, <2>14, <2>15, <2>16, <2>17, <2>18, <2>19, <2>20, <2>21, <2>22, <2>23, <2>24, <2>25, <2>26, <2>27, <2>28
<1> QED BY <1>1, <1>2

\* The budget counts each stored reply that has a cost once, nothing else, and
\* has counted it when execute() ends.
THEOREM SettlementIsExact == Spec => []SettledBeforeDone
<1>1. Spec => []TypeOK BY ChatTypeCorrect
<1>2. Init => SettleInv BY SettleInductive
<1>3. TypeOK /\ SettleInv /\ [Next]_vars => SettleInv' BY SettleInductive
<1>4. SettleInv => SettledBeforeDone BY DEF SettleInv
<1> QED BY <1>1, <1>2, <1>3, <1>4, PTL DEF Spec

-----------------------------------------------------------------------------
(* SeenInv: what was sent, what is stored and what the done event says.     *)

\* Only the deltas of the buffer count, and each has a seq of its own.
LEMMA TokensEmitted ==
  ASSUME TypeOK, SeqInv, NEW p \in Posts, IsFiniteSet(Tokens(p)), NEW event,
         buffer' = [buffer EXCEPT ![p] = @ \cup {<<seq[p], event>>}],
         pc[p] \notin {"error", "raised"} \/ event # "token"
  PROVE  /\ IsFiniteSet(Tokens(p)')
         /\ Cardinality(Tokens(p)) \in Nat
         /\ event # "token" => Tokens(p)' = Tokens(p)
         /\ event = "token" => Cardinality(Tokens(p)') = Cardinality(Tokens(p)) + 1
<1> USE DEF TypeOK, StoreTypeOK, TaskTypeOK, Events
<1>1. buffer'[p] = buffer[p] \cup {<<seq[p], event>>} OBVIOUS
<1>2. Cardinality(Tokens(p)) \in Nat BY FS_CardinalityType
<1>3. CASE event # "token"
  <2>1. Tokens(p)' = Tokens(p) BY <1>1, <1>3 DEF Tokens
  <2> QED BY <1>2, <1>3, <2>1
<1>4. CASE event = "token"
  <2>1. PICK x : x = <<seq[p], "token">> OBVIOUS
  <2>2. x \notin Tokens(p)
    <3>1. ASSUME x \in buffer[p] PROVE FALSE
      <4>1. x[1] = seq[p] /\ seq[p] \in Nat BY <2>1
      <4>2. x[1] < seq[p] BY <1>4, <2>1, <3>1 DEF SeqInv, SeqPart, Uncounted
      <4> QED BY <4>1, <4>2
    <3> QED BY <3>1 DEF Tokens
  <2>3. Tokens(p)' = Tokens(p) \cup {x} BY <1>1, <1>4, <2>1 DEF Tokens
  <2>4. /\ IsFiniteSet(Tokens(p) \cup {x})
        /\ Cardinality(Tokens(p) \cup {x}) = Cardinality(Tokens(p)) + 1
    BY <2>2, FS_AddElement
  <2> QED BY <1>2, <1>4, <2>3, <2>4
<1> QED BY <1>3, <1>4

\* A task that has not ended has no done event, and what it appends comes last.
LEMMA ShownEmitted ==
  ASSUME TypeOK, SeqInv, NEW p \in Posts, ShownPart(p), NEW event, pc[p] \notin Over,
         buffer' = [buffer EXCEPT ![p] = @ \cup {<<seq[p], event>>}],
         UNCHANGED <<got, reading>>,
         event \in Statuses => pc'[p] \in {"ended", "replayed"}
  PROVE  ShownPart(p)'
<1> USE DEF TypeOK, StoreTypeOK, TaskTypeOK, Events
<1>1. buffer'[p] = buffer[p] \cup {<<seq[p], event>>} OBVIOUS
<1>2. \A e \in buffer[p] : e[2] \notin Statuses BY DEF ShownPart, Over
<1>3. \A e \in buffer[p] : e[1] \in Nat /\ e[1] <= seq[p]
  <2> TAKE e \in buffer[p]
  <2>1. e[1] \in Nat /\ seq[p] \in Nat OBVIOUS
  <2>2. e[1] < seq[p] \/ e[1] = seq[p] BY DEF SeqInv, SeqPart, Uncounted
  <2> QED BY <2>1, <2>2
<1>4. PICK x : x = <<seq[p], event>> OBVIOUS
<1>5. x[1] = seq[p] /\ x[2] = event BY <1>4
<1>6. buffer'[p] = buffer[p] \cup {x} BY <1>1, <1>4
<1>7. \A e, f \in buffer'[p] : e[2] \in Statuses => f[1] <= e[1]
  BY <1>2, <1>3, <1>5, <1>6
<1>8. (\E e \in buffer'[p] : e[2] \in Statuses) => pc'[p] \in {"ended", "replayed"}
  BY <1>2, <1>5, <1>6
<1>9. got'[p] \subseteq buffer'[p] BY <1>6 DEF ShownPart
<1>10. reading'[p] # "closed" BY DEF ShownPart, Over
<1> QED BY <1>7, <1>8, <1>9, <1>10 DEF ShownPart

\* A step of the task that appends nothing.
LEMMA ShownQuiet ==
  ASSUME NEW p \in Posts, ShownPart(p), UNCHANGED <<buffer, got, reading>>,
         pc[p] \notin Over \/ UNCHANGED pc
  PROVE  ShownPart(p)'
  BY DEF ShownPart, Over

\* What a client was told stays stored while other requests store theirs.
LEMMA KeptForOthers ==
  ASSUME TypeOK, NEW q \in Posts, NEW n, Kept(q, n), status'[q] = status[q],
         \/ log' = log
         \/ \E row \in Rows : /\ log' = Append(log, row)
                              /\ row.role = "user" \/ row.post # q
  PROVE  Kept(q, n)'
<1>1. CASE log' = log
  <2>1. Replies(q)' = Replies(q) BY <1>1 DEF Replies
  <2> QED BY <1>1, <2>1 DEF Kept
<1>2. ASSUME NEW row \in Rows, log' = Append(log, row), row.role = "user" \/ row.post # q
      PROVE  Kept(q, n)'
  <2>1. Replies(q)' = Replies(q) BY <1>2, RepliesGrow
  <2>2. \A k \in Replies(q) : log'[k] = log[k]
    BY <1>2, AppendFacts DEF Replies, TypeOK, StoreTypeOK
  <2> QED BY <2>1, <2>2 DEF Kept
<1> QED BY <1>1, <1>2

\* A step of p, its client or its buffer, leaves the other requests what they
\* were told.
LEMMA SeenLocal ==
  ASSUME TypeOK, SeenInv, NEW p \in Posts,
         \A q \in Posts \ {p} :
           /\ pc'[q] = pc[q] /\ text'[q] = text[q] /\ status'[q] = status[q]
           /\ buffer'[q] = buffer[q] /\ got'[q] = got[q] /\ reading'[q] = reading[q],
         \/ log' = log
         \/ \E row \in Rows : /\ log' = Append(log, row)
                              /\ row.role = "user" \/ row.post = p,
         ShownPart(p)', KeptPart(p)',
         reading'[p] = "closed" /\ pc'[p] = "ended" => Kept(p, Deltas(p))'
  PROVE  SeenInv'
<1>1. ASSUME NEW q \in Posts, q # p
      PROVE  /\ ShownPart(q)' /\ KeptPart(q)'
             /\ reading'[q] = "closed" /\ pc'[q] = "ended" => Kept(q, Deltas(q))'
  <2> USE <1>1
  <2>1. /\ pc'[q] = pc[q] /\ text'[q] = text[q] /\ status'[q] = status[q]
        /\ buffer'[q] = buffer[q] /\ got'[q] = got[q] /\ reading'[q] = reading[q]
    OBVIOUS
  <2>2. ShownPart(q) /\ KeptPart(q) BY DEF SeenInv
  <2>3. ShownPart(q)' BY <2>1, <2>2 DEF ShownPart
  <2>4. \/ log' = log
        \/ \E row \in Rows : /\ log' = Append(log, row)
                             /\ row.role = "user" \/ row.post # q
    OBVIOUS
  <2>5. ASSUME NEW n, Kept(q, n) PROVE Kept(q, n)'
    BY <2>1, <2>4, <2>5, KeptForOthers
  <2>6. Tokens(q)' = Tokens(q) /\ Deltas(q)' = Deltas(q) BY <2>1 DEF Tokens, Deltas
  <2>7. KeptPart(q)'
    <3>1. PICK n : n = Cardinality(Tokens(q)) OBVIOUS
    <3>2. Cardinality(Tokens(q)') = n BY <2>6, <3>1
    <3>3. Kept(q, n) => Kept(q, n)' BY <2>5
    <3> QED BY <2>1, <2>2, <2>6, <3>1, <3>2, <3>3 DEF KeptPart, Kept
  <2>8. reading'[q] = "closed" /\ pc'[q] = "ended" => Kept(q, Deltas(q))'
    <3>1. PICK n : n = Deltas(q) OBVIOUS
    <3>2. Deltas(q)' = n BY <2>6, <3>1
    <3>3. reading[q] = "closed" /\ pc[q] = "ended" => Kept(q, n)
      BY <3>1 DEF SeenInv, SeenIsStored
    <3>4. Kept(q, n) => Kept(q, n)' BY <2>5
    <3> QED BY <2>1, <3>2, <3>3, <3>4 DEF Kept
  <2> QED BY <2>3, <2>7, <2>8
<1> QED BY <1>1 DEF SeenInv, SeenIsStored

\* SeenInv holds initially and every step keeps it.
LEMMA SeenInductive ==
  /\ Init => SeenInv
  /\ TypeInv /\ SeqInv /\ SettleInv /\ SeenInv /\ [Next]_vars /\ SeqInv' => SeenInv'
<1>1. Init => SeenInv
  <2> SUFFICES ASSUME Init PROVE SeenInv OBVIOUS
  <2>1. \A p \in Posts : Tokens(p) = {} BY DEF Init, Tokens
  <2>2. IsFiniteSet({}) /\ Cardinality({}) = 0 BY FS_EmptySet
  <2> QED BY <2>1, <2>2 DEF Init, SeenInv, SeenIsStored, ShownPart, KeptPart
<1>2. ASSUME TypeInv, SeqInv, SettleInv, SeenInv, [Next]_vars, SeqInv' PROVE SeenInv'
  <2> USE <1>2 DEF storeVars, genVars, taskVars, readVars, Goto, Move, EmitThen
  <2>1. ASSUME NEW p \in Posts, Lookup(p) PROVE SeenInv'
    <3> USE DEF TypeInv, TypeOK, TaskTypeOK
    <3>1. /\ UNCHANGED <<log, buffer, got, reading>>
          /\ \A q \in Posts \ {p} :
               /\ pc'[q] = pc[q] /\ text'[q] = text[q] /\ status'[q] = status[q]
               /\ buffer'[q] = buffer[q] /\ got'[q] = got[q] /\ reading'[q] = reading[q]
      BY <2>1 DEF Lookup
    <3>2. ShownPart(p) /\ KeptPart(p) BY DEF SeenInv
    <3>3. ShownPart(p)' BY <2>1, <3>1, <3>2, ShownQuiet DEF Lookup, Over
    <3>4. Tokens(p)' = Tokens(p) /\ Replies(p)' = Replies(p) BY <3>1 DEF Tokens, Replies
    <3>5. KeptPart(p)' BY <2>1, <3>1, <3>2, <3>4 DEF Lookup, KeptPart, Kept
    <3>6. reading'[p] # "closed" \/ pc'[p] # "ended" BY <3>1, <3>2, <2>1 DEF ShownPart, Lookup
    <3> QED BY <3>1, <3>3, <3>5, <3>6, SeenLocal
  <2>2. ASSUME NEW p \in Posts, FindReply(p) PROVE SeenInv'
    <3> USE DEF TypeInv, TypeOK, TaskTypeOK
    <3>1. /\ UNCHANGED <<log, buffer, got, reading>>
          /\ \A q \in Posts \ {p} :
               /\ pc'[q] = pc[q] /\ text'[q] = text[q] /\ status'[q] = status[q]
               /\ buffer'[q] = buffer[q] /\ got'[q] = got[q] /\ reading'[q] = reading[q]
      BY <2>2 DEF FindReply
    <3>2. ShownPart(p) /\ KeptPart(p) BY DEF SeenInv
    <3>3. ShownPart(p)' BY <2>2, <3>1, <3>2, ShownQuiet DEF FindReply, Over
    <3>4. Tokens(p)' = Tokens(p) /\ Replies(p)' = Replies(p) BY <3>1 DEF Tokens, Replies
    <3>5. KeptPart(p)' BY <2>2, <3>1, <3>2, <3>4 DEF FindReply, KeptPart, Kept
    <3>6. reading'[p] # "closed" \/ pc'[p] # "ended" BY <3>1, <3>2, <2>2 DEF ShownPart, FindReply
    <3> QED BY <3>1, <3>3, <3>5, <3>6, SeenLocal
  <2>3. ASSUME NEW p \in Posts, Replay(p) PROVE SeenInv'
    <3> USE DEF TypeInv, TypeOK, TaskTypeOK
    <3> USE DEF StoreTypeOK
    <3>1. PICK event : event = ReplayEvents(p)[seq[p] + 1] OBVIOUS
    <3>2. /\ UNCHANGED <<log, got, reading>>
          /\ buffer' = [buffer EXCEPT ![p] = @ \cup {<<seq[p], event>>}]
          /\ pc[p] = "replay" /\ pc'[p] \in {"replay", "replayed"}
          /\ \A q \in Posts \ {p} :
               /\ pc'[q] = pc[q] /\ text'[q] = text[q] /\ status'[q] = status[q]
               /\ buffer'[q] = buffer[q] /\ got'[q] = got[q] /\ reading'[q] = reading[q]
      BY <2>3, <3>1 DEF Replay, Emit
    <3>3. event # "failure" /\ (event \in Statuses => pc'[p] = "replayed")
      <4>1. CASE grounded[p]
        <5>1. ReplayEvents(p) = <<"meta", "token", "citation", "usage", "complete">>
          BY <4>1 DEF ReplayEvents
        <5>2. Len(ReplayEvents(p)) = 5 BY <5>1
        <5>3. seq[p] \in Nat /\ seq[p] < 5 BY <3>2, <5>2 DEF ReplayInv
        <5> QED BY <2>3, <3>1, <5>1, <5>2, <5>3 DEF Replay, Statuses
      <4>2. CASE ~grounded[p]
        <5>1. ReplayEvents(p) = <<"meta", "token", "usage", "complete">>
          BY <4>2 DEF ReplayEvents
        <5>2. Len(ReplayEvents(p)) = 4 BY <5>1
        <5>3. seq[p] \in Nat /\ seq[p] < 4 BY <3>2, <5>2 DEF ReplayInv
        <5> QED BY <2>3, <3>1, <5>1, <5>2, <5>3 DEF Replay, Statuses
      <4> QED BY <4>1, <4>2
    <3>4. ShownPart(p) /\ KeptPart(p) BY DEF SeenInv
    <3>5. ShownPart(p)' BY <3>2, <3>3, <3>4, ShownEmitted DEF Over
    <3>6. IsFiniteSet(Tokens(p)) BY <3>4 DEF KeptPart
    <3>7. IsFiniteSet(Tokens(p)') BY <3>2, <3>6, TokensEmitted
    <3>8. \A e \in buffer'[p] : e[2] = "failure" => e \in buffer[p] BY <3>2, <3>3
    <3>9. (\E e \in buffer'[p] : e[2] = "failure") => status'[p] # "complete"
      BY <2>3, <3>4, <3>8 DEF KeptPart, Replay
    <3>10. KeptPart(p)' BY <3>2, <3>7, <3>9 DEF KeptPart
    <3> QED BY <3>2, <3>5, <3>10, SeenLocal
  <2>4. ASSUME NEW p \in Posts, Admit(p) PROVE SeenInv'
    <3> USE DEF TypeInv, TypeOK, TaskTypeOK
    <3>1. /\ UNCHANGED <<log, buffer, got, reading>>
          /\ \A q \in Posts \ {p} :
               /\ pc'[q] = pc[q] /\ text'[q] = text[q] /\ status'[q] = status[q]
               /\ buffer'[q] = buffer[q] /\ got'[q] = got[q] /\ reading'[q] = reading[q]
      BY <2>4 DEF Admit
    <3>2. ShownPart(p) /\ KeptPart(p) BY DEF SeenInv
    <3>3. ShownPart(p)' BY <2>4, <3>1, <3>2, ShownQuiet DEF Admit, Over
    <3>4. Tokens(p)' = Tokens(p) /\ Replies(p)' = Replies(p) BY <3>1 DEF Tokens, Replies
    <3>5. KeptPart(p)' BY <2>4, <3>1, <3>2, <3>4 DEF Admit, KeptPart, Kept
    <3>6. reading'[p] # "closed" \/ pc'[p] # "ended" BY <3>1, <3>2, <2>4 DEF ShownPart, Admit
    <3> QED BY <3>1, <3>3, <3>5, <3>6, SeenLocal
  <2>5. ASSUME NEW p \in Posts, PersistUser(p) PROVE SeenInv'
    <3> USE DEF TypeInv, TypeOK, TaskTypeOK
    <3>1. /\ UNCHANGED <<text, status, buffer, got, reading>>
          /\ pc[p] = "persist" /\ pc'[p] \in {"meta", "raised"}
          /\ \A q \in Posts \ {p} : pc'[q] = pc[q]
      BY <2>5 DEF PersistUser
    <3>2. log' = log \/ \E row \in Rows : log' = Append(log, row) /\ row.role = "user"
      <4>1. PICK row : row = Row(p, "user", 0, "complete", FALSE) OBVIOUS
      <4>2. row \in Rows /\ row.role = "user" BY <4>1 DEF Row, Rows, Statuses
      <4> QED BY <2>5, <4>1, <4>2 DEF PersistUser
    <3>3. ShownPart(p) /\ KeptPart(p) BY DEF SeenInv
    <3>4. ShownPart(p)' BY <3>1, <3>3, ShownQuiet DEF Over
    <3>5. Tokens(p)' = Tokens(p) BY <3>1 DEF Tokens
    <3>6. KeptPart(p)' BY <3>1, <3>3, <3>5 DEF KeptPart
    <3> QED BY <3>1, <3>2, <3>4, <3>6, SeenLocal
  <2>6. ASSUME NEW p \in Posts, EmitMeta(p) PROVE SeenInv'
    <3> USE DEF TypeInv, TypeOK, TaskTypeOK
    <3> USE DEF StoreTypeOK
    <3>1. /\ UNCHANGED <<log, got, reading>>
          /\ buffer' = [buffer EXCEPT ![p] = @ \cup {<<seq[p], "meta">>}]
          /\ \A q \in Posts \ {p} :
               /\ pc'[q] = pc[q] /\ text'[q] = text[q] /\ status'[q] = status[q]
               /\ buffer'[q] = buffer[q] /\ got'[q] = got[q] /\ reading'[q] = reading[q]
      BY <2>6 DEF EmitMeta, Emit
    <3>2. ShownPart(p) /\ KeptPart(p) BY DEF SeenInv
    <3>3. ShownPart(p)' BY <2>6, <3>1, <3>2, ShownEmitted DEF EmitMeta, Over, Statuses
    <3>4. IsFiniteSet(Tokens(p)) BY <3>2 DEF KeptPart
    <3>5. IsFiniteSet(Tokens(p)') /\ Cardinality(Tokens(p)) \in Nat /\ Tokens(p)' = Tokens(p)
      <4>1. PICK event : event = "meta" OBVIOUS
      <4>2. event # "token" BY <2>6, <4>1 DEF EmitMeta
      <4> QED BY <3>1, <3>4, <4>1, <4>2, TokensEmitted
    <3>6. Replies(p)' = Replies(p) BY <3>1 DEF Replies
    <3>7. KeptPart(p)' BY <2>6, <3>1, <3>2, <3>5, <3>6 DEF EmitMeta, KeptPart, Kept
    <3>8. reading'[p] # "closed" BY <2>6, <3>1, <3>2 DEF ShownPart, EmitMeta
    <3> QED BY <3>1, <3>3, <3>7, <3>8, SeenLocal
  <2>7. ASSUME NEW p \in Posts, EmitRefusal(p) PROVE SeenInv'
    <3> USE DEF TypeInv, TypeOK, TaskTypeOK
    <3> USE DEF StoreTypeOK
    <3>1. /\ UNCHANGED <<log, got, reading>>
          /\ buffer' = [buffer EXCEPT ![p] = @ \cup {<<seq[p], "token">>}]
          /\ \A q \in Posts \ {p} :
               /\ pc'[q] = pc[q] /\ text'[q] = text[q] /\ status'[q] = status[q]
               /\ buffer'[q] = buffer[q] /\ got'[q] = got[q] /\ reading'[q] = reading[q]
      BY <2>7 DEF EmitRefusal, Emit
    <3>2. ShownPart(p) /\ KeptPart(p) BY DEF SeenInv
    <3>3. ShownPart(p)' BY <2>7, <3>1, <3>2, ShownEmitted DEF EmitRefusal, Over, Statuses
    <3>4. IsFiniteSet(Tokens(p)) BY <3>2 DEF KeptPart
    <3>5. /\ IsFiniteSet(Tokens(p)') /\ Cardinality(Tokens(p)) \in Nat
          /\ Cardinality(Tokens(p)') = Cardinality(Tokens(p)) + 1
      <4>1. PICK event : event = "token" OBVIOUS
      <4>2. pc[p] \notin {"error", "raised"} BY <2>7, <4>1 DEF EmitRefusal
      <4> QED BY <3>1, <3>4, <4>1, <4>2, TokensEmitted
    <3>6. Replies(p)' = Replies(p) BY <3>1 DEF Replies
    <3>7. KeptPart(p)' BY <2>7, <3>1, <3>2, <3>5, <3>6 DEF EmitRefusal, KeptPart, Kept
    <3>8. reading'[p] # "closed" BY <2>7, <3>1, <3>2 DEF ShownPart, EmitRefusal
    <3> QED BY <3>1, <3>3, <3>7, <3>8, SeenLocal
  <2>8. ASSUME NEW p \in Posts, Subscribe(p) PROVE SeenInv'
    <3> USE DEF TypeInv, TypeOK, TaskTypeOK
    <3>1. /\ UNCHANGED <<log, buffer, got, reading>>
          /\ \A q \in Posts \ {p} :
               /\ pc'[q] = pc[q] /\ text'[q] = text[q] /\ status'[q] = status[q]
               /\ buffer'[q] = buffer[q] /\ got'[q] = got[q] /\ reading'[q] = reading[q]
      BY <2>8 DEF Subscribe
    <3>2. ShownPart(p) /\ KeptPart(p) BY DEF SeenInv
    <3>3. ShownPart(p)' BY <2>8, <3>1, <3>2, ShownQuiet DEF Subscribe, Over
    <3>4. Tokens(p)' = Tokens(p) /\ Replies(p)' = Replies(p) BY <3>1 DEF Tokens, Replies
    <3>5. KeptPart(p)' BY <2>8, <3>1, <3>2, <3>4 DEF Subscribe, KeptPart, Kept
    <3>6. reading'[p] # "closed" \/ pc'[p] # "ended" BY <3>1, <3>2, <2>8 DEF ShownPart, Subscribe
    <3> QED BY <3>1, <3>3, <3>5, <3>6, SeenLocal
  <2>9. ASSUME NEW p \in Posts, EmitToken(p) PROVE SeenInv'
    <3> USE DEF TypeInv, TypeOK, TaskTypeOK
    <3> USE DEF StoreTypeOK
    <3>1. /\ UNCHANGED <<log, got, reading>>
          /\ buffer' = [buffer EXCEPT ![p] = @ \cup {<<seq[p], "token">>}]
          /\ \A q \in Posts \ {p} :
               /\ pc'[q] = pc[q] /\ text'[q] = text[q] /\ status'[q] = status[q]
               /\ buffer'[q] = buffer[q] /\ got'[q] = got[q] /\ reading'[q] = reading[q]
      BY <2>9 DEF EmitToken, Emit
    <3>2. ShownPart(p) /\ KeptPart(p) BY DEF SeenInv
    <3>3. ShownPart(p)' BY <2>9, <3>1, <3>2, ShownEmitted DEF EmitToken, Over, Statuses
    <3>4. IsFiniteSet(Tokens(p)) BY <3>2 DEF KeptPart
    <3>5. /\ IsFiniteSet(Tokens(p)') /\ Cardinality(Tokens(p)) \in Nat
          /\ Cardinality(Tokens(p)') = Cardinality(Tokens(p)) + 1
      <4>1. PICK event : event = "token" OBVIOUS
      <4>2. pc[p] \notin {"error", "raised"} BY <2>9, <4>1 DEF EmitToken
      <4> QED BY <3>1, <3>4, <4>1, <4>2, TokensEmitted
    <3>6. Replies(p)' = Replies(p) BY <3>1 DEF Replies
    <3>7. KeptPart(p)' BY <2>9, <3>1, <3>2, <3>5, <3>6 DEF EmitToken, KeptPart, Kept
    <3>8. reading'[p] # "closed" BY <2>9, <3>1, <3>2 DEF ShownPart, EmitToken
    <3> QED BY <3>1, <3>3, <3>7, <3>8, SeenLocal
  <2>10. ASSUME NEW p \in Posts, TakeUsage(p) PROVE SeenInv'
    <3> USE DEF TypeInv, TypeOK, TaskTypeOK
    <3>1. /\ UNCHANGED <<log, buffer, got, reading>>
          /\ \A q \in Posts \ {p} :
               /\ pc'[q] = pc[q] /\ text'[q] = text[q] /\ status'[q] = status[q]
               /\ buffer'[q] = buffer[q] /\ got'[q] = got[q] /\ reading'[q] = reading[q]
      BY <2>10 DEF TakeUsage
    <3>2. ShownPart(p) /\ KeptPart(p) BY DEF SeenInv
    <3>3. ShownPart(p)' BY <2>10, <3>1, <3>2, ShownQuiet DEF TakeUsage, Over
    <3>4. Tokens(p)' = Tokens(p) /\ Replies(p)' = Replies(p) BY <3>1 DEF Tokens, Replies
    <3>5. KeptPart(p)' BY <2>10, <3>1, <3>2, <3>4 DEF TakeUsage, KeptPart, Kept
    <3>6. reading'[p] # "closed" \/ pc'[p] # "ended" BY <3>1, <3>2, <2>10 DEF ShownPart, TakeUsage
    <3> QED BY <3>1, <3>3, <3>5, <3>6, SeenLocal
  <2>11. ASSUME NEW p \in Posts, StopCancelled(p) PROVE SeenInv'
    <3> USE DEF TypeInv, TypeOK, TaskTypeOK
    <3>1. /\ UNCHANGED <<log, text, buffer, got, reading>>
          /\ pc[p] = "generate" /\ status'[p] = "cancelled"
          /\ pc'[p] = IF text[p] = 0 THEN "usage" ELSE "save"
          /\ \A q \in Posts \ {p} :
               /\ pc'[q] = pc[q] /\ text'[q] = text[q] /\ status'[q] = status[q]
               /\ buffer'[q] = buffer[q] /\ got'[q] = got[q] /\ reading'[q] = reading[q]
      BY <2>11 DEF StopCancelled, AfterGeneration
    <3>2. ShownPart(p) /\ KeptPart(p) BY DEF SeenInv
    <3>3. ShownPart(p)' BY <3>1, <3>2, ShownQuiet DEF Over
    <3>4. Tokens(p)' = Tokens(p) /\ Replies(p)' = Replies(p) BY <3>1 DEF Tokens, Replies
    <3>5. Replies(p) = {} BY <3>1 DEF SettleInv, SettlePart, Unsaved
    <3>6. text[p] = Cardinality(Tokens(p)) BY <3>1, <3>2 DEF KeptPart
    <3>7. KeptPart(p)' BY <3>1, <3>2, <3>4, <3>5, <3>6 DEF KeptPart, Kept
    <3>8. reading'[p] # "closed" BY <3>1, <3>2 DEF ShownPart
    <3> QED BY <3>1, <3>3, <3>7, <3>8, SeenLocal
  <2>12. ASSUME NEW p \in Posts, Exhausted(p) PROVE SeenInv'
    <3> USE DEF TypeInv, TypeOK, TaskTypeOK
    <3>1. /\ UNCHANGED <<log, buffer, got, reading>>
          /\ \A q \in Posts \ {p} :
               /\ pc'[q] = pc[q] /\ text'[q] = text[q] /\ status'[q] = status[q]
               /\ buffer'[q] = buffer[q] /\ got'[q] = got[q] /\ reading'[q] = reading[q]
      BY <2>12 DEF Exhausted
    <3>2. ShownPart(p) /\ KeptPart(p) BY DEF SeenInv
    <3>3. ShownPart(p)' BY <2>12, <3>1, <3>2, ShownQuiet DEF Exhausted, Over
    <3>4. Tokens(p)' = Tokens(p) /\ Replies(p)' = Replies(p) BY <3>1 DEF Tokens, Replies
    <3>5. KeptPart(p)' BY <2>12, <3>1, <3>2, <3>4 DEF Exhausted, KeptPart, Kept
    <3>6. reading'[p] # "closed" \/ pc'[p] # "ended" BY <3>1, <3>2, <2>12 DEF ShownPart, Exhausted
    <3> QED BY <3>1, <3>3, <3>5, <3>6, SeenLocal
  <2>13. ASSUME NEW p \in Posts, GenerationFails(p) PROVE SeenInv'
    <3> USE DEF TypeInv, TypeOK, TaskTypeOK
    <3> USE DEF StoreTypeOK
    <3>1. /\ UNCHANGED <<log, got, reading>>
          /\ pc[p] = "generate" /\ pc'[p] = "error"
          /\ status'[p] = IF text'[p] > 0 THEN "partial" ELSE "error"
          /\ \A q \in Posts \ {p} :
               /\ pc'[q] = pc[q] /\ text'[q] = text[q] /\ status'[q] = status[q]
               /\ buffer'[q] = buffer[q] /\ got'[q] = got[q] /\ reading'[q] = reading[q]
      BY <2>13 DEF GenerationFails
    <3>2. ShownPart(p) /\ KeptPart(p) BY DEF SeenInv
    <3>3. /\ IsFiniteSet(Tokens(p)) /\ Cardinality(Tokens(p)) \in Nat
          /\ text[p] = Cardinality(Tokens(p))
      BY <3>1, <3>2, FS_CardinalityType DEF KeptPart
    <3>4. CASE buffer' = buffer
      <4>1. ShownPart(p)' BY <3>1, <3>2, <3>4, ShownQuiet DEF Over
      <4>2. Tokens(p)' = Tokens(p) BY <3>4 DEF Tokens
      <4>3. text'[p] \in {text[p], text[p] + 1} BY <2>13 DEF GenerationFails
      <4>4. KeptPart(p)' BY <3>1, <3>3, <4>2, <4>3 DEF KeptPart
      <4> QED BY <3>1, <3>2, <4>1, <4>4, SeenLocal DEF ShownPart
    <3>5. CASE /\ buffer' = [buffer EXCEPT ![p] = @ \cup {<<seq[p], "token">>}]
               /\ text' = [text EXCEPT ![p] = @ + 1]
      <4>1. ShownPart(p)' BY <3>1, <3>2, <3>5, ShownEmitted DEF Over, Statuses
      <4>2. /\ IsFiniteSet(Tokens(p)')
            /\ Cardinality(Tokens(p)') = Cardinality(Tokens(p)) + 1
        BY <3>1, <3>3, <3>5, TokensEmitted
      <4>3. KeptPart(p)' BY <3>1, <3>3, <3>5, <4>2 DEF KeptPart
      <4> QED BY <3>1, <3>2, <4>1, <4>3, SeenLocal DEF ShownPart
    <3> QED BY <2>13, <3>4, <3>5 DEF GenerationFails
  <2>14. ASSUME NEW p \in Posts, EmitError(p) PROVE SeenInv'
    <3> USE DEF TypeInv, TypeOK, TaskTypeOK
    <3> USE DEF StoreTypeOK
    <3>1. /\ UNCHANGED <<log, text, status, got, reading>>
          /\ buffer' = [buffer EXCEPT ![p] = @ \cup {<<seq[p], "failure">>}]
          /\ pc[p] = "error"
          /\ pc'[p] = IF text[p] = 0 /\ status[p] \in {"cancelled", "error"}
                    THEN "usage" ELSE "save"
          /\ \A q \in Posts \ {p} :
               /\ pc'[q] = pc[q] /\ text'[q] = text[q] /\ status'[q] = status[q]
               /\ buffer'[q] = buffer[q] /\ got'[q] = got[q] /\ reading'[q] = reading[q]
      BY <2>14 DEF EmitError, AfterGeneration, Emit
    <3>2. ShownPart(p) /\ KeptPart(p) BY DEF SeenInv
    <3>3. ShownPart(p)' BY <3>1, <3>2, ShownEmitted DEF Over, Statuses
    <3>4. IsFiniteSet(Tokens(p)) BY <3>2 DEF KeptPart
    <3>5. IsFiniteSet(Tokens(p)') /\ Cardinality(Tokens(p)) \in Nat /\ Tokens(p)' = Tokens(p)
      <4>1. PICK event : event = "failure" OBVIOUS
      <4>2. event # "token" BY <4>1
      <4> QED BY <3>1, <3>4, <4>1, <4>2, TokensEmitted
    <3>6. Replies(p)' = Replies(p) BY <3>1 DEF Replies
    <3>7. Replies(p) = {} BY <3>1 DEF SettleInv, SettlePart, Unsaved
    <3>8. /\ Cardinality(Tokens(p)) <= text[p]
          /\ status[p] = IF text[p] > 0 THEN "partial" ELSE "error"
      BY <3>1, <3>2 DEF KeptPart
    <3>9. KeptPart(p)' BY <3>1, <3>2, <3>5, <3>6, <3>7, <3>8 DEF KeptPart, Kept
    <3>10. reading'[p] # "closed" BY <3>1, <3>2 DEF ShownPart
    <3> QED BY <3>1, <3>3, <3>9, <3>10, SeenLocal
  <2>15. ASSUME NEW p \in Posts, SaveReply(p) PROVE SeenInv'
    <3> USE DEF TypeInv, TypeOK, TaskTypeOK
    <3>1. /\ UNCHANGED <<text, status, buffer, got, reading>>
          /\ pc[p] = "save" /\ pc'[p] \in {"cite", "usage"}
          /\ \A q \in Posts \ {p} : pc'[q] = pc[q]
      BY <2>15 DEF SaveReply, Save
    <3>2. PICK row \in Rows : /\ log' = Append(log, row)
                             /\ row.role = "assistant" /\ row.post = p
                             /\ row.size = text[p] /\ row.status = SavedAs(status[p])
      <4> DEFINE saved == Row(p, "assistant", text[p], SavedAs(status[p]), grounded[p])
      <4>1. /\ saved \in Rows /\ saved.role = "assistant" /\ saved.post = p
            /\ saved.size = text[p] /\ saved.status = SavedAs(status[p])
        BY DEF Row, Rows, Statuses, SavedAs
      <4>2. log' = Append(log, saved) BY <2>15 DEF SaveReply, Save
      <4> HIDE DEF saved
      <4> QED BY <4>1, <4>2
    <3>3. ShownPart(p) /\ KeptPart(p) BY DEF SeenInv
    <3>4. ShownPart(p)' BY <3>1, <3>3, ShownQuiet DEF Over
    <3>5. Tokens(p)' = Tokens(p) BY <3>1 DEF Tokens
    <3>6. PICK k : k = Len(log) + 1 OBVIOUS
    <3>7. k \in DOMAIN log' /\ log'[k] = row
      BY <3>2, <3>6, AppendFacts DEF StoreTypeOK
    <3>8. k \in Replies(p)' BY <3>2, <3>7 DEF Replies
    <3>9. Cardinality(Tokens(p)) \in Nat BY <3>3, FS_CardinalityType DEF KeptPart
    <3>10. KeptPart(p)' BY <3>1, <3>2, <3>3, <3>5, <3>7, <3>8, <3>9 DEF KeptPart, Kept
    <3>11. reading'[p] # "closed" BY <3>1, <3>3 DEF ShownPart
    <3> QED BY <3>1, <3>2, <3>4, <3>10, <3>11, SeenLocal
  <2>16. ASSUME NEW p \in Posts, EmitCitation(p) PROVE SeenInv'
    <3> USE DEF TypeInv, TypeOK, TaskTypeOK
    <3> USE DEF StoreTypeOK
    <3>1. /\ UNCHANGED <<log, got, reading>>
          /\ buffer' = [buffer EXCEPT ![p] = @ \cup {<<seq[p], "citation">>}]
          /\ \A q \in Posts \ {p} :
               /\ pc'[q] = pc[q] /\ text'[q] = text[q] /\ status'[q] = status[q]
               /\ buffer'[q] = buffer[q] /\ got'[q] = got[q] /\ reading'[q] = reading[q]
      BY <2>16 DEF EmitCitation, Emit
    <3>2. ShownPart(p) /\ KeptPart(p) BY DEF SeenInv
    <3>3. ShownPart(p)' BY <2>16, <3>1, <3>2, ShownEmitted DEF EmitCitation, Over, Statuses
    <3>4. IsFiniteSet(Tokens(p)) BY <3>2 DEF KeptPart
    <3>5. IsFiniteSet(Tokens(p)') /\ Cardinality(Tokens(p)) \in Nat /\ Tokens(p)' = Tokens(p)
      <4>1. PICK event : event = "citation" OBVIOUS
      <4>2. event # "token" BY <2>16, <4>1 DEF EmitCitation
      <4> QED BY <3>1, <3>4, <4>1, <4>2, TokensEmitted
    <3>6. Replies(p)' = Replies(p) BY <3>1 DEF Replies
    <3>7. KeptPart(p)' BY <2>16, <3>1, <3>2, <3>5, <3>6 DEF EmitCitation, KeptPart, Kept
    <3>8. reading'[p] # "closed" BY <2>16, <3>1, <3>2 DEF ShownPart, EmitCitation
    <3> QED BY <3>1, <3>3, <3>7, <3>8, SeenLocal
  <2>17. ASSUME NEW p \in Posts, RecordUsage(p) PROVE SeenInv'
    <3> USE DEF TypeInv, TypeOK, TaskTypeOK
    <3>1. /\ UNCHANGED <<log, buffer, got, reading>>
          /\ \A q \in Posts \ {p} :
               /\ pc'[q] = pc[q] /\ text'[q] = text[q] /\ status'[q] = status[q]
               /\ buffer'[q] = buffer[q] /\ got'[q] = got[q] /\ reading'[q] = reading[q]
      BY <2>17 DEF RecordUsage
    <3>2. ShownPart(p) /\ KeptPart(p) BY DEF SeenInv
    <3>3. ShownPart(p)' BY <2>17, <3>1, <3>2, ShownQuiet DEF RecordUsage, Over
    <3>4. Tokens(p)' = Tokens(p) /\ Replies(p)' = Replies(p) BY <3>1 DEF Tokens, Replies
    <3>5. KeptPart(p)' BY <2>17, <3>1, <3>2, <3>4 DEF RecordUsage, KeptPart, Kept
    <3>6. reading'[p] # "closed" \/ pc'[p] # "ended" BY <3>1, <3>2, <2>17 DEF ShownPart, RecordUsage
    <3> QED BY <3>1, <3>3, <3>5, <3>6, SeenLocal
  <2>18. ASSUME NEW p \in Posts, EmitUsage(p) PROVE SeenInv'
    <3> USE DEF TypeInv, TypeOK, TaskTypeOK
    <3> USE DEF StoreTypeOK
    <3>1. /\ UNCHANGED <<log, got, reading>>
          /\ buffer' = [buffer EXCEPT ![p] = @ \cup {<<seq[p], "usage">>}]
          /\ \A q \in Posts \ {p} :
               /\ pc'[q] = pc[q] /\ text'[q] = text[q] /\ status'[q] = status[q]
               /\ buffer'[q] = buffer[q] /\ got'[q] = got[q] /\ reading'[q] = reading[q]
      BY <2>18 DEF EmitUsage, Emit
    <3>2. ShownPart(p) /\ KeptPart(p) BY DEF SeenInv
    <3>3. ShownPart(p)' BY <2>18, <3>1, <3>2, ShownEmitted DEF EmitUsage, Over, Statuses
    <3>4. IsFiniteSet(Tokens(p)) BY <3>2 DEF KeptPart
    <3>5. IsFiniteSet(Tokens(p)') /\ Cardinality(Tokens(p)) \in Nat /\ Tokens(p)' = Tokens(p)
      <4>1. PICK event : event = "usage" OBVIOUS
      <4>2. event # "token" BY <2>18, <4>1 DEF EmitUsage
      <4> QED BY <3>1, <3>4, <4>1, <4>2, TokensEmitted
    <3>6. Replies(p)' = Replies(p) BY <3>1 DEF Replies
    <3>7. KeptPart(p)' BY <2>18, <3>1, <3>2, <3>5, <3>6 DEF EmitUsage, KeptPart, Kept
    <3>8. reading'[p] # "closed" BY <2>18, <3>1, <3>2 DEF ShownPart, EmitUsage
    <3> QED BY <3>1, <3>3, <3>7, <3>8, SeenLocal
  <2>19. ASSUME NEW p \in Posts, EmitDone(p) PROVE SeenInv'
    <3> USE DEF TypeInv, TypeOK, TaskTypeOK
    <3> USE DEF StoreTypeOK
    <3>1. /\ UNCHANGED <<log, text, status, got, reading>>
          /\ buffer' = [buffer EXCEPT ![p] = @ \cup {<<seq[p], status[p]>>}]
          /\ pc[p] = "done" /\ pc'[p] = "ended"
          /\ \A q \in Posts \ {p} :
               /\ pc'[q] = pc[q] /\ text'[q] = text[q] /\ status'[q] = status[q]
               /\ buffer'[q] = buffer[q] /\ got'[q] = got[q] /\ reading'[q] = reading[q]
      BY <2>19 DEF EmitDone, Emit
    <3>2. ShownPart(p) /\ KeptPart(p) BY DEF SeenInv
    <3>3. ShownPart(p)' BY <3>1, <3>2, ShownEmitted DEF Over
    <3>4. IsFiniteSet(Tokens(p)) BY <3>2 DEF KeptPart
    <3>5. PICK event : event = status[p] OBVIOUS
    <3>6. event # "token" BY <3>5 DEF Statuses
    <3>7. Tokens(p)' = Tokens(p) BY <3>1, <3>4, <3>5, <3>6, TokensEmitted
    <3>8. Replies(p)' = Replies(p) BY <3>1 DEF Replies
    <3>9. KeptPart(p)' BY <3>1, <3>2, <3>4, <3>7, <3>8 DEF KeptPart, Kept
    <3>10. reading'[p] # "closed" BY <3>1, <3>2 DEF ShownPart
    <3> QED BY <3>1, <3>3, <3>9, <3>10, SeenLocal
  <2>20. ASSUME NEW p \in Posts, Raise(p) PROVE SeenInv'
    <3> USE DEF TypeInv, TypeOK, TaskTypeOK
    <3>1. /\ UNCHANGED <<log, buffer, got, reading>>
          /\ \A q \in Posts \ {p} :
               /\ pc'[q] = pc[q] /\ text'[q] = text[q] /\ status'[q] = status[q]
               /\ buffer'[q] = buffer[q] /\ got'[q] = got[q] /\ reading'[q] = reading[q]
      BY <2>20 DEF Raise
    <3>2. ShownPart(p) /\ KeptPart(p) BY DEF SeenInv
    <3>3. ShownPart(p)' BY <2>20, <3>1, <3>2, ShownQuiet DEF Raise, Over
    <3>4. Tokens(p)' = Tokens(p) /\ Replies(p)' = Replies(p) BY <3>1 DEF Tokens, Replies
    <3>5. KeptPart(p)' BY <2>20, <3>1, <3>2, <3>4 DEF Raise, KeptPart, Kept, Over
    <3>6. reading'[p] # "closed" \/ pc'[p] # "ended" BY <3>1, <3>2, <2>20 DEF ShownPart, Raise, Over
    <3> QED BY <3>1, <3>3, <3>5, <3>6, SeenLocal
  <2>21. ASSUME NEW p \in Posts, Cancel(p) PROVE SeenInv'
    <3> USE DEF TypeInv, TypeOK, TaskTypeOK
    <3>1. /\ UNCHANGED <<log, buffer, got, reading>>
          /\ \A q \in Posts \ {p} :
               /\ pc'[q] = pc[q] /\ text'[q] = text[q] /\ status'[q] = status[q]
               /\ buffer'[q] = buffer[q] /\ got'[q] = got[q] /\ reading'[q] = reading[q]
      BY <2>21 DEF Cancel
    <3>2. ShownPart(p) /\ KeptPart(p) BY DEF SeenInv
    <3>3. ShownPart(p)' BY <2>21, <3>1, <3>2, ShownQuiet DEF Cancel, Over
    <3>4. Tokens(p)' = Tokens(p) /\ Replies(p)' = Replies(p) BY <3>1 DEF Tokens, Replies
    <3>5. KeptPart(p)' BY <2>21, <3>1, <3>2, <3>4 DEF Cancel, KeptPart, Kept
    <3>6. reading'[p] # "closed" \/ pc'[p] # "ended" BY <3>1, <3>2, <2>21 DEF ShownPart, Cancel
    <3> QED BY <3>1, <3>3, <3>5, <3>6, SeenLocal
  <2>22. ASSUME NEW p \in Posts, Follow(p) PROVE SeenInv'
    <3> USE DEF TypeInv, TypeOK, TaskTypeOK
    <3>1. /\ UNCHANGED <<log, pc, text, status, buffer, got>>
          /\ reading' = [reading EXCEPT ![p] = reading'[p]]
          /\ reading'[p] # "closed"
      BY <2>22 DEF Follow, Read, ReadTypeOK
    <3>2. ShownPart(p) /\ KeptPart(p) BY DEF SeenInv
    <3>3. ShownPart(p)' BY <3>1, <3>2 DEF ShownPart
    <3>4. Tokens(p)' = Tokens(p) /\ Replies(p)' = Replies(p) BY <3>1 DEF Tokens, Replies
    <3>5. KeptPart(p)' BY <3>1, <3>2, <3>4 DEF KeptPart, Kept
    <3>6. \A q \in Posts \ {p} : reading'[q] = reading[q] BY <3>1 DEF ReadTypeOK
    <3> QED BY <3>1, <3>3, <3>5, <3>6, SeenLocal
  <2>23. ASSUME NEW p \in Posts, Frame(p) PROVE SeenInv'
    <3> USE DEF TypeInv, TypeOK, TaskTypeOK
    <3> USE DEF StoreTypeOK, ReadTypeOK
    <3>1. PICK e \in Ahead(p) \cup batch[p] :
            /\ cursor' = [cursor EXCEPT ![p] = e[1]]
            /\ got' = [got EXCEPT ![p] = @ \cup {e}]
            /\ \/ e[2] \in Statuses /\ reading' = [reading EXCEPT ![p] = "closed"]
               \/ reading[p] = "following" /\ UNCHANGED reading
      BY <2>23 DEF Frame
    <3>2. UNCHANGED <<log, pc, text, status, buffer>> BY <2>23 DEF Frame
    <3>3. ShownPart(p) /\ KeptPart(p) /\ SeqPart(p) BY DEF SeenInv, SeqInv
    <3>4. e \in buffer[p] BY <3>1, <3>3 DEF Ahead, SeqPart
    <3>5. /\ got'[p] = got[p] \cup {e} /\ cursor'[p] = e[1]
          /\ got'[p] \subseteq buffer'[p]
      BY <3>1, <3>2, <3>3, <3>4 DEF ShownPart
    <3>6. reading'[p] = "closed" => e[2] \in Statuses BY <3>1
    <3>7. ShownPart(p)' BY <3>2, <3>3, <3>4, <3>5, <3>6 DEF ShownPart
    <3>8. Tokens(p)' = Tokens(p) /\ Replies(p)' = Replies(p) BY <3>2 DEF Tokens, Replies
    <3>9. KeptPart(p)' BY <3>2, <3>3, <3>8 DEF KeptPart, Kept
    <3>10. ASSUME reading'[p] = "closed", pc'[p] = "ended" PROVE Kept(p, Deltas(p))'
      <4> DEFINE seen == {f \in got'[p] : f[2] = "token"}
      <4>1. \A f \in buffer[p] : f[1] <= cursor'[p]
        BY <3>3, <3>4, <3>5, <3>6, <3>10 DEF ShownPart
      <4>2. \A f \in buffer[p] : f \in got'[p] \/ \E g \in got'[p] : Twins(f, g)
        BY <3>2, <4>1 DEF SeqInv, NothingSkipped
      <4>3. Kept(p, Cardinality(Tokens(p))) /\ IsFiniteSet(Tokens(p))
        BY <3>2, <3>3, <3>4, <3>10 DEF KeptPart
      <4>4. seen \subseteq Tokens(p) BY <3>2, <3>5 DEF Tokens
      <4>5. /\ Cardinality(seen) <= Cardinality(Tokens(p))
            /\ Cardinality(seen) \in Nat /\ Cardinality(Tokens(p)) \in Nat
        BY <4>3, <4>4, FS_Subset, FS_CardinalityType
      <4>6. status[p] = "complete" => seen = Tokens(p)
        <5>1. SUFFICES ASSUME status[p] = "complete", NEW f \in Tokens(p) PROVE f \in got'[p]
          BY <4>4 DEF Tokens
        <5>2. \A g \in got'[p] : g[2] # "failure" BY <3>2, <3>3, <3>5, <5>1 DEF KeptPart
        <5>3. f[2] = "token" BY DEF Tokens
        <5>4. \A g \in got'[p] : ~Twins(f, g) BY <5>2, <5>3 DEF Twins
        <5> QED BY <4>2, <5>4 DEF Tokens
      <4>7. Deltas(p)' = Cardinality(seen) BY DEF Deltas
      <4> HIDE DEF seen
      <4>8. \A k \in Replies(p) : log[k].size \in Nat
        <5>1. \A k \in DOMAIN log : log[k] \in Rows OBVIOUS
        <5> QED BY <5>1 DEF Replies, Rows
      <4>9. Kept(p, Cardinality(seen)) BY <4>3, <4>5, <4>6, <4>8 DEF Kept
      <4> QED BY <3>2, <3>8, <4>7, <4>9 DEF Kept
    <3>11. \A q \in Posts \ {p} : got'[q] = got[q] /\ reading'[q] = reading[q] BY <3>1
    <3> QED BY <3>2, <3>7, <3>9, <3>10, <3>11, SeenLocal
  <2>24. ASSUME NEW p \in Posts, Disconnect(p) PROVE SeenInv'
    <3> USE DEF TypeInv, TypeOK, TaskTypeOK
    <3>1. /\ UNCHANGED <<log, pc, text, status, buffer, got>>
          /\ reading' = [reading EXCEPT ![p] = reading'[p]]
          /\ reading'[p] # "closed"
      BY <2>24 DEF Disconnect, Read, ReadTypeOK
    <3>2. ShownPart(p) /\ KeptPart(p) BY DEF SeenInv
    <3>3. ShownPart(p)' BY <3>1, <3>2 DEF ShownPart
    <3>4. Tokens(p)' = Tokens(p) /\ Replies(p)' = Replies(p) BY <3>1 DEF Tokens, Replies
    <3>5. KeptPart(p)' BY <3>1, <3>2, <3>4 DEF KeptPart, Kept
    <3>6. \A q \in Posts \ {p} : reading'[q] = reading[q] BY <3>1 DEF ReadTypeOK
    <3> QED BY <3>1, <3>3, <3>5, <3>6, SeenLocal
  <2>25. ASSUME NEW p \in Posts, Resume(p) PROVE SeenInv'
    <3> USE DEF TypeInv, TypeOK, TaskTypeOK
    <3>1. /\ UNCHANGED <<log, pc, text, status, buffer, got>>
          /\ reading' = [reading EXCEPT ![p] = reading'[p]]
          /\ reading'[p] # "closed"
      BY <2>25 DEF Resume, Read, ReadTypeOK
    <3>2. ShownPart(p) /\ KeptPart(p) BY DEF SeenInv
    <3>3. ShownPart(p)' BY <3>1, <3>2 DEF ShownPart
    <3>4. Tokens(p)' = Tokens(p) /\ Replies(p)' = Replies(p) BY <3>1 DEF Tokens, Replies
    <3>5. KeptPart(p)' BY <3>1, <3>2, <3>4 DEF KeptPart, Kept
    <3>6. \A q \in Posts \ {p} : reading'[q] = reading[q] BY <3>1 DEF ReadTypeOK
    <3> QED BY <3>1, <3>3, <3>5, <3>6, SeenLocal
  <2>26. ASSUME NEW p \in Posts, ResumeFollow(p) PROVE SeenInv'
    <3> USE DEF TypeInv, TypeOK, TaskTypeOK
    <3>1. /\ UNCHANGED <<log, pc, text, status, buffer, got>>
          /\ reading' = [reading EXCEPT ![p] = reading'[p]]
          /\ reading'[p] # "closed"
      BY <2>26 DEF ResumeFollow, Read, ReadTypeOK
    <3>2. ShownPart(p) /\ KeptPart(p) BY DEF SeenInv
    <3>3. ShownPart(p)' BY <3>1, <3>2 DEF ShownPart
    <3>4. Tokens(p)' = Tokens(p) /\ Replies(p)' = Replies(p) BY <3>1 DEF Tokens, Replies
    <3>5. KeptPart(p)' BY <3>1, <3>2, <3>4 DEF KeptPart, Kept
    <3>6. \A q \in Posts \ {p} : reading'[q] = reading[q] BY <3>1 DEF ReadTypeOK
    <3> QED BY <3>1, <3>3, <3>5, <3>6, SeenLocal
  <2>27. ASSUME NEW p \in Posts, Expire(p) PROVE SeenInv'
    <3> USE DEF TypeInv, TypeOK, TaskTypeOK
    <3> USE DEF StoreTypeOK
    <3>1. /\ UNCHANGED <<log, pc, text, status, got, reading>> /\ pc[p] \in Over
          /\ buffer' = [buffer EXCEPT ![p] = {}]
      BY <2>27 DEF Expire
    <3>2. ShownPart(p) /\ KeptPart(p) BY DEF SeenInv
    <3>3. buffer'[p] = {} /\ \A q \in Posts \ {p} : buffer'[q] = buffer[q] BY <3>1
    <3>4. ShownPart(p)' BY <3>1, <3>2, <3>3 DEF ShownPart
    <3>5. Tokens(p)' = {} /\ IsFiniteSet({}) BY <3>3, FS_EmptySet DEF Tokens
    <3>6. KeptPart(p)' BY <3>1, <3>3, <3>5 DEF KeptPart, Over
    <3>7. Replies(p)' = Replies(p) /\ Deltas(p)' = Deltas(p) BY <3>1 DEF Replies, Deltas
    <3>8. reading[p] = "closed" /\ pc[p] = "ended" => Kept(p, Deltas(p))
      BY DEF SeenInv, SeenIsStored
    <3>9. reading'[p] = "closed" /\ pc'[p] = "ended" => Kept(p, Deltas(p))'
      BY <3>1, <3>7, <3>8 DEF Kept
    <3> QED BY <3>1, <3>3, <3>4, <3>6, <3>9, SeenLocal
  <2>28. CASE UNCHANGED vars
    <3>1. UNCHANGED <<log, pc, text, status, buffer, got, reading>> BY <2>28 DEF vars
    <3>2. \A p \in Posts : /\ Tokens(p)' = Tokens(p) /\ Replies(p)' = Replies(p)
                           /\ Deltas(p)' = Deltas(p)
      BY <3>1 DEF Tokens, Replies, Deltas
    <3>3. \A p \in Posts : ShownPart(p)' BY <3>1 DEF SeenInv, ShownPart
    <3>4. \A p \in Posts : KeptPart(p)' BY <3>1, <3>2 DEF SeenInv, KeptPart, Kept
    <3>5. SeenIsStored' BY <3>1, <3>2 DEF SeenInv, SeenIsStored, Kept
    <3> QED BY <3>3, <3>4, <3>5 DEF SeenInv
  <2> QED
    BY StepCases, <2>1, <2>2, <2>3, <2>4, <2>5, <2>6, <2>7, <2>8, <2>9, <2>10, <2>11, <2>12, <2>13, <2>14, <2>15, <2>16, <2>17, <2>18, <2>19, <2>20, <2>21, <2>22, <2>23, <2>24, <2>25, <2>26, <2>27, <2>28
<1> QED BY <1>1, <1>2

\* What the client saw is what is stored: whatever fails, is cancelled, breaks
\* off or expires, after the done event of a generated turn the log has a reply
\* with the announced status and every delta the client got.
THEOREM SeenStored == Spec => []SeenIsStored
<1>1. Spec => []TypeInv
  <2>1. Init => TypeInv BY TypeInductive
  <2>2. TypeInv /\ [Next]_vars => TypeInv' BY TypeInductive
  <2> QED BY <2>1, <2>2, PTL DEF Spec
<1>2. TypeInv => TypeOK BY DEF TypeInv
<1>3. Init => SeqInv /\ SettleInv /\ SeenInv
  BY SeqInductive, SettleInductive, SeenInductive
<1>4. TypeInv /\ SeqInv /\ SettleInv /\ SeenInv /\ [Next]_vars =>
        SeqInv' /\ SettleInv' /\ SeenInv'
  BY <1>2, SeqInductive, SettleInductive, SeenInductive
<1>5. SeenInv => SeenIsStored BY DEF SeenInv
<1> QED BY <1>1, <1>3, <1>4, <1>5, PTL DEF Spec
=============================================================================
