---------------------------- MODULE MemoizeProofs ----------------------------
(***************************************************************************)
(* The safety of rtkMemoize for any threads, keys, thunks and failures, and *)
(* that the cache implements the set-once table of MemoTable.              *)
(***************************************************************************)
EXTENDS Memoize, FiniteSetTheorems, TLAPS

(* What a call refers to exists. *)
CallTyped ==
  \A t \in Thread :
    /\ call[t].at # "none" => call[t].key \in Key
    /\ call[t].at \in {"checking", "asleep"} => call[t].slot \in SlotId

(* A slot that is done holds a value. *)
ValueTyped ==
  \A s \in SlotId : slots[s].state = "done" => slots[s].value \in Thread

TypeInv == TypeOK /\ CallTyped /\ ValueTyped

(* A computation's slot is computing, under the key it computes; it is the
   cached one until Drop has taken it out, which only an error makes it do,
   innermost first. *)
FrameInv ==
  \A t \in Thread : \A i \in 1 .. Depth(t) :
    LET f == stack[t][i]
    IN /\ slots[f.slot].state = "computing"
       /\ slots[f.slot].key = f.key
       /\ ~f.dropped => cache[f.key] = f.slot
       /\ f.dropped => /\ raising[t] /\ i = Depth(t)
                       /\ \A k \in Key : cache[k] # f.slot

(* No two computations have the same slot. *)
OwnSlot ==
  \A t, u \in Thread : \A i \in 1 .. Depth(t), j \in 1 .. Depth(u) :
    stack[t][i].slot = stack[u][j].slot => (t = u /\ i = j)

(* What is cached is being computed or done, and what is done stays cached;
   what is being computed is so by somebody. *)
SlotInv ==
  /\ \A k \in Key : cache[k] # NoSlot =>
       slots[cache[k]].key = k /\ slots[cache[k]].state # "failed"
  /\ \A s \in SlotId :
       /\ slots[s].state = "done" => cache[slots[s].key] = s
       /\ slots[s].state = "computing" =>
            \E u \in Thread : \E i \in 1 .. Depth(u) : stack[u][i].slot = s

(* A waiter waits for its own key, and sleeps only while it is computed; a
   thread that unwinds waits for nothing. *)
WaitInv ==
  \A t \in Thread :
    /\ call[t].at \in {"checking", "asleep"} => slots[call[t].slot].key = call[t].key
    /\ call[t].at = "asleep" => slots[call[t].slot].state = "computing"
    /\ raising[t] => call[t].at = "none"

(* What was answered is what the table holds. *)
AnswerInv == \A a \in answered : Table[a[1]] = a[2]

-----------------------------------------------------------------------------
(* Types.                                                                  *)

LEMMA TypeInvInit == Init => TypeInv
BY MemoizeAssumption
DEF Init, TypeInv, TypeOK, CallTyped, ValueTyped, Call, NoCall, Frame, Slot, SlotId

(* The innermost computation. *)
LEMMA TopFacts ==
  ASSUME TypeInv, NEW t \in Thread, Computes(t)
  PROVE  /\ Depth(t) \in Nat \ {0}
         /\ Depth(t) \in 1 .. Len(stack[t])
         /\ Top(t) = stack[t][Depth(t)]
         /\ Top(t) \in Frame
         /\ Pop(t) \in Seq(Frame)
         /\ Len(Pop(t)) = Depth(t) - 1
         /\ \A i \in 1 .. Len(Pop(t)) : Pop(t)[i] = stack[t][i]
<1>1. stack[t] \in Seq(Frame) /\ stack[t] # <<>>
  BY DEF TypeInv, TypeOK, Computes
<1> QED BY <1>1 DEF Depth, Top, Pop

LEMMA WokenType ==
  ASSUME TypeInv, NEW s
  PROVE  /\ Woken(s) \in [Thread -> Call]
         /\ \A t \in Thread :
              /\ Woken(s)[t].key = call[t].key /\ Woken(s)[t].slot = call[t].slot
              /\ Woken(s)[t].at = IF call[t].at = "asleep" /\ call[t].slot = s
                                  THEN "checking" ELSE call[t].at
BY DEF Woken, CallOf, Call, TypeInv, TypeOK

LEMMA WokenTyped ==
  ASSUME TypeInv, NEW s
  PROVE  /\ Woken(s) \in [Thread -> Call]
         /\ \A t \in Thread :
              /\ Woken(s)[t].at # "none" => Woken(s)[t].key \in Key
              /\ Woken(s)[t].at \in {"checking", "asleep"} => Woken(s)[t].slot \in SlotId
BY WokenType DEF TypeInv, CallTyped

(* What a step that allocates no slot has to keep for the types to hold. *)
LEMMA TypesKept ==
  ASSUME TypeInv,
         cache' \in [Key -> SlotId \cup {NoSlot}],
         slots' \in Seq(Slot), Len(slots') = Len(slots),
         \A s \in SlotId : slots'[s].state = "done" => slots'[s].value \in Thread,
         stack' \in [Thread -> Seq(Frame)],
         call' \in [Thread -> Call],
         \A t \in Thread :
           /\ call'[t].at # "none" => call'[t].key \in Key
           /\ call'[t].at \in {"checking", "asleep"} => call'[t].slot \in SlotId,
         wants' \in [Thread -> Seq(Key)],
         raising' \in [Thread -> BOOLEAN],
         errors' \in Nat,
         answered' \in SUBSET (Key \X Thread)
  PROVE  TypeInv'
<1>1. SlotId' = SlotId
  BY DEF SlotId
<1>2. Slot' = Slot
  BY DEF Slot
<1>3. Frame' = Frame /\ Call' = Call
  BY <1>1 DEF Frame, Call
<1>4. TypeOK'
  BY <1>1, <1>2, <1>3 DEF TypeOK
<1>5. CallTyped' /\ ValueTyped'
  BY <1>1 DEF CallTyped, ValueTyped
<1> QED BY <1>4, <1>5 DEF TypeInv

(* Changing a field of the innermost computation. *)
LEMMA TopChanged ==
  ASSUME TypeInv, NEW t \in Thread, Computes(t),
         NEW todo \in Seq(Key), NEW dropped \in BOOLEAN,
         NEW f, f = [key |-> Top(t).key, slot |-> Top(t).slot,
                     todo |-> todo, dropped |-> dropped],
         stack' = [stack EXCEPT ![t] = [stack[t] EXCEPT ![Depth(t)] = f]]
  PROVE  /\ stack' \in [Thread -> Seq(Frame)]
         /\ \A u \in Thread : Len(stack'[u]) = Depth(u)
         /\ \A u \in Thread : \A i \in 1 .. Depth(u) :
              /\ stack'[u][i].key = stack[u][i].key
              /\ stack'[u][i].slot = stack[u][i].slot
              /\ u # t \/ i # Depth(t) => stack'[u][i].dropped = stack[u][i].dropped
         /\ stack'[t][Depth(t)].dropped = dropped
<1>1. /\ Depth(t) \in 1 .. Len(stack[t]) /\ Top(t) \in Frame
      /\ stack[t] \in Seq(Frame) /\ stack \in [Thread -> Seq(Frame)]
  BY TopFacts DEF TypeInv, TypeOK
<1>2. f \in Frame
  BY <1>1 DEF Frame
<1>3. [stack[t] EXCEPT ![Depth(t)] = f] \in Seq(Frame)
  BY <1>1, <1>2
<1>4. /\ stack' \in [Thread -> Seq(Frame)]
      /\ \A u \in Thread : Len(stack'[u]) = Depth(u)
      /\ \A u \in Thread : \A i \in 1 .. Depth(u) :
           u # t \/ i # Depth(t) => stack'[u][i] = stack[u][i]
      /\ stack'[t][Depth(t)] = f
  BY <1>1, <1>3 DEF Depth
<1>5. /\ f.key = Top(t).key /\ f.slot = Top(t).slot /\ f.dropped = dropped
      /\ Top(t) = stack[t][Depth(t)]
  BY TopFacts
<1>6. \A u \in Thread : \A i \in 1 .. Depth(u) :
           /\ stack'[u][i].key = stack[u][i].key
           /\ stack'[u][i].slot = stack[u][i].slot
           /\ u # t \/ i # Depth(t) => stack'[u][i].dropped = stack[u][i].dropped
  BY <1>4, <1>5
<1> QED BY <1>4, <1>5, <1>6

LEMMA FrameExcept ==
  ASSUME NEW f \in Frame, NEW v
  PROVE  /\ [f EXCEPT !.todo = v] = [key |-> f.key, slot |-> f.slot, todo |-> v, dropped |-> f.dropped]
         /\ [f EXCEPT !.dropped = v] = [key |-> f.key, slot |-> f.slot, todo |-> f.todo, dropped |-> v]
BY DEF Frame

(* Drop marks the innermost computation. *)
LEMMA TopDropped ==
  ASSUME TypeInv, NEW t \in Thread, Computes(t),
         stack' = [stack EXCEPT ![t][Depth(t)].dropped = TRUE]
  PROVE  stack' = [stack EXCEPT ![t] = [stack[t] EXCEPT ![Depth(t)] =
           [key |-> Top(t).key, slot |-> Top(t).slot,
            todo |-> Top(t).todo, dropped |-> TRUE]]]
<1>1. Top(t) \in Frame /\ Top(t) = stack[t][Depth(t)]
  BY TopFacts
<1>2. [Top(t) EXCEPT !.dropped = TRUE] =
      [key |-> Top(t).key, slot |-> Top(t).slot,
       todo |-> Top(t).todo, dropped |-> TRUE]
  BY <1>1, FrameExcept
<1>3. stack' = [stack EXCEPT ![t] = [stack[t] EXCEPT ![Depth(t)] =
                  [Top(t) EXCEPT !.dropped = TRUE]]]
  BY <1>1, Zenon
<1> QED BY <1>2, <1>3, Zenon

LEMMA StateChanged ==
  ASSUME TypeInv, NEW s \in SlotId, NEW st \in {"computing", "done", "failed"},
         NEW v \in Thread \cup {NoValue},
         slots' = WithState(s, st, v)
  PROVE  /\ slots' \in Seq(Slot) /\ Len(slots') = Len(slots) /\ SlotId' = SlotId
         /\ slots'[s].state = st /\ slots'[s].value = v
         /\ slots'[s].key = slots[s].key
         /\ \A r \in SlotId : r # s => slots'[r] = slots[r]
<1>1. slots \in Seq(Slot) /\ slots[s] \in Slot
  BY DEF TypeInv, TypeOK, SlotId
<1> DEFINE new == [state |-> st, value |-> v, key |-> slots[s].key]
<1>2. new \in Slot
  BY <1>1 DEF Slot
<1>3. slots' = [slots EXCEPT ![s] = new]
  BY DEF WithState
<1> HIDE DEF new
<1>4. /\ slots' \in Seq(Slot) /\ Len(slots') = Len(slots)
      /\ \A r \in SlotId : slots'[r] = IF r = s THEN new ELSE slots[r]
  BY <1>1, <1>2, <1>3 DEF SlotId
<1>5. SlotId' = SlotId
  BY <1>4 DEF SlotId
<1> QED BY <1>4, <1>5 DEF new

(* Every step keeps every reference to an allocated slot. *)
LEMMA TypeInvStep ==
  ASSUME TypeInv, NEW t \in Thread, Step(t) \/ Raise(t) \/ SpuriousWake(t)
  PROVE  TypeInv'
<1> USE DEF TypeInv
<1>0. /\ call \in [Thread -> Call] /\ stack[t] \in Seq(Frame)
      /\ wants[t] \in Seq(Key) /\ slots \in Seq(Slot) /\ call[t] \in Call
  BY DEF TypeOK
<1>1. CASE Ask(t)
  <2>1. Head(wants[t]) \in Key /\ Tail(wants[t]) \in Seq(Key)
    BY <1>0, <1>1 DEF Ask
  <2>2. CallOf("calling", Head(wants[t]), NoSlot) \in Call
    BY <2>1 DEF Call, CallOf
  <2> QED BY <1>1, <2>1, <2>2, TypesKept DEF Ask, TypeOK, CallTyped, ValueTyped, CallOf
<1>2. CASE Nest(t)
  <2>1. Depth(t) \in 1 .. Len(stack[t]) /\ Top(t) \in Frame /\ Top(t) = stack[t][Depth(t)]
    BY <1>2, TopFacts DEF Nest
  <2>2. Head(Top(t).todo) \in Key /\ Tail(Top(t).todo) \in Seq(Key)
    BY <1>2, <2>1 DEF Nest, Frame
  <2>3. CallOf("calling", Head(Top(t).todo), NoSlot) \in Call
    BY <2>2 DEF Call, CallOf
  <2> DEFINE f == [key |-> Top(t).key, slot |-> Top(t).slot,
                   todo |-> Tail(Top(t).todo), dropped |-> Top(t).dropped]
  <2>4. [Top(t) EXCEPT !.todo = Tail(Top(t).todo)] = f
    BY <2>1, FrameExcept
  <2>5. stack' = [stack EXCEPT ![t] = [stack[t] EXCEPT ![Depth(t)] =
                    [Top(t) EXCEPT !.todo = Tail(Top(t).todo)]]]
    BY <1>2, <2>1, Zenon DEF Nest
  <2>6. stack' = [stack EXCEPT ![t] = [stack[t] EXCEPT ![Depth(t)] = f]]
    BY <2>4, <2>5, Zenon
  <2>7. stack' \in [Thread -> Seq(Frame)]
    <3>1. Top(t).dropped \in BOOLEAN /\ Computes(t)
      BY <1>2, <2>1 DEF Nest, Frame
    <3> HIDE DEF f
    <3> QED BY <2>2, <2>6, <3>1, TopChanged DEF f
  <2> QED BY <1>2, <2>2, <2>3, <2>7, TypesKept DEF Nest, TypeOK, CallTyped, ValueTyped, CallOf
<1>3. CASE Enter(t)
  <2>1. call[t].key \in Key
    BY <1>3 DEF Enter, CallTyped
  <2>2. NoCall \in Call /\ CallOf("looking", call[t].key, NoSlot) \in Call
    BY <2>1 DEF Call, CallOf, NoCall
  <2>3. \/ call' = [call EXCEPT ![t] = NoCall]
        \/ call' = [call EXCEPT ![t] = CallOf("looking", call[t].key, NoSlot)]
    BY <1>3 DEF Enter
  <2>4. /\ call' \in [Thread -> Call]
        /\ \A u \in Thread :
             /\ call'[u].at # "none" => call'[u].key \in Key
             /\ call'[u].at \in {"checking", "asleep"} => call'[u].slot \in SlotId
    <3>1. PICK c \in Call :
             /\ call' = [call EXCEPT ![t] = c]
             /\ c.at # "none" => c.key \in Key
             /\ c.at \notin {"checking", "asleep"}
      <4>1. NoCall.at = "none"
        BY DEF NoCall
      <4>2. /\ CallOf("looking", call[t].key, NoSlot).at = "looking"
            /\ CallOf("looking", call[t].key, NoSlot).key = call[t].key
        BY DEF CallOf
      <4>. QED  BY <2>1, <2>2, <2>3, <4>1, <4>2
    <3>. QED  BY <1>0, <3>1 DEF CallTyped
  <2>5. raising' \in [Thread -> BOOLEAN]
    BY <1>3 DEF Enter, TypeOK
  <2> QED BY <1>3, <2>4, <2>5, TypesKept DEF Enter, TypeOK, ValueTyped
<1>4. CASE Find(t)
  <2>1. call[t].key \in Key
    BY <1>4 DEF Find, CallTyped
  <2>2. cache[call[t].key] \in SlotId
    BY <1>4, <2>1 DEF Find, TypeOK
  <2>3. CallOf("checking", call[t].key, cache[call[t].key]) \in Call
    BY <2>1, <2>2 DEF Call, CallOf
  <2> QED BY <1>4, <2>1, <2>2, <2>3, TypesKept DEF Find, TypeOK, CallTyped, ValueTyped, CallOf
<1>5. CASE Register(t)
  <2> DEFINE k == call[t].key
             s == Len(slots) + 1
             new == [state |-> "computing", value |-> NoValue, key |-> k]
             f == [key |-> k, slot |-> s, todo |-> Needs[t][k], dropped |-> FALSE]
  <2>1. k \in Key
    BY <1>5 DEF Register, CallTyped
  <2>2. new \in Slot /\ slots' = Append(slots, new)
    BY <1>5, <2>1 DEF Register, Slot
  <2>3. slots' \in Seq(Slot)' /\ Len(slots') = Len(slots) + 1
    BY <1>0, <2>2 DEF Slot
  <2>4. SlotId \subseteq SlotId' /\ s \in SlotId'
    BY <1>0, <2>3 DEF SlotId
  <2>5. f \in Frame' /\ Frame \subseteq Frame'
    BY <2>1, <2>4, MemoizeAssumption DEF Frame
  <2>6. stack' = [stack EXCEPT ![t] = Append(@, f)]
    BY <1>5 DEF Register
  <2>7. \A u \in Thread : stack[u] \in Seq(Frame')
    <3> TAKE u \in Thread
    <3> stack[u] \in Seq(Frame)
      BY DEF TypeOK
    <3> QED BY <2>5
  <2>8. stack' \in [Thread -> Seq(Frame)']
    BY <2>5, <2>6, <2>7 DEF TypeOK
  <2>9. cache' \in [Key -> (SlotId \cup {NoSlot})']
    BY <1>5, <2>1, <2>4 DEF Register, TypeOK
  <2>10. Call \subseteq Call' /\ NoCall \in Call'
    BY <2>4 DEF Call, NoCall
  <2>11. call' \in [Thread -> Call']
    BY <1>5, <2>10 DEF Register, TypeOK
  <2>12. CallTyped'
    BY <1>5, <2>4 DEF Register, CallTyped, TypeOK, NoCall
  <2>13. ValueTyped'
    BY <1>0, <2>2, <2>4 DEF ValueTyped, SlotId
  <2>14. TypeOK'
    <3> HIDE DEF k, s, new, f
    <3> QED BY <1>5, <2>3, <2>8, <2>9, <2>11 DEF Register, TypeOK
  <2> QED BY <2>12, <2>13, <2>14
<1>6. CASE Read(t)
  <2> DEFINE found == slots[call[t].slot]
  <2>1. call[t].key \in Key /\ call[t].slot \in SlotId
    BY <1>6 DEF Read, CallTyped
  <2>2. /\ NoCall \in Call
        /\ CallOf("looking", call[t].key, NoSlot) \in Call
        /\ CallOf("asleep", call[t].key, call[t].slot) \in Call
    BY <2>1 DEF Call, CallOf, NoCall
  <2>3. CASE /\ found.state = "done" /\ found.value \in Thread
             /\ answered' = answered \cup {<<call[t].key, found.value>>}
             /\ call' = [call EXCEPT ![t] = NoCall]
    BY <1>6, <2>1, <2>2, <2>3, TypesKept DEF Read, TypeOK, CallTyped, ValueTyped, NoCall
  <2>4. CASE /\ call' = [call EXCEPT ![t] = CallOf("looking", call[t].key, NoSlot)]
             /\ UNCHANGED answered
    BY <1>6, <2>1, <2>2, <2>4, TypesKept DEF Read, TypeOK, CallTyped, ValueTyped, CallOf
  <2>5. CASE /\ call' = [call EXCEPT ![t] = CallOf("asleep", call[t].key, call[t].slot)]
             /\ UNCHANGED answered
    BY <1>6, <2>1, <2>2, <2>5, TypesKept DEF Read, TypeOK, CallTyped, ValueTyped, CallOf
  <2>6. found.state = "done" => found.value \in Thread
    BY <2>1 DEF ValueTyped
  <2> QED BY <1>6, <2>3, <2>4, <2>5, <2>6 DEF Read
<1>7. CASE SpuriousWake(t)
  <2>1. call[t].key \in Key /\ call[t].slot \in SlotId
    BY <1>7 DEF SpuriousWake, CallTyped
  <2>2. /\ CallOf("checking", call[t].key, call[t].slot) \in Call
        /\ call' = [call EXCEPT ![t] = CallOf("checking", call[t].key, call[t].slot)]
    BY <1>7, <2>1 DEF Call, CallOf, SpuriousWake
  <2> QED BY <1>7, <2>1, <2>2, TypesKept DEF SpuriousWake, TypeOK, CallTyped, ValueTyped, CallOf
<1>8. CASE Complete(t)
  <2>1. /\ Computes(t) /\ Top(t).slot \in SlotId /\ Top(t).key \in Key
        /\ Pop(t) \in Seq(Frame)
    BY <1>8, TopFacts DEF Complete, Frame
  <2>2. /\ slots' \in Seq(Slot) /\ Len(slots') = Len(slots)
        /\ slots'[Top(t).slot].state = "done" /\ slots'[Top(t).slot].value = t
        /\ \A s \in SlotId : s # Top(t).slot => slots'[s] = slots[s]
    <3>1. slots' = WithState(Top(t).slot, "done", t)
      BY <1>8 DEF Complete
    <3> QED BY <2>1, <3>1, StateChanged
  <2>3. \A s \in SlotId : slots'[s].state = "done" => slots'[s].value \in Thread
    BY <2>2 DEF ValueTyped
  <2>4. stack' \in [Thread -> Seq(Frame)] /\ answered' \in SUBSET (Key \X Thread)
    BY <1>8, <2>1 DEF Complete, TypeOK
  <2>5. call' = Woken(Top(t).slot)
    BY <1>8 DEF Complete
  <2>6. UNCHANGED <<cache, wants, raising, errors>>
    BY <1>8 DEF Complete
  <2> QED BY <2>2, <2>3, <2>4, <2>5, <2>6, WokenTyped, TypesKept DEF TypeOK
<1>9. CASE Raise(t)
  <2>1. raising' \in [Thread -> BOOLEAN]
    BY <1>9 DEF Raise, TypeOK
  <2> QED BY <1>9, <2>1, TypesKept, SMTT(30) DEF Raise, TypeOK, CallTyped, ValueTyped
<1>10. CASE Uncache(t)
  <2>1. Computes(t) /\ Top(t) \in Frame /\ Top(t) = stack[t][Depth(t)]
    BY <1>10, TopFacts DEF Uncache
  <2>2. cache' \in [Key -> SlotId \cup {NoSlot}]
    BY <1>10, <2>1 DEF Uncache, TypeOK, Frame
  <2>3. stack' \in [Thread -> Seq(Frame)]
    BY <1>10, <2>1, TopDropped, TopChanged DEF Uncache, Frame
  <2> QED BY <1>10, <2>2, <2>3, TypesKept DEF Uncache, TypeOK, CallTyped, ValueTyped
<1>11. CASE MarkFailed(t)
  <2>1. /\ Computes(t) /\ Top(t).slot \in SlotId /\ Pop(t) \in Seq(Frame)
    BY <1>11, TopFacts DEF MarkFailed, Frame
  <2>2. /\ slots' \in Seq(Slot) /\ Len(slots') = Len(slots)
        /\ slots'[Top(t).slot].state = "failed" /\ slots'[Top(t).slot].value = NoValue
        /\ \A s \in SlotId : s # Top(t).slot => slots'[s] = slots[s]
    <3>1. slots' = WithState(Top(t).slot, "failed", NoValue)
      BY <1>11 DEF MarkFailed
    <3> QED BY <2>1, <3>1, StateChanged
  <2>3. \A s \in SlotId : slots'[s].state = "done" => slots'[s].value \in Thread
    BY <2>2 DEF ValueTyped
  <2>4. stack' \in [Thread -> Seq(Frame)]
    BY <1>11, <2>1 DEF MarkFailed, TypeOK
  <2>5. call' = Woken(Top(t).slot)
    BY <1>11 DEF MarkFailed
  <2>6. UNCHANGED <<cache, wants, raising, errors, answered>>
    BY <1>11 DEF MarkFailed
  <2> QED BY <2>2, <2>3, <2>4, <2>5, <2>6, WokenTyped, TypesKept DEF TypeOK
<1>12. CASE Unwound(t)
  <2>1. raising' \in [Thread -> BOOLEAN]
    BY <1>12 DEF Unwound, TypeOK
  <2> QED BY <1>12, <2>1, TypesKept DEF Unwound, TypeOK, CallTyped, ValueTyped
<1> QED
  BY <1>1, <1>2, <1>3, <1>4, <1>5, <1>6, <1>7, <1>8, <1>9, <1>10, <1>11, <1>12
  DEF Step

LEMMA TypeInvNext == TypeInv /\ [Next]_vars => TypeInv'
<1> SUFFICES ASSUME TypeInv, [Next]_vars PROVE TypeInv'
  OBVIOUS
<1>1. CASE UNCHANGED vars
  BY <1>1 DEF vars, TypeInv, TypeOK, CallTyped, ValueTyped, SlotId, Slot, Frame, Call
<1>2. CASE \E t \in Thread : Step(t) \/ Raise(t) \/ SpuriousWake(t)
  BY <1>2, TypeInvStep
<1> QED BY <1>1, <1>2 DEF Next, AllExported

(* rtkMemoize keeps its types: every reference to a slot is to an allocated
   one. *)
THEOREM TypeCorrect == Spec => []TypeOK
<1>1. Spec => []TypeInv
  BY TypeInvInit, TypeInvNext, PTL DEF Spec
<1>2. TypeInv => TypeOK
  BY DEF TypeInv
<1> QED BY <1>1, <1>2, PTL

-----------------------------------------------------------------------------
(* The cache, the slots and the computations.                              *)

MemoInv == FrameInv /\ OwnSlot /\ SlotInv /\ WaitInv /\ AnswerInv

LEMMA MemoInvInit == Init => MemoInv
BY MemoizeAssumption
DEF Init, MemoInv, FrameInv, OwnSlot, SlotInv, WaitInv, AnswerInv, Depth, NoCall, SlotId

(* A slot is a number, and NoSlot is not. *)
LEMMA SlotFacts ==
  ASSUME TypeInv
  PROVE  /\ NoSlot \notin SlotId
         /\ \A k \in Key : cache[k] # NoSlot => cache[k] \in SlotId
         /\ \A s \in SlotId : slots[s].key \in Key
         /\ \A u \in Thread : \A i \in 1 .. Depth(u) :
              /\ stack[u][i].slot \in SlotId /\ stack[u][i].key \in Key
              /\ stack[u][i].dropped \in BOOLEAN
              /\ Depth(u) \in Nat
<1>1. NoSlot \notin SlotId
  BY MemoizeAssumption DEF SlotId
<1>2. \A k \in Key : cache[k] # NoSlot => cache[k] \in SlotId
  BY DEF TypeInv, TypeOK
<1>3. ASSUME NEW s \in SlotId PROVE slots[s].key \in Key
  <2>1. slots[s] \in Slot
    BY DEF TypeInv, TypeOK, SlotId
  <2> QED BY <2>1 DEF Slot
<1>4. ASSUME NEW u \in Thread, NEW i \in 1 .. Depth(u)
      PROVE  /\ stack[u][i].slot \in SlotId /\ stack[u][i].key \in Key
             /\ stack[u][i].dropped \in BOOLEAN /\ Depth(u) \in Nat
  <2>1. stack[u] \in Seq(Frame)
    BY DEF TypeInv, TypeOK
  <2>2. stack[u][i] \in Frame /\ Depth(u) \in Nat
    BY <2>1 DEF Depth
  <2> QED BY <2>2 DEF Frame
<1> QED BY <1>1, <1>2, <1>3, <1>4

(* A step that leaves the cache, the slots and what is computed alone. *)
LEMMA FramesKept ==
  ASSUME TypeInv, FrameInv, OwnSlot, SlotInv,
         UNCHANGED <<cache, slots>>,
         \A u \in Thread : Len(stack'[u]) = Depth(u),
         \A u \in Thread : \A i \in 1 .. Depth(u) :
           /\ stack'[u][i].key = stack[u][i].key
           /\ stack'[u][i].slot = stack[u][i].slot
           /\ stack'[u][i].dropped = stack[u][i].dropped,
         \A u \in Thread : raising[u] => raising'[u] \/ Depth(u) = 0
  PROVE  FrameInv' /\ OwnSlot' /\ SlotInv'
<1>0. \A u \in Thread : Depth(u)' = Depth(u)
  BY DEF Depth
<1>1. FrameInv'
  <2> SUFFICES ASSUME NEW u \in Thread, NEW i \in 1 .. Depth(u)
               PROVE  LET f == stack'[u][i]
                      IN /\ slots[f.slot].state = "computing"
                         /\ slots[f.slot].key = f.key
                         /\ ~f.dropped => cache[f.key] = f.slot
                         /\ f.dropped => /\ raising'[u] /\ i = Depth(u)
                                         /\ \A k \in Key : cache[k] # f.slot
    BY <1>0 DEF FrameInv
  <2>1. Depth(u) # 0
    BY DEF Depth
  <2> QED BY <2>1 DEF FrameInv
<1>2. OwnSlot'
  BY <1>0 DEF OwnSlot
<1>3. SlotInv'
  BY <1>0 DEF SlotInv, SlotId
<1> QED BY <1>1, <1>2, <1>3

(* Only what a thread that does not unwind waits for changes. *)
LEMMA CallKept ==
  ASSUME TypeInv, WaitInv, NEW t \in Thread, ~raising[t] \/ call[t].at = "none",
         NEW c, call' = [call EXCEPT ![t] = c],
         UNCHANGED slots,
         c.at \in {"checking", "asleep"} => slots[c.slot].key = c.key,
         c.at = "asleep" => slots[c.slot].state = "computing",
         \A u \in Thread : u # t => raising'[u] = raising[u],
         raising'[t] => c.at = "none"
  PROVE  WaitInv'
<1>1. call \in [Thread -> Call]
  BY DEF TypeInv, TypeOK
<1>2. call'[t] = c /\ \A u \in Thread : u # t => call'[u] = call[u]
  BY <1>1
<1> QED BY <1>2 DEF WaitInv

LEMMA AnswersKept ==
  ASSUME AnswerInv, UNCHANGED <<cache, slots, answered>>
  PROVE  AnswerInv'
BY DEF AnswerInv, Table

(* The steps that neither allocate nor settle a slot, nor uncache one. *)
LEMMA QuietStep ==
  ASSUME TypeInv, MemoInv, NEW t \in Thread,
         \/ Ask(t) \/ Nest(t) \/ Enter(t) \/ Find(t) \/ Read(t)
         \/ SpuriousWake(t) \/ Raise(t) \/ Unwound(t)
  PROVE  MemoInv'
<1> USE DEF MemoInv
<1>0. /\ raising \in [Thread -> BOOLEAN]
      /\ raising[t] => call[t].at = "none"
  BY DEF TypeInv, TypeOK, WaitInv
<1>1. CASE Ask(t)
  <2> DEFINE c == CallOf("calling", Head(wants[t]), NoSlot)
  <2>1. /\ c.at = "calling" /\ call' = [call EXCEPT ![t] = c] /\ ~raising[t]
        /\ UNCHANGED <<cache, slots, stack, raising, answered>>
    BY <1>1 DEF Ask, CallOf, Evaluating
  <2>2. WaitInv'
    <3> HIDE DEF c
    <3> QED BY <2>1, CallKept
  <2> QED BY <2>1, <2>2, FramesKept, AnswersKept DEF Depth
<1>2. CASE Nest(t)
  <2> DEFINE c == CallOf("calling", Head(Top(t).todo), NoSlot)
             f == [key |-> Top(t).key, slot |-> Top(t).slot,
                   todo |-> Tail(Top(t).todo), dropped |-> Top(t).dropped]
  <2>1. /\ c.at = "calling" /\ call' = [call EXCEPT ![t] = c] /\ ~raising[t]
        /\ UNCHANGED <<cache, slots, raising, answered>>
    BY <1>2 DEF Nest, CallOf, Evaluating
  <2>2. WaitInv'
    <3> HIDE DEF c
    <3> QED BY <2>1, CallKept
  <2>3. /\ Computes(t) /\ Top(t) = stack[t][Depth(t)] /\ Top(t).todo # <<>>
        /\ Top(t) \in Frame
    BY <1>2, TopFacts DEF Nest
  <2>4. Tail(Top(t).todo) \in Seq(Key) /\ Top(t).dropped \in BOOLEAN
    BY <2>3 DEF Frame
  <2>5. stack' = [stack EXCEPT ![t] = [stack[t] EXCEPT ![Depth(t)] =
                    [Top(t) EXCEPT !.todo = Tail(Top(t).todo)]]]
    BY <1>2, <2>3, Zenon DEF Nest
  <2>6. [Top(t) EXCEPT !.todo = Tail(Top(t).todo)] = f
    BY <2>3, FrameExcept
  <2>7. stack' = [stack EXCEPT ![t] = [stack[t] EXCEPT ![Depth(t)] = f]]
    BY <2>5, <2>6, Zenon
  <2>8. /\ \A u \in Thread : Len(stack'[u]) = Depth(u)
        /\ \A u \in Thread : \A i \in 1 .. Depth(u) :
             /\ stack'[u][i].key = stack[u][i].key
             /\ stack'[u][i].slot = stack[u][i].slot
             /\ u # t \/ i # Depth(t) => stack'[u][i].dropped = stack[u][i].dropped
        /\ stack'[t][Depth(t)].dropped = Top(t).dropped
    <3> HIDE DEF f
    <3> QED BY <2>3, <2>4, <2>7, TopChanged DEF f
  <2>9. \A u \in Thread : \A i \in 1 .. Depth(u) :
           /\ stack'[u][i].key = stack[u][i].key
           /\ stack'[u][i].slot = stack[u][i].slot
           /\ stack'[u][i].dropped = stack[u][i].dropped
    BY <2>3, <2>8
  <2> QED BY <2>1, <2>2, <2>8, <2>9, FramesKept, AnswersKept
<1>3. CASE Enter(t)
  <2>1. \E c : /\ call' = [call EXCEPT ![t] = c] /\ c.at \in {"none", "looking"}
               /\ raising'[t] => c.at = "none"
    <3>1. CASE IsActive(t, call[t].key)
      <4>1. call' = [call EXCEPT ![t] = NoCall]
        BY <1>3, <3>1 DEF Enter
      <4>2. NoCall.at = "none"
        BY DEF NoCall
      <4> QED BY <4>1, <4>2
    <3>2. CASE ~IsActive(t, call[t].key)
      <4>1. ~raising[t]
        BY <1>0, <1>3 DEF Enter
      <4>2. raising' = raising
        BY <1>3, <3>2 DEF Enter
      <4>3. ~raising'[t]
        BY <4>1, <4>2
      <4>4. call' = [call EXCEPT ![t] = CallOf("looking", call[t].key, NoSlot)]
        BY <1>3, <3>2 DEF Enter
      <4> QED BY <4>3, <4>4 DEF CallOf
    <3> QED BY <3>1, <3>2
  <2>2. /\ UNCHANGED <<cache, slots, stack, answered>> /\ ~raising[t]
        /\ \A u \in Thread : u # t => raising'[u] = raising[u]
    BY <1>0, <1>3 DEF Enter
  <2>3. WaitInv'
    BY <2>1, <2>2, CallKept
  <2> QED BY <2>2, <2>3, FramesKept, AnswersKept DEF Depth
<1>4. CASE Find(t)
  <2> DEFINE c == CallOf("checking", call[t].key, cache[call[t].key])
  <2>1. /\ c.at = "checking" /\ c.key = call[t].key /\ c.slot = cache[call[t].key]
        /\ call' = [call EXCEPT ![t] = c] /\ ~raising[t]
        /\ UNCHANGED <<cache, slots, stack, raising, answered>>
    BY <1>0, <1>4 DEF Find, CallOf
  <2>2. slots[c.slot].key = c.key
    BY <1>4, <2>1 DEF Find, SlotInv, TypeInv, CallTyped
  <2>3. WaitInv'
    <3> HIDE DEF c
    <3> QED BY <2>1, <2>2, CallKept
  <2> QED BY <2>1, <2>3, FramesKept, AnswersKept DEF Depth
<1>5. CASE Read(t)
  <2>1. /\ call[t].key \in Key /\ call[t].slot \in SlotId
        /\ slots[call[t].slot].key = call[t].key
    BY <1>5 DEF Read, TypeInv, CallTyped, WaitInv
  <2>2. /\ UNCHANGED <<cache, slots, stack, raising>> /\ ~raising[t]
    BY <1>0, <1>5 DEF Read
  <2>3. \E c : /\ call' = [call EXCEPT ![t] = c]
               /\ c.at \in {"none", "looking", "asleep"}
               /\ c.at = "asleep" => /\ c.slot = call[t].slot /\ c.key = call[t].key
                                     /\ slots[c.slot].state = "computing"
    BY <1>5 DEF Read, CallOf, NoCall
  <2>4. WaitInv'
    BY <2>1, <2>2, <2>3, CallKept
  <2>5. AnswerInv'
    <3>1. CASE slots[call[t].slot].state = "done"
      <4>1. cache[call[t].key] = call[t].slot /\ call[t].slot # NoSlot
        BY <2>1, <3>1, SlotFacts DEF SlotInv
      <4>2. Table[call[t].key] = slots[call[t].slot].value
        BY <2>1, <3>1, <4>1 DEF Table
      <4>3. answered' = answered \cup {<<call[t].key, slots[call[t].slot].value>>}
        BY <1>5, <3>1 DEF Read
      <4>4. Table' = Table
        BY <2>2 DEF Table
      <4> QED BY <4>2, <4>3, <4>4 DEF AnswerInv
    <3>2. CASE slots[call[t].slot].state # "done"
      <4>1. UNCHANGED answered
        BY <1>5, <3>2 DEF Read
      <4> QED BY <2>2, <4>1, AnswersKept
    <3> QED BY <3>1, <3>2
  <2> QED BY <2>2, <2>4, <2>5, FramesKept DEF Depth
<1>6. CASE SpuriousWake(t)
  <2> DEFINE c == CallOf("checking", call[t].key, call[t].slot)
  <2>1. /\ c.at = "checking" /\ c.key = call[t].key /\ c.slot = call[t].slot
        /\ call' = [call EXCEPT ![t] = c] /\ ~raising[t]
        /\ UNCHANGED <<cache, slots, stack, raising, answered>>
    BY <1>0, <1>6 DEF SpuriousWake, CallOf
  <2>2. slots[c.slot].key = c.key
    BY <1>6, <2>1 DEF SpuriousWake, WaitInv
  <2>3. WaitInv'
    <3> HIDE DEF c
    <3> QED BY <2>1, <2>2, CallKept
  <2> QED BY <2>1, <2>3, FramesKept, AnswersKept DEF Depth
<1>7. CASE Raise(t)
  <2>1. /\ UNCHANGED <<cache, slots, stack, call, answered>> /\ call[t].at = "none"
        /\ \A u \in Thread : u # t => raising'[u] = raising[u]
        /\ \A u \in Thread : raising[u] => raising'[u]
    BY <1>0, <1>7 DEF Raise, Evaluating
  <2>2. WaitInv'
    BY <2>1 DEF WaitInv
  <2> QED BY <2>1, <2>2, FramesKept, AnswersKept DEF Depth
<1>8. CASE Unwound(t)
  <2>1. /\ UNCHANGED <<cache, slots, stack, call, answered>>
        /\ \A u \in Thread : raising'[u] => raising[u]
        /\ \A u \in Thread : raising[u] => raising'[u] \/ u = t
    BY <1>0, <1>8 DEF Unwound
  <2>2. WaitInv'
    BY <2>1 DEF WaitInv
  <2>3. Depth(t) = 0
    BY <1>8 DEF Unwound, Computes, Depth
  <2>4. \A u \in Thread : raising[u] => raising'[u] \/ Depth(u) = 0
    BY <2>1, <2>3
  <2> QED BY <2>1, <2>2, <2>4, FramesKept, AnswersKept DEF Depth
<1> QED
  BY <1>1, <1>2, <1>3, <1>4, <1>5, <1>6, <1>7, <1>8

(* A key that nobody computes is given a new slot. *)
LEMMA RegisterStep ==
  ASSUME TypeInv, MemoInv, NEW t \in Thread, Register(t)
  PROVE  MemoInv' /\ Table' = Table
<1> USE DEF MemoInv
<1> DEFINE k == call[t].key
           s == Len(slots) + 1
           new == [state |-> "computing", value |-> NoValue, key |-> k]
           f == [key |-> k, slot |-> s, todo |-> Needs[t][k], dropped |-> FALSE]
<1>1. k \in Key /\ cache[k] = NoSlot /\ call[t].at = "looking"
  BY DEF Register, TypeInv, CallTyped
<1>2. ~raising[t]
  BY <1>1 DEF WaitInv
<1>3. /\ slots' = Append(slots, new) /\ stack' = [stack EXCEPT ![t] = Append(@, f)]
      /\ cache' = [cache EXCEPT ![k] = s] /\ call' = [call EXCEPT ![t] = NoCall]
      /\ UNCHANGED <<raising, answered>>
  BY DEF Register
<1>4. /\ new.state = "computing" /\ new.key = k
      /\ f.slot = s /\ f.key = k /\ f.dropped = FALSE
  OBVIOUS
<1> HIDE DEF new, f
<1>5. /\ SlotId' = SlotId \cup {s} /\ s \notin SlotId /\ s # NoSlot
      /\ slots'[s] = new /\ \A r \in SlotId : slots'[r] = slots[r]
  <2>1. slots \in Seq(Slot)
    BY DEF TypeInv, TypeOK
  <2>2. Len(slots') = Len(slots) + 1 /\ Len(slots) \in Nat
    BY <1>3, <2>1
  <2> QED BY <1>3, <2>1, <2>2, MemoizeAssumption DEF SlotId
<1>6. \A j \in Key : cache'[j] = IF j = k THEN s ELSE cache[j]
  BY <1>1, <1>3 DEF TypeInv, TypeOK
<1>7. /\ Depth(t) \in Nat /\ Depth(t)' = Depth(t) + 1 /\ stack'[t][Depth(t) + 1] = f
      /\ \A u \in Thread : u # t => stack'[u] = stack[u] /\ Depth(u)' = Depth(u)
      /\ \A u \in Thread : \A i \in 1 .. Depth(u) :
           i \in 1 .. Depth(u)' /\ stack'[u][i] = stack[u][i]
      /\ \A u \in Thread : \A i \in 1 .. Depth(u)' :
           i \in 1 .. Depth(u) \/ (u = t /\ i = Depth(t) + 1)
  <2>1. stack \in [Thread -> Seq(Frame)]
    BY DEF TypeInv, TypeOK
  <2>2. stack[t] \in Seq(Frame) /\ stack'[t] = Append(stack[t], f)
    BY <1>3, <2>1
  <2>3. \A u \in Thread : u # t => stack'[u] = stack[u]
    BY <1>3, <2>1
  <2>4. \A u \in Thread : Len(stack[u]) \in Nat
    BY <2>1
  <2> QED BY <2>2, <2>3, <2>4, SMTT(30) DEF Depth
<1> HIDE DEF k, s
<1>8. FrameInv'
  <2> SUFFICES ASSUME NEW u \in Thread, NEW i \in 1 .. Depth(u)'
               PROVE  LET g == stack'[u][i]
                      IN /\ slots'[g.slot].state = "computing"
                         /\ slots'[g.slot].key = g.key
                         /\ ~g.dropped => cache'[g.key] = g.slot
                         /\ g.dropped => /\ raising'[u] /\ i = Depth(u)'
                                         /\ \A j \in Key : cache'[j] # g.slot
    BY DEF FrameInv
  <2>1. CASE i \in 1 .. Depth(u)
    <3>1. stack'[u][i] = stack[u][i]
      BY <1>7, <2>1
    <3>2. stack[u][i].slot \in SlotId /\ stack[u][i].key \in Key
      BY <2>1, SlotFacts
    <3>3. slots'[stack[u][i].slot] = slots[stack[u][i].slot]
      BY <1>5, <3>2
    <3>4. ASSUME ~stack[u][i].dropped
          PROVE  cache'[stack[u][i].key] = stack[u][i].slot
      <4>1. cache[stack[u][i].key] = stack[u][i].slot
        BY <2>1, <3>4 DEF FrameInv
      <4> QED BY <1>1, <1>6, <3>2, <4>1, SlotFacts
    <3>5. ASSUME stack[u][i].dropped
          PROVE  /\ raising'[u] /\ i = Depth(u)'
                 /\ \A j \in Key : cache'[j] # stack[u][i].slot
      <4>1. /\ raising[u] /\ i = Depth(u)
            /\ \A j \in Key : cache[j] # stack[u][i].slot
        BY <2>1, <3>5 DEF FrameInv
      <4>2. u # t
        BY <1>2, <4>1
      <4> QED BY <1>3, <1>5, <1>6, <1>7, <3>2, <4>1, <4>2
    <3> QED BY <2>1, <3>1, <3>3, <3>4, <3>5 DEF FrameInv
  <2>2. CASE u = t /\ i = Depth(t) + 1
    BY <1>1, <1>4, <1>5, <1>6, <1>7, <2>2
  <2> QED BY <1>7, <2>1, <2>2
<1>9. OwnSlot'
  <2> SUFFICES ASSUME NEW u \in Thread, NEW v \in Thread,
                      NEW i \in 1 .. Depth(u)', NEW j \in 1 .. Depth(v)',
                      stack'[u][i].slot = stack'[v][j].slot
               PROVE  u = v /\ i = j
    BY DEF OwnSlot
  <2>1. CASE i \in 1 .. Depth(u) /\ j \in 1 .. Depth(v)
    BY <1>7, <2>1 DEF OwnSlot
  <2>2. CASE i \in 1 .. Depth(u) /\ v = t /\ j = Depth(t) + 1
    BY <1>4, <1>5, <1>7, <2>2, SlotFacts
  <2>3. CASE j \in 1 .. Depth(v) /\ u = t /\ i = Depth(t) + 1
    BY <1>4, <1>5, <1>7, <2>3, SlotFacts
  <2> QED BY <1>7, <2>1, <2>2, <2>3
<1>10. SlotInv'
  <2>1. ASSUME NEW j \in Key, cache'[j] # NoSlot
        PROVE  slots'[cache'[j]].key = j /\ slots'[cache'[j]].state # "failed"
    <3>1. CASE j = k
      BY <1>4, <1>5, <1>6, <3>1
    <3>2. CASE j # k
      BY <1>5, <1>6, <2>1, <3>2, SlotFacts DEF SlotInv
    <3> QED BY <3>1, <3>2
  <2>2. ASSUME NEW r \in SlotId', slots'[r].state = "done"
        PROVE  cache'[slots'[r].key] = r
    <3>1. r \in SlotId /\ slots'[r] = slots[r]
      BY <1>4, <1>5, <2>2
    <3>2. cache[slots[r].key] = r /\ slots[r].key \in Key
      BY <2>2, <3>1, SlotFacts DEF SlotInv
    <3> QED BY <1>1, <1>6, <3>1, <3>2, SlotFacts
  <2>3. ASSUME NEW r \in SlotId', slots'[r].state = "computing"
        PROVE  \E u \in Thread : \E i \in 1 .. Depth(u)' : stack'[u][i].slot = r
    <3>1. CASE r = s
      <4>1. Depth(t) + 1 \in 1 .. Depth(t)'
        BY <1>7
      <4> QED BY <1>4, <1>7, <3>1, <4>1
    <3>2. CASE r \in SlotId
      <4>1. slots[r].state = "computing"
        BY <1>5, <2>3, <3>2
      <4>2. \E u \in Thread : \E i \in 1 .. Depth(u) : stack[u][i].slot = r
        BY <3>2, <4>1 DEF SlotInv
      <4> QED BY <1>7, <4>2
    <3> QED BY <1>5, <3>1, <3>2
  <2> QED BY <2>1, <2>2, <2>3 DEF SlotInv
<1>11. WaitInv'
  <2>1. /\ NoCall.at = "none" /\ call'[t] = NoCall
        /\ \A u \in Thread : u # t => call'[u] = call[u]
    BY <1>3 DEF NoCall, TypeInv, TypeOK
  <2>2. \A u \in Thread : call[u].at \in {"checking", "asleep"} =>
           slots'[call[u].slot] = slots[call[u].slot]
    BY <1>5 DEF TypeInv, CallTyped
  <2>3. \A u \in Thread : raising'[u] => call'[u].at = "none"
    BY <1>3, <2>1 DEF WaitInv
  <2>4. \A u \in Thread :
          /\ call'[u].at \in {"checking", "asleep"} =>
               slots'[call'[u].slot].key = call'[u].key
          /\ call'[u].at = "asleep" => slots'[call'[u].slot].state = "computing"
    BY <2>1, <2>2 DEF WaitInv
  <2> QED BY <2>3, <2>4 DEF WaitInv
<1>12. Table' = Table
  <2>1. ASSUME NEW j \in Key
        PROVE  (IF cache'[j] # NoSlot /\ slots'[cache'[j]].state = "done"
                THEN slots'[cache'[j]].value ELSE NoValue) =
               (IF cache[j] # NoSlot /\ slots[cache[j]].state = "done"
                THEN slots[cache[j]].value ELSE NoValue)
    <3>1. CASE j = k
      BY <1>1, <1>4, <1>5, <1>6, <3>1
    <3>2. CASE j # k
      BY <1>5, <1>6, <3>2, SlotFacts
    <3> QED BY <3>1, <3>2
  <2> QED BY <2>1 DEF Table
<1>13. AnswerInv'
  BY <1>3, <1>12 DEF AnswerInv
<1> QED BY <1>8, <1>9, <1>10, <1>11, <1>12, <1>13

(* The first half of Drop: the key's slot leaves the cache.  It was not done,
   so the table loses nothing. *)
LEMMA UncacheStep ==
  ASSUME TypeInv, MemoInv, NEW t \in Thread, Uncache(t)
  PROVE  MemoInv' /\ Table' = Table
<1> USE DEF MemoInv
<1> DEFINE d == Depth(t)
           k == Top(t).key
           s == Top(t).slot
<1>1. /\ Computes(t) /\ Top(t) = stack[t][d] /\ d \in 1 .. Depth(t) /\ d \in Nat
      /\ Top(t) \in Frame
  BY TopFacts DEF Uncache, Depth
<1>2. raising[t] /\ ~stack[t][d].dropped
  BY <1>1 DEF Uncache
<1>3. /\ k \in Key /\ s \in SlotId /\ k = stack[t][d].key /\ s = stack[t][d].slot
      /\ Top(t).todo \in Seq(Key)
  BY <1>1 DEF Frame
<1>4. cache[k] = s /\ slots[s].state = "computing" /\ slots[s].key = k
  BY <1>1, <1>2, <1>3 DEF FrameInv
<1>5. \A j \in Key : cache'[j] = IF j = k THEN NoSlot ELSE cache[j]
  BY <1>3 DEF Uncache, TypeInv, TypeOK
<1>6. UNCHANGED <<slots, call, raising, answered>>
  BY DEF Uncache
<1>7. /\ \A u \in Thread : Depth(u)' = Depth(u)
      /\ \A u \in Thread : \A i \in 1 .. Depth(u) :
           /\ stack'[u][i].key = stack[u][i].key
           /\ stack'[u][i].slot = stack[u][i].slot
           /\ u # t \/ i # d => stack'[u][i].dropped = stack[u][i].dropped
      /\ stack'[t][d].dropped = TRUE
  <2> DEFINE f == [key |-> Top(t).key, slot |-> Top(t).slot,
                   todo |-> Top(t).todo, dropped |-> TRUE]
  <2>1. stack' = [stack EXCEPT ![t][Depth(t)].dropped = TRUE]
    BY DEF Uncache
  <2>2. stack' = [stack EXCEPT ![t] = [stack[t] EXCEPT ![Depth(t)] = f]]
    BY <1>1, <2>1, TopDropped
  <2>3. f = [key |-> Top(t).key, slot |-> Top(t).slot,
             todo |-> Top(t).todo, dropped |-> TRUE]
    OBVIOUS
  <2> HIDE DEF f
  <2>4. /\ \A u \in Thread : Len(stack'[u]) = Depth(u)
        /\ \A u \in Thread : \A i \in 1 .. Depth(u) :
             /\ stack'[u][i].key = stack[u][i].key
             /\ stack'[u][i].slot = stack[u][i].slot
             /\ u # t \/ i # Depth(t) => stack'[u][i].dropped = stack[u][i].dropped
        /\ stack'[t][Depth(t)].dropped = TRUE
    BY <1>1, <1>3, <2>2, <2>3, TopChanged
  <2> QED BY <2>4 DEF Depth
<1>8. NoSlot \notin SlotId
  BY SlotFacts
<1> HIDE DEF d, k, s
<1>9. FrameInv'
  <2> SUFFICES ASSUME NEW u \in Thread, NEW i \in 1 .. Depth(u)
               PROVE  LET g == stack'[u][i]
                      IN /\ slots[g.slot].state = "computing"
                         /\ slots[g.slot].key = g.key
                         /\ ~g.dropped => cache'[g.key] = g.slot
                         /\ g.dropped => /\ raising[u] /\ i = Depth(u)
                                         /\ \A j \in Key : cache'[j] # g.slot
    BY <1>6, <1>7 DEF FrameInv
  <2> DEFINE g == stack[u][i]
  <2>1. /\ g.slot \in SlotId /\ g.key \in Key
        /\ slots[g.slot].state = "computing" /\ slots[g.slot].key = g.key
    BY SlotFacts DEF FrameInv
  <2>2. CASE u = t /\ i = d
    <3>1. \A j \in Key : cache'[j] # s
      BY <1>3, <1>4, <1>5, <1>8, SlotFacts DEF SlotInv
    <3>2. i = Depth(u) /\ g.slot = s
      BY <1>3, <2>2 DEF d
    <3>3. raising[u] /\ stack'[u][i].dropped
      BY <1>2, <1>7, <2>2
    <3> QED BY <1>7, <2>1, <3>1, <3>2, <3>3
  <2>3. CASE u # t \/ i # d
    <3>1. ASSUME ~g.dropped PROVE cache'[g.key] = g.slot
      <4>1. cache[g.key] = g.slot
        BY <3>1 DEF FrameInv
      <4>2. g.slot # s
        BY <1>1, <1>3, <2>3 DEF OwnSlot
      <4> QED BY <1>4, <1>5, <2>1, <4>1, <4>2
    <3>2. ASSUME g.dropped
          PROVE  /\ raising[u] /\ i = Depth(u)
                 /\ \A j \in Key : cache'[j] # g.slot
      <4>1. /\ raising[u] /\ i = Depth(u) /\ \A j \in Key : cache[j] # g.slot
        BY <3>2 DEF FrameInv
      <4> QED BY <1>5, <1>8, <2>1, <4>1
    <3>3. stack'[u][i].dropped = g.dropped
      BY <1>7, <2>3
    <3> QED BY <1>7, <2>1, <3>1, <3>2, <3>3
  <2> QED BY <2>2, <2>3
<1>10. OwnSlot'
  BY <1>7 DEF OwnSlot
<1>11. SlotInv'
  <2>1. SlotId' = SlotId
    BY <1>6 DEF SlotId
  <2>2. \A j \in Key : cache'[j] # NoSlot =>
          slots[cache'[j]].key = j /\ slots[cache'[j]].state # "failed"
    BY <1>5 DEF SlotInv
  <2>3. ASSUME NEW r \in SlotId, slots[r].state = "done"
        PROVE  cache'[slots[r].key] = r
    <3>1. cache[slots[r].key] = r /\ slots[r].key \in Key
      BY <2>3, SlotFacts DEF SlotInv
    <3> QED BY <1>4, <1>5, <2>3, <3>1
  <2>4. ASSUME NEW r \in SlotId, slots[r].state = "computing"
        PROVE  \E u \in Thread : \E i \in 1 .. Depth(u)' : stack'[u][i].slot = r
    <3>1. \E u \in Thread : \E i \in 1 .. Depth(u) : stack[u][i].slot = r
      BY <2>4 DEF SlotInv
    <3> QED BY <1>7, <3>1
  <2> QED BY <1>6, <2>1, <2>2, <2>3, <2>4 DEF SlotInv
<1>12. WaitInv'
  BY <1>6 DEF WaitInv
<1>13. Table' = Table
  <2>1. ASSUME NEW j \in Key
        PROVE  (IF cache'[j] # NoSlot /\ slots[cache'[j]].state = "done"
                THEN slots[cache'[j]].value ELSE NoValue) =
               (IF cache[j] # NoSlot /\ slots[cache[j]].state = "done"
                THEN slots[cache[j]].value ELSE NoValue)
    BY <1>4, <1>5
  <2> QED BY <1>6, <2>1 DEF Table
<1>14. AnswerInv'
  BY <1>6, <1>13 DEF AnswerInv
<1> QED BY <1>9, <1>10, <1>11, <1>12, <1>13, <1>14

(* A guard is gone and its slot has its final state: everybody who slept on
   the slot is told, and no other slot changes. *)
LEMMA SettleStep ==
  ASSUME TypeInv, MemoInv, NEW t \in Thread, Computes(t),
         NEW st \in {"done", "failed"}, NEW v \in Thread \cup {NoValue},
         slots' = WithState(Top(t).slot, st, v),
         stack' = [stack EXCEPT ![t] = Pop(t)],
         call' = Woken(Top(t).slot),
         UNCHANGED <<cache, raising>>,
         st = "failed" => \A j \in Key : cache[j] # Top(t).slot,
         st = "done" => cache[Top(t).key] = Top(t).slot
  PROVE  FrameInv' /\ OwnSlot' /\ SlotInv' /\ WaitInv'
<1> USE DEF MemoInv
<1> DEFINE d == Depth(t)
           s == Top(t).slot
<1>1. /\ Top(t) = stack[t][d] /\ d \in 1 .. Depth(t) /\ d \in Nat
      /\ Top(t) \in Frame
  BY TopFacts DEF Depth
<1>2. s \in SlotId /\ s = stack[t][d].slot
  BY <1>1 DEF Frame
<1>3. slots[s].state = "computing" /\ slots[s].key = Top(t).key
  BY <1>1, <1>2 DEF FrameInv
<1>4. /\ SlotId' = SlotId /\ slots'[s].state = st /\ slots'[s].value = v
      /\ slots'[s].key = slots[s].key
      /\ \A r \in SlotId : r # s => slots'[r] = slots[r]
  BY <1>2, StateChanged
<1>5. /\ \A u \in Thread : \A i \in 1 .. Depth(u)' :
           /\ i \in 1 .. Depth(u) /\ stack'[u][i] = stack[u][i]
           /\ u # t \/ i # d
      /\ \A u \in Thread : \A i \in 1 .. Depth(u) :
           i \in 1 .. Depth(u)' \/ (u = t /\ i = d)
      /\ \A u \in Thread : u # t => Depth(u)' = Depth(u)
      /\ Depth(t)' = d - 1
  <2>1. stack'[t] = Pop(t) /\ \A u \in Thread : u # t => stack'[u] = stack[u]
    BY DEF TypeInv, TypeOK
  <2>2. Len(Pop(t)) = d - 1 /\ \A i \in 1 .. Len(Pop(t)) : Pop(t)[i] = stack[t][i]
    BY TopFacts
  <2>3. \A u \in Thread : Len(stack[u]) \in Nat
    BY DEF TypeInv, TypeOK
  <2> QED BY <1>1, <2>1, <2>2, <2>3 DEF Depth
<1>6. call' \in [Thread -> Call] /\ \A u \in Thread :
        /\ call'[u].key = call[u].key /\ call'[u].slot = call[u].slot
        /\ call'[u].at = IF call[u].at = "asleep" /\ call[u].slot = s
                         THEN "checking" ELSE call[u].at
  BY WokenType
<1> HIDE DEF d, s
<1>7. \A u \in Thread : \A i \in 1 .. Depth(u)' :
        stack[u][i].slot \in SlotId /\ stack[u][i].slot # s
  BY <1>1, <1>2, <1>5, SlotFacts DEF OwnSlot
<1>8. FrameInv'
  <2> SUFFICES ASSUME NEW u \in Thread, NEW i \in 1 .. Depth(u)'
               PROVE  LET g == stack'[u][i]
                      IN /\ slots'[g.slot].state = "computing"
                         /\ slots'[g.slot].key = g.key
                         /\ ~g.dropped => cache[g.key] = g.slot
                         /\ g.dropped => /\ raising[u] /\ i = Depth(u)'
                                         /\ \A j \in Key : cache[j] # g.slot
    BY DEF FrameInv
  <2>1. i \in 1 .. Depth(u) /\ stack'[u][i] = stack[u][i]
    BY <1>5
  <2>2. slots'[stack[u][i].slot] = slots[stack[u][i].slot]
    BY <1>4, <1>7
  <2>3. ASSUME stack[u][i].dropped PROVE i = Depth(u)'
    <3>1. i = Depth(u)
      BY <2>1, <2>3 DEF FrameInv
    <3> QED BY <1>1, <1>5, <2>1, <3>1 DEF d
  <2> QED BY <2>1, <2>2, <2>3 DEF FrameInv
<1>9. OwnSlot'
  BY <1>5 DEF OwnSlot
<1>10. SlotInv'
  <2>1. ASSUME NEW j \in Key, cache[j] # NoSlot
        PROVE  slots'[cache[j]].key = j /\ slots'[cache[j]].state # "failed"
    <3>1. /\ cache[j] \in SlotId
          /\ slots[cache[j]].key = j /\ slots[cache[j]].state # "failed"
      BY <2>1, SlotFacts DEF SlotInv
    <3>2. CASE cache[j] = s
      BY <1>3, <1>4, <3>1, <3>2 DEF s
    <3>3. CASE cache[j] # s
      BY <1>4, <3>1, <3>3
    <3> QED BY <3>2, <3>3
  <2>2. ASSUME NEW r \in SlotId, slots'[r].state = "done"
        PROVE  cache[slots'[r].key] = r
    <3>1. CASE r = s
      BY <1>3, <1>4, <2>2, <3>1 DEF s
    <3>2. CASE r # s
      BY <1>4, <2>2, <3>2 DEF SlotInv
    <3> QED BY <3>1, <3>2
  <2>3. ASSUME NEW r \in SlotId, slots'[r].state = "computing"
        PROVE  \E u \in Thread : \E i \in 1 .. Depth(u)' : stack'[u][i].slot = r
    <3>1. r # s
      BY <1>4, <2>3
    <3>2. slots[r].state = "computing"
      BY <1>4, <2>3, <3>1
    <3>3. \E u \in Thread : \E i \in 1 .. Depth(u) : stack[u][i].slot = r
      BY <3>2 DEF SlotInv
    <3> QED BY <1>2, <1>5, <3>1, <3>3
  <2> QED BY <1>4, <2>1, <2>2, <2>3 DEF SlotInv
<1>11. WaitInv'
  <2>1. \A u \in Thread : raising'[u] => call'[u].at = "none"
    BY <1>6 DEF WaitInv
  <2>2. ASSUME NEW u \in Thread, call'[u].at \in {"checking", "asleep"}
        PROVE  /\ slots'[call'[u].slot].key = call'[u].key
               /\ call'[u].at = "asleep" => slots'[call'[u].slot].state = "computing"
    <3>1. call[u].at \in {"checking", "asleep"} /\ call[u].slot \in SlotId
      BY <1>6, <2>2 DEF TypeInv, CallTyped
    <3>2. CASE call[u].slot = s
      <4>1. call'[u].at # "asleep"
        BY <1>6, <3>2
      <4> QED BY <1>4, <1>6, <3>1, <3>2, <4>1 DEF WaitInv
    <3>3. CASE call[u].slot # s
      BY <1>4, <1>6, <3>1, <3>3 DEF WaitInv
    <3> QED BY <3>2, <3>3
  <2> QED BY <2>1, <2>2 DEF WaitInv
<1> QED BY <1>8, <1>9, <1>10, <1>11

(* A thread that does not unwind has its innermost slot in the cache. *)
LEMMA TopCached ==
  ASSUME TypeInv, FrameInv, NEW t \in Thread, Computes(t), ~raising[t]
  PROVE  /\ cache[Top(t).key] = Top(t).slot /\ Top(t).key \in Key
         /\ Top(t).slot \in SlotId
         /\ slots[Top(t).slot].state = "computing"
<1>1. /\ Top(t) = stack[t][Depth(t)] /\ Depth(t) \in 1 .. Depth(t)
      /\ Top(t) \in Frame
  BY TopFacts DEF Depth
<1>2. Top(t).key \in Key /\ Top(t).slot \in SlotId
  BY <1>1 DEF Frame
<1>3. ~stack[t][Depth(t)].dropped
  BY <1>1 DEF FrameInv
<1> QED BY <1>1, <1>2, <1>3 DEF FrameInv

(* Completing a computation fills the table's entry for its key. *)
LEMMA CompleteFills ==
  ASSUME TypeInv, MemoInv, NEW t \in Thread, Complete(t)
  PROVE  /\ Table[Top(t).key] = NoValue /\ Top(t).key \in Key
         /\ Table' = [Table EXCEPT ![Top(t).key] = t]
<1> DEFINE k == Top(t).key
           s == Top(t).slot
<1>1. ~raising[t] /\ Computes(t)
  BY DEF Complete, Evaluating
<1>2. /\ cache[k] = s /\ k \in Key /\ s \in SlotId
      /\ slots[s].state = "computing"
  BY <1>1, TopCached DEF MemoInv
<1>3. slots' = WithState(s, "done", t) /\ UNCHANGED cache
  BY DEF Complete
<1> HIDE DEF k, s
<1>4. /\ slots'[s].state = "done" /\ slots'[s].value = t
      /\ \A r \in SlotId : r # s => slots'[r] = slots[r]
  BY <1>2, <1>3, StateChanged
<1>5. s # NoSlot /\ \A j \in Key : cache[j] # NoSlot => cache[j] \in SlotId
  BY <1>2, SlotFacts
<1>6. \A j \in Key : j # k => cache[j] # s
  <2>1. ASSUME NEW j \in Key, cache[j] = s PROVE slots[s].key = j
    BY <1>5, <2>1 DEF MemoInv, SlotInv
  <2>2. slots[s].key = k
    BY <1>2, <2>1
  <2> QED BY <2>1, <2>2
<1>7. Table[k] = NoValue
  BY <1>2 DEF Table
<1>8. ASSUME NEW j \in Key
      PROVE  (IF cache[j] # NoSlot /\ slots'[cache[j]].state = "done"
              THEN slots'[cache[j]].value ELSE NoValue) =
             (IF j = k THEN t
              ELSE IF cache[j] # NoSlot /\ slots[cache[j]].state = "done"
              THEN slots[cache[j]].value ELSE NoValue)
  BY <1>2, <1>4, <1>5, <1>6
<1>9. Table' = [Table EXCEPT ![k] = t]
  BY <1>3, <1>8 DEF Table
<1> QED BY <1>2, <1>7, <1>9 DEF k

LEMMA CompleteStep ==
  ASSUME TypeInv, MemoInv, NEW t \in Thread, Complete(t)
  PROVE  MemoInv'
<1>1. /\ slots' = WithState(Top(t).slot, "done", t)
      /\ stack' = [stack EXCEPT ![t] = Pop(t)]
      /\ call' = Woken(Top(t).slot)
      /\ UNCHANGED <<cache, raising>> /\ ~raising[t] /\ Computes(t)
      /\ answered' = answered \cup {<<Top(t).key, t>>}
  BY DEF Complete, Evaluating
<1>2. cache[Top(t).key] = Top(t).slot
  BY <1>1, TopCached DEF MemoInv
<1>3. FrameInv' /\ OwnSlot' /\ SlotInv' /\ WaitInv'
  BY <1>1, <1>2, SettleStep
<1>4. AnswerInv'
  <2>1. ASSUME NEW a \in answered PROVE Table'[a[1]] = a[2]
    <3>1. a[1] \in Key /\ a[2] \in Thread /\ Table[a[1]] = a[2]
      BY DEF TypeInv, TypeOK, MemoInv, AnswerInv
    <3>2. a[1] # Top(t).key
      BY <3>1, CompleteFills, MemoizeAssumption
    <3>3. Table'[a[1]] = Table[a[1]]
      BY <3>1, <3>2, CompleteFills DEF Table
    <3> QED BY <3>1, <3>3
  <2>2. Table'[Top(t).key] = t
    BY CompleteFills DEF Table
  <2> QED BY <1>1, <2>1, <2>2 DEF AnswerInv
<1> QED BY <1>3, <1>4 DEF MemoInv

(* The second half of Drop: nobody finds the slot in the cache any more. *)
LEMMA MarkFailedStep ==
  ASSUME TypeInv, MemoInv, NEW t \in Thread, MarkFailed(t)
  PROVE  MemoInv' /\ Table' = Table
<1>1. /\ slots' = WithState(Top(t).slot, "failed", NoValue)
      /\ stack' = [stack EXCEPT ![t] = Pop(t)]
      /\ call' = Woken(Top(t).slot)
      /\ UNCHANGED <<cache, raising, answered>> /\ Computes(t) /\ Top(t).dropped
  BY DEF MarkFailed
<1>2. /\ Top(t) = stack[t][Depth(t)] /\ Depth(t) \in 1 .. Depth(t)
      /\ Top(t).slot \in SlotId
  BY <1>1, TopFacts DEF Depth, Frame
<1>3. \A j \in Key : cache[j] # Top(t).slot
  BY <1>1, <1>2 DEF MemoInv, FrameInv
<1>4. FrameInv' /\ OwnSlot' /\ SlotInv' /\ WaitInv'
  BY <1>1, <1>3, SettleStep
<1>5. \A r \in SlotId : r # Top(t).slot => slots'[r] = slots[r]
  BY <1>1, <1>2, StateChanged
<1>6. ASSUME NEW j \in Key
      PROVE  (IF cache[j] # NoSlot /\ slots'[cache[j]].state = "done"
              THEN slots'[cache[j]].value ELSE NoValue) =
             (IF cache[j] # NoSlot /\ slots[cache[j]].state = "done"
              THEN slots[cache[j]].value ELSE NoValue)
  BY <1>3, <1>5, SlotFacts
<1>7. Table' = Table
  BY <1>1, <1>6 DEF Table
<1>8. AnswerInv'
  BY <1>1, <1>7 DEF MemoInv, AnswerInv
<1> QED BY <1>4, <1>7, <1>8 DEF MemoInv

LEMMA MemoInvNext == TypeInv /\ MemoInv /\ [Next]_vars => MemoInv'
<1> SUFFICES ASSUME TypeInv, MemoInv, [Next]_vars PROVE MemoInv'
  OBVIOUS
<1>1. CASE UNCHANGED vars
  <2>1. FrameInv' /\ OwnSlot' /\ SlotInv'
    BY <1>1, FramesKept DEF MemoInv, vars, Depth
  <2>2. WaitInv' /\ AnswerInv'
    BY <1>1, AnswersKept DEF MemoInv, WaitInv, vars
  <2> QED BY <2>1, <2>2 DEF MemoInv
<1>2. CASE \E t \in Thread : Step(t) \/ Raise(t) \/ SpuriousWake(t)
  BY <1>2, QuietStep, RegisterStep, UncacheStep, CompleteStep, MarkFailedStep DEF Step
<1> QED BY <1>1, <1>2 DEF Next, AllExported

LEMMA AlwaysMemo == Spec => [](TypeInv /\ MemoInv)
BY TypeInvInit, TypeInvNext, MemoInvInit, MemoInvNext, PTL DEF Spec

-----------------------------------------------------------------------------
(* The properties.                                                         *)

(* rtkMemoize returns one JSON per key, whoever asks, whoever failed in
   between and however often the computation was started over: what was once
   answered is what the table still holds. *)
THEOREM Agrees == Spec => []Agreement
<1>1. AnswerInv => Agreement
  BY DEF AnswerInv, Agreement
<1> QED BY <1>1, AlwaysMemo, PTL DEF MemoInv

(* One worker computes a key at a time: two computations whose guard has not
   given the key up are the cached one. *)
THEOREM ComputesOnce == Spec => []SingleFlight
<1>1. TypeInv /\ MemoInv => SingleFlight
  <2> SUFFICES ASSUME TypeInv, MemoInv, NEW t \in Thread, NEW u \in Thread,
                      NEW i \in 1 .. Depth(t), NEW j \in 1 .. Depth(u),
                      stack[t][i].key = stack[u][j].key,
                      ~stack[t][i].dropped, ~stack[u][j].dropped
               PROVE  t = u /\ i = j
    BY DEF SingleFlight
  <2>1. stack[t][i].slot = stack[u][j].slot
    BY DEF MemoInv, FrameInv
  <2> QED BY <2>1 DEF MemoInv, OwnSlot
<1> QED BY <1>1, AlwaysMemo, PTL

(* No wakeup is lost: whoever sleeps on a slot's condition variable sleeps on
   one that a thread has yet to complete or to mark failed. *)
THEOREM SleepersAreRemembered == Spec => []SleeperIsRemembered
<1>1. TypeInv /\ MemoInv => SleeperIsRemembered
  BY DEF TypeInv, CallTyped, MemoInv, WaitInv, SlotInv, SleeperIsRemembered
<1> QED BY <1>1, AlwaysMemo, PTL

LEMMA StepImplements ==
  TypeInv /\ MemoInv /\ [Next]_vars => [Promise!Next]_(Promise!tableVars)
<1> SUFFICES ASSUME TypeInv, MemoInv, [Next]_vars
             PROVE  Promise!Next \/ (Table' = Table /\ answered' = answered)
  BY DEF Promise!tableVars
<1>1. CASE UNCHANGED vars
  BY <1>1 DEF vars, Table
<1>2. ASSUME NEW t \in Thread, Complete(t)
      PROVE  Promise!Next
  <2>1. Promise!Fill(Top(t).key, t)
    BY <1>2, CompleteFills DEF Promise!Fill, Complete
  <2> QED BY <1>2, <2>1, CompleteFills DEF Promise!Next
<1>3. ASSUME NEW t \in Thread, Read(t)
      PROVE  Promise!Next \/ (Table' = Table /\ answered' = answered)
  <2> DEFINE k == call[t].key
             s == call[t].slot
  <2>1. k \in Key /\ s \in SlotId /\ slots[s].key = k
    BY <1>3 DEF Read, TypeInv, CallTyped, MemoInv, WaitInv
  <2>2. Table' = Table
    BY <1>3 DEF Read, Table
  <2>3. CASE slots[s].state = "done"
    <3>1. cache[k] = s /\ s # NoSlot
      BY <2>1, <2>3, SlotFacts DEF MemoInv, SlotInv
    <3>2. Table[k] = slots[s].value /\ slots[s].value \in Thread
      BY <2>1, <2>3, <3>1 DEF Table, TypeInv, ValueTyped
    <3>3. answered' = answered \cup {<<k, slots[s].value>>}
      BY <1>3, <2>3 DEF Read
    <3>4. Promise!Hit(k)
      BY <2>2, <3>2, <3>3, MemoizeAssumption DEF Promise!Hit
    <3> QED BY <2>1, <3>4 DEF Promise!Next
  <2>4. CASE slots[s].state # "done"
    BY <1>3, <2>2, <2>4 DEF Read
  <2> QED BY <2>3, <2>4
<1>4. ASSUME NEW t \in Thread,
             Register(t) \/ Uncache(t) \/ MarkFailed(t)
      PROVE  Table' = Table /\ answered' = answered
  BY <1>4, RegisterStep, UncacheStep, MarkFailedStep DEF Register, Uncache, MarkFailed
<1>5. ASSUME NEW t \in Thread,
             \/ Ask(t) \/ Nest(t) \/ Enter(t) \/ Find(t)
             \/ SpuriousWake(t) \/ Raise(t) \/ Unwound(t)
      PROVE  Table' = Table /\ answered' = answered
  <2>1. UNCHANGED <<cache, slots, answered>>
    BY <1>5 DEF Ask, Nest, Enter, Find, SpuriousWake, Raise, Unwound
  <2> QED BY <2>1 DEF Table
<1> QED BY <1>1, <1>2, <1>3, <1>4, <1>5 DEF Next, Step, AllExported

(* The cache implements the set-once table of MemoTable: completing fills an
   entry, reading a finished slot is a hit, and registering, failing, waiting
   and starting over change nothing the table's clients can see. *)
THEOREM TableIsImplemented == Spec => ImplementsTable
<1>1. Init => Promise!Init
  BY DEF Init, Promise!Init, Table
<1> QED BY <1>1, StepImplements, AlwaysMemo, PTL DEF Spec, ImplementsTable, Promise!Spec

-----------------------------------------------------------------------------
(* Who waits for whom.                                                     *)

(* Each computation was asked for by the one below it, and the call by the
   innermost; no thread waits for a key that it computes itself. *)
Asked(t, frames, c) ==
  /\ \A i \in 1 .. Len(frames) :
       \A j \in 1 .. Len(frames[i].todo) : Needed(t, frames[i].key, frames[i].todo[j])
  /\ \A i \in 1 .. Len(frames) - 1 : Needed(t, frames[i].key, frames[i + 1].key)
  /\ c.at # "none" /\ frames # <<>> => Needed(t, frames[Len(frames)].key, c.key)
  /\ c.at \in {"looking", "checking", "asleep"} =>
       \A i \in 1 .. Len(frames) : frames[i].key # c.key

AskedInv == \A t \in Thread : Asked(t, stack[t], call[t])

(* The thread that takes a step leaves the others as they are, or wakes them. *)
LEMMA AskedOfOthers ==
  ASSUME TypeInv, AskedInv, NEW u \in Thread,
         stack'[u] = stack[u],
         call'[u] = call[u] \/ \E s : call'[u] = Woken(s)[u]
  PROVE  Asked(u, stack'[u], call'[u])
<1>1. Asked(u, stack[u], call[u])
  BY DEF AskedInv
<1>2. /\ call'[u].key = call[u].key
      /\ call'[u].at = call[u].at \/ (call'[u].at = "checking" /\ call[u].at = "asleep")
  BY WokenType
<1>. QED  BY <1>1, <1>2 DEF Asked

(* A thread that pops its stack is in no call. *)
LEMMA AskedOfRest ==
  ASSUME TypeInv, AskedInv, NEW t \in Thread, Computes(t), call[t].at = "none",
         NEW c, c.at = "none"
  PROVE  Asked(t, Pop(t), c)
<1>1. Asked(t, stack[t], call[t])
  BY DEF AskedInv
<1>2. /\ Depth(t) \in Nat \ {0} /\ Len(stack[t]) = Depth(t)
      /\ Len(Pop(t)) = Depth(t) - 1
      /\ \A i \in 1 .. Len(Pop(t)) : Pop(t)[i] = stack[t][i]
  BY TopFacts DEF Depth
<1>3. ASSUME NEW i \in 1 .. Len(Pop(t)), NEW j \in 1 .. Len(Pop(t)[i].todo)
      PROVE  Needed(t, Pop(t)[i].key, Pop(t)[i].todo[j])
  <2>1. i \in 1 .. Len(stack[t]) /\ Pop(t)[i] = stack[t][i]
    BY <1>2
  <2>. QED  BY <1>1, <2>1 DEF Asked
<1>4. ASSUME NEW i \in 1 .. Len(Pop(t)) - 1
      PROVE  Needed(t, Pop(t)[i].key, Pop(t)[i + 1].key)
  <2>1. /\ i \in 1 .. Len(stack[t]) - 1
        /\ Pop(t)[i] = stack[t][i] /\ Pop(t)[i + 1] = stack[t][i + 1]
    BY <1>2
  <2>. QED  BY <1>1, <2>1 DEF Asked
<1>. QED  BY <1>3, <1>4 DEF Asked

(* Registering pushes what was asked for. *)
LEMMA AskedOfNew ==
  ASSUME TypeInv, AskedInv, NEW t \in Thread, call[t].at = "looking",
         NEW f, f.key = call[t].key, f.todo = Needs[t][f.key],
         NEW c, c.at = "none"
  PROVE  Asked(t, Append(stack[t], f), c)
<1> DEFINE n == Len(stack[t])
           pushed == Append(stack[t], f)
<1>1. Asked(t, stack[t], call[t])
  BY DEF AskedInv
<1>2. /\ n \in Nat /\ Len(pushed) = n + 1 /\ pushed[n + 1] = f
      /\ \A i \in 1 .. n : pushed[i] = stack[t][i]
      /\ n # 0 => stack[t] # <<>>
  <2>1. stack[t] \in Seq(Frame)
    BY DEF TypeInv, TypeOK
  <2>. QED  BY <2>1
<1> HIDE DEF pushed, n
<1>3. ASSUME NEW i \in 1 .. Len(pushed), NEW j \in 1 .. Len(pushed[i].todo)
      PROVE  Needed(t, pushed[i].key, pushed[i].todo[j])
  <2>1. CASE i = n + 1
    BY <1>2, <2>1 DEF Needed
  <2>2. CASE i # n + 1
    <3>1. i \in 1 .. n /\ pushed[i] = stack[t][i]
      BY <1>2, <2>2
    <3>. QED  BY <1>1, <3>1 DEF Asked, n
  <2>. QED  BY <2>1, <2>2
<1>4. ASSUME NEW i \in 1 .. Len(pushed) - 1
      PROVE  Needed(t, pushed[i].key, pushed[i + 1].key)
  <2>1. i \in 1 .. n /\ pushed[i] = stack[t][i]
    BY <1>2
  <2>2. CASE i = n
    <3>1. Needed(t, stack[t][Len(stack[t])].key, call[t].key)
      BY <1>1, <1>2, <2>1, <2>2 DEF Asked
    <3>. QED  BY <1>2, <2>1, <2>2, <3>1 DEF n
  <2>3. CASE i # n
    <3>1. i \in 1 .. n - 1 /\ i + 1 \in 1 .. n /\ pushed[i + 1] = stack[t][i + 1]
      BY <1>2, <2>1, <2>3
    <3>. QED  BY <1>1, <2>1, <3>1 DEF Asked, n
  <2>. QED  BY <2>2, <2>3
<1>5. Asked(t, pushed, c)
  BY <1>3, <1>4 DEF Asked
<1>. QED  BY <1>5 DEF pushed

(* One thread's step: its calls, its nested ones among them. *)
LEMMA AskedByCaller ==
  ASSUME TypeInv, AskedInv, NEW t \in Thread,
         \/ Ask(t) \/ Nest(t) \/ Enter(t) \/ Find(t) \/ Read(t)
         \/ SpuriousWake(t) \/ Raise(t) \/ Unwound(t)
  PROVE  /\ Asked(t, stack'[t], call'[t])
         /\ \A u \in Thread \ {t} : stack'[u] = stack[u] /\ call'[u] = call[u]
<1>1. /\ Asked(t, stack[t], call[t])
      /\ call \in [Thread -> Call] /\ stack \in [Thread -> Seq(Frame)]
  BY DEF AskedInv, TypeInv, TypeOK
<1>2. CASE Ask(t)
  <2>1. /\ stack[t] = <<>> /\ UNCHANGED stack
        /\ call' = [call EXCEPT ![t] = CallOf("calling", Head(wants[t]), NoSlot)]
    BY <1>2 DEF Ask, Computes
  <2>2. call'[t].at = "calling" /\ \A u \in Thread \ {t} : call'[u] = call[u]
    BY <1>1, <2>1 DEF CallOf
  <2>. QED  BY <1>1, <2>1, <2>2 DEF Asked
<1>3. CASE Nest(t)
  <2> DEFINE todo == Tail(Top(t).todo)
             f == [key |-> Top(t).key, slot |-> Top(t).slot,
                   todo |-> todo, dropped |-> Top(t).dropped]
  <2>1. /\ Depth(t) \in 1 .. Len(stack[t]) /\ Depth(t) = Len(stack[t])
        /\ Top(t) \in Frame /\ Top(t) = stack[t][Depth(t)]
        /\ stack[t] \in Seq(Frame)
    BY <1>1, <1>3, TopFacts DEF Nest, Depth
  <2>2. /\ Top(t).todo \in Seq(Key) /\ Top(t).todo # <<>>
        /\ Head(Top(t).todo) = Top(t).todo[1] /\ 1 \in 1 .. Len(Top(t).todo)
        /\ \A j \in 1 .. Len(todo) : /\ j + 1 \in 1 .. Len(Top(t).todo)
                                    /\ todo[j] = Top(t).todo[j + 1]
    BY <1>3, <2>1 DEF Nest, Frame
  <2>3. /\ Needed(t, Top(t).key, Head(Top(t).todo))
        /\ \A j \in 1 .. Len(todo) : Needed(t, Top(t).key, todo[j])
    BY <1>1, <2>1, <2>2 DEF Asked
  <2>4. [Top(t) EXCEPT !.todo = todo] = f
    BY <2>1, FrameExcept
  <2>5. stack' = [stack EXCEPT ![t] = [stack[t] EXCEPT ![Depth(t)] =
                    [Top(t) EXCEPT !.todo = todo]]]
    BY <1>3, <2>1, Zenon DEF Nest
  <2>6. stack' = [stack EXCEPT ![t] = [stack[t] EXCEPT ![Depth(t)] = f]]
    BY <2>4, <2>5, Zenon
  <2>7. f.key = Top(t).key /\ f.todo = todo
    OBVIOUS
  <2> HIDE DEF f, todo
  <2>8. /\ Len(stack'[t]) = Len(stack[t]) /\ stack'[t][Depth(t)] = f
        /\ \A i \in 1 .. Len(stack[t]) : i # Depth(t) => stack'[t][i] = stack[t][i]
        /\ \A u \in Thread \ {t} : stack'[u] = stack[u]
    BY <1>1, <2>1, <2>6
  <2>9. /\ call' = [call EXCEPT ![t] = CallOf("calling", Head(Top(t).todo), NoSlot)]
        /\ call'[t].at = "calling" /\ call'[t].key = Head(Top(t).todo)
        /\ \A u \in Thread \ {t} : call'[u] = call[u]
    BY <1>1, <1>3 DEF Nest, CallOf
  <2>10. \A i \in 1 .. Len(stack[t]) : stack'[t][i].key = stack[t][i].key
    BY <2>1, <2>7, <2>8
  <2>11. ASSUME NEW i \in 1 .. Len(stack'[t]), NEW j \in 1 .. Len(stack'[t][i].todo)
         PROVE  Needed(t, stack'[t][i].key, stack'[t][i].todo[j])
    <3>1. CASE i = Depth(t)
      BY <2>3, <2>7, <2>8, <3>1
    <3>2. CASE i # Depth(t)
      BY <1>1, <2>8, <3>2 DEF Asked
    <3>. QED  BY <3>1, <3>2
  <2>12. ASSUME NEW i \in 1 .. Len(stack'[t]) - 1
         PROVE  Needed(t, stack'[t][i].key, stack'[t][i + 1].key)
    <3>1. i \in 1 .. Len(stack[t]) - 1 /\ i \in 1 .. Len(stack[t]) /\ i + 1 \in 1 .. Len(stack[t])
      BY <2>1, <2>8
    <3>. QED  BY <1>1, <2>10, <3>1 DEF Asked
  <2>13. Needed(t, stack'[t][Len(stack'[t])].key, call'[t].key)
    BY <2>1, <2>3, <2>7, <2>8, <2>9
  <2>. QED  BY <2>8, <2>9, <2>11, <2>12, <2>13 DEF Asked
<1>4. CASE Enter(t)
  <2>1. /\ UNCHANGED stack
        /\ \/ call' = [call EXCEPT ![t] = NoCall]
           \/ /\ ~IsActive(t, call[t].key)
              /\ call' = [call EXCEPT ![t] = CallOf("looking", call[t].key, NoSlot)]
        /\ call[t].at = "calling"
    BY <1>4 DEF Enter
  <2>2. \/ call'[t].at = "none"
        \/ /\ call'[t].at = "looking" /\ call'[t].key = call[t].key
           /\ \A i \in 1 .. Len(stack[t]) : stack[t][i].key # call[t].key
    BY <1>1, <2>1 DEF NoCall, CallOf, IsActive, Depth
  <2>. QED  BY <1>1, <2>1, <2>2 DEF Asked
<1>5. CASE Find(t) \/ SpuriousWake(t)
  <2>1. /\ UNCHANGED stack
        /\ call[t].at \in {"looking", "asleep"}
        /\ call'[t].at = "checking" /\ call'[t].key = call[t].key
        /\ \A u \in Thread \ {t} : call'[u] = call[u]
    BY <1>1, <1>5 DEF Find, SpuriousWake, CallOf
  <2>. QED  BY <1>1, <2>1 DEF Asked
<1>6. CASE Read(t)
  <2>1. UNCHANGED stack /\ call[t].at = "checking"
    BY <1>6 DEF Read
  <2>2. \/ call' = [call EXCEPT ![t] = NoCall]
        \/ call' = [call EXCEPT ![t] = CallOf("looking", call[t].key, NoSlot)]
        \/ call' = [call EXCEPT ![t] = CallOf("asleep", call[t].key, call[t].slot)]
    BY <1>6 DEF Read
  <2>3. /\ \/ call'[t].at = "none"
           \/ call'[t].at \in {"looking", "asleep"} /\ call'[t].key = call[t].key
        /\ \A u \in Thread \ {t} : call'[u] = call[u]
    BY <1>1, <2>2 DEF NoCall, CallOf
  <2>. QED  BY <1>1, <2>1, <2>3 DEF Asked
<1>7. CASE Raise(t) \/ Unwound(t)
  <2>1. UNCHANGED <<stack, call>>
    BY <1>7 DEF Raise, Unwound
  <2>. QED  BY <1>1, <2>1
<1>. QED  BY <1>2, <1>3, <1>4, <1>5, <1>6, <1>7

(* ... and its computations, which begin, fail and end. *)
LEMMA AskedByComputation ==
  ASSUME TypeInv, WaitInv, AskedInv, NEW t \in Thread,
         Register(t) \/ Uncache(t) \/ Complete(t) \/ MarkFailed(t)
  PROVE  /\ Asked(t, stack'[t], call'[t])
         /\ \A u \in Thread \ {t} :
              stack'[u] = stack[u] /\ (call'[u] = call[u] \/ \E s : call'[u] = Woken(s)[u])
<1>1. /\ Asked(t, stack[t], call[t])
      /\ call \in [Thread -> Call] /\ stack \in [Thread -> Seq(Frame)]
      /\ raising[t] => call[t].at = "none"
  BY DEF AskedInv, TypeInv, TypeOK, WaitInv
<1>2. CASE Register(t)
  <2> DEFINE f == [key |-> call[t].key, slot |-> Len(slots) + 1,
                   todo |-> Needs[t][call[t].key], dropped |-> FALSE]
  <2>1. /\ call[t].at = "looking" /\ call' = [call EXCEPT ![t] = NoCall]
        /\ stack' = [stack EXCEPT ![t] = Append(@, f)]
        /\ f.key = call[t].key /\ f.todo = Needs[t][f.key]
    BY <1>2 DEF Register
  <2> HIDE DEF f
  <2>2. /\ call'[t].at = "none" /\ stack'[t] = Append(stack[t], f)
        /\ \A u \in Thread \ {t} : stack'[u] = stack[u] /\ call'[u] = call[u]
    BY <1>1, <2>1 DEF NoCall
  <2>3. Asked(t, Append(stack[t], f), call'[t])
    BY <2>1, <2>2, AskedOfNew
  <2>. QED  BY <2>2, <2>3
<1>3. CASE Uncache(t)
  <2> DEFINE f == [key |-> Top(t).key, slot |-> Top(t).slot,
                   todo |-> Top(t).todo, dropped |-> TRUE]
  <2>1. /\ Depth(t) \in 1 .. Len(stack[t]) /\ Top(t) = stack[t][Depth(t)]
        /\ stack[t] \in Seq(Frame)
        /\ stack' = [stack EXCEPT ![t] = [stack[t] EXCEPT ![Depth(t)] = f]]
    BY <1>1, <1>3, TopFacts, TopDropped DEF Uncache
  <2>2. f.key = Top(t).key /\ f.todo = Top(t).todo
    OBVIOUS
  <2> HIDE DEF f
  <2>3. /\ Len(stack'[t]) = Len(stack[t])
        /\ \A i \in 1 .. Len(stack[t]) : /\ stack'[t][i].key = stack[t][i].key
                                        /\ stack'[t][i].todo = stack[t][i].todo
        /\ \A u \in Thread \ {t} : stack'[u] = stack[u]
    BY <1>1, <2>1, <2>2
  <2>4. UNCHANGED call /\ call[t].at = "none"
    BY <1>1, <1>3 DEF Uncache
  <2>5. ASSUME NEW i \in 1 .. Len(stack[t]) - 1
        PROVE  i \in 1 .. Len(stack[t]) /\ i + 1 \in 1 .. Len(stack[t])
    BY <2>1
  <2>. QED  BY <1>1, <2>3, <2>4, <2>5 DEF Asked
<1>4. CASE Complete(t) \/ MarkFailed(t)
  <2>1. /\ Computes(t) /\ call[t].at = "none"
        /\ stack' = [stack EXCEPT ![t] = Pop(t)]
        /\ call' = Woken(Top(t).slot)
    BY <1>1, <1>4 DEF Complete, MarkFailed, Evaluating
  <2>2. stack'[t] = Pop(t) /\ \A u \in Thread \ {t} : stack'[u] = stack[u]
    BY <1>1, <2>1
  <2>3. call'[t].at = "none"
    BY <2>1, WokenType
  <2>4. Asked(t, Pop(t), call'[t])
    BY <2>1, <2>3, AskedOfRest
  <2>. QED  BY <2>1, <2>2, <2>4
<1>. QED  BY <1>2, <1>3, <1>4

LEMMA AskedInit == Init => AskedInv
<1> SUFFICES ASSUME Init, NEW t \in Thread PROVE Asked(t, stack[t], call[t])
  BY DEF AskedInv
<1>1. stack[t] = <<>> /\ Len(stack[t]) = 0 /\ call[t].at = "none"
  BY DEF Init, NoCall
<1>. QED  BY <1>1 DEF Asked

LEMMA AskedNext == TypeInv /\ WaitInv /\ AskedInv /\ [Next]_vars => AskedInv'
<1> SUFFICES ASSUME TypeInv, WaitInv, AskedInv, [Next]_vars PROVE AskedInv'
  OBVIOUS
<1>1. CASE UNCHANGED vars
  BY <1>1 DEF vars, AskedInv
<1>2. ASSUME NEW t \in Thread, Step(t) \/ Raise(t) \/ SpuriousWake(t)
      PROVE  AskedInv'
  <2>1. /\ Asked(t, stack'[t], call'[t])
        /\ \A u \in Thread \ {t} :
             stack'[u] = stack[u] /\ (call'[u] = call[u] \/ \E s : call'[u] = Woken(s)[u])
    BY <1>2, AskedByCaller, AskedByComputation DEF Step
  <2>2. \A u \in Thread \ {t} : Asked(u, stack'[u], call'[u])
    BY <2>1, AskedOfOthers
  <2>. QED  BY <2>1, <2>2 DEF AskedInv
<1>. QED  BY <1>1, <1>2 DEF Next, AllExported

LEMMA AlwaysAsked == Spec => [](TypeInv /\ MemoInv /\ AskedInv)
<1>1. MemoInv => WaitInv
  BY DEF MemoInv
<1>. QED  BY <1>1, TypeInvInit, TypeInvNext, MemoInvInit, MemoInvNext, AskedInit, AskedNext, PTL DEF Spec

(* Whoever computes under the key a sleeper waits for computes that key. *)
LEMMA SleeperWaitsForComputation ==
  ASSUME TypeInv, MemoInv, NEW t \in Thread, call[t].at = "asleep"
  PROVE  \E u \in Thread : \E i \in 1 .. Depth(u) : stack[u][i].key = call[t].key
<1>1. /\ call[t].slot \in SlotId /\ slots[call[t].slot].key = call[t].key
      /\ slots[call[t].slot].state = "computing"
  BY DEF TypeInv, CallTyped, MemoInv, WaitInv
<1>2. PICK u \in Thread : \E i \in 1 .. Depth(u) : stack[u][i].slot = call[t].slot
  BY <1>1 DEF MemoInv, SlotInv
<1>3. PICK i \in 1 .. Depth(u) : stack[u][i].slot = call[t].slot
  BY <1>2
<1>4. slots[stack[u][i].slot].key = stack[u][i].key
  BY DEF MemoInv, FrameInv
<1>. QED  BY <1>1, <1>3, <1>4

(* A set in which everybody waits has no key that needs none of the others. *)
LEMMA NoRingOfSleepers ==
  ASSUME Grounded, TypeInv, MemoInv, AskedInv
  PROVE  SomeoneIsAwake
<1> SUFFICES ASSUME NEW t0 \in Thread, call[t0].at = "asleep",
                    \A t \in Thread : call[t].at = "asleep" \/ Exported(t)
             PROVE  FALSE
  BY DEF SomeoneIsAwake
<1> DEFINE HeldBySleeper(k) ==
             \E u \in Thread : /\ call[u].at = "asleep"
                              /\ \E i \in 1 .. Depth(u) : stack[u][i].key = k
           keys == {k \in Key : HeldBySleeper(k)}
<1>1. ASSUME NEW t \in Thread, call[t].at = "asleep"
      PROVE  call[t].key \in keys
  <2>1. PICK u \in Thread : \E i \in 1 .. Depth(u) : stack[u][i].key = call[t].key
    BY <1>1, SleeperWaitsForComputation
  <2>2. ~Exported(u)
    <3>1. stack[u] # <<>>
      BY <2>1 DEF Depth
    <3>. QED  BY <3>1 DEF Exported, Computes
  <2>3. call[u].at = "asleep"
    BY <2>2
  <2>4. call[t].key \in Key
    BY <1>1 DEF TypeInv, CallTyped
  <2>. QED  BY <2>1, <2>3, <2>4
<1>2. PICK k \in keys : \A t \in Thread, n \in keys \ {k} : ~Needed(t, k, n)
  <2>1. keys # {} /\ keys \in SUBSET Key
    BY <1>1
  <2> HIDE DEF keys
  <2>. QED  BY <2>1 DEF Grounded
<1>3. PICK u \in Thread : call[u].at = "asleep" /\ \E i \in 1 .. Depth(u) : stack[u][i].key = k
  BY <1>2
<1>4. PICK i \in 1 .. Depth(u) : stack[u][i].key = k
  BY <1>3
<1>5. /\ Asked(u, stack[u], call[u]) /\ stack[u] \in Seq(Frame)
      /\ Depth(u) = Len(stack[u]) /\ Depth(u) \in Nat
  BY DEF AskedInv, TypeInv, TypeOK, Depth
<1>6. \A j \in 1 .. Depth(u) : ~stack[u][j].dropped
  BY <1>3 DEF MemoInv, FrameInv, WaitInv
<1>7. CASE i = Depth(u)
  <2>1. call[u].key \in keys
    BY <1>1, <1>3
  <2>2. call[u].key # k
    BY <1>3, <1>4, <1>5 DEF Asked
  <2>3. Needed(u, k, call[u].key)
    <3>1. stack[u] # <<>>
      BY <1>4, <1>5
    <3>. QED  BY <1>3, <1>4, <1>5, <1>7, <3>1 DEF Asked
  <2> HIDE DEF keys
  <2>. QED  BY <1>2, <2>1, <2>2, <2>3
<1>8. CASE i # Depth(u)
  <2>1. i \in 1 .. Depth(u) - 1 /\ i + 1 \in 1 .. Depth(u) /\ i # i + 1
    BY <1>5, <1>8
  <2> DEFINE n == stack[u][i + 1].key
  <2>2. n \in keys
    <3>1. stack[u][i + 1] \in Frame
      BY <1>5, <2>1
    <3>2. n \in Key
      BY <3>1 DEF Frame
    <3>. QED  BY <1>3, <2>1, <3>2
  <2>3. n # k
    <3> SUFFICES ASSUME n = k PROVE FALSE
      OBVIOUS
    <3>1. cache[n] = stack[u][i + 1].slot /\ cache[k] = stack[u][i].slot
      BY <1>4, <1>6, <2>1 DEF MemoInv, FrameInv
    <3>2. stack[u][i + 1].slot = stack[u][i].slot
      BY <3>1
    <3>. QED  BY <2>1, <3>2 DEF MemoInv, OwnSlot
  <2>4. Needed(u, k, n)
    BY <1>4, <1>5, <2>1 DEF Asked
  <2> HIDE DEF keys, n
  <2>. QED  BY <1>2, <2>2, <2>3, <2>4
<1>. QED  BY <1>7, <1>8

(* When the memoized values can be ordered by what their thunks ask for, taking
   those of all environments together, the mutexes and condition variables of
   rtkMemoize never leave every thread asleep, for any number of threads,
   failures and spurious wakeups: what is detected of re-entrancy, that of one
   thread, is then all there is. *)
THEOREM NotEverybodySleeps == Grounded => (Spec => []SomeoneIsAwake)
<1> SUFFICES ASSUME Grounded PROVE Spec => []SomeoneIsAwake
  OBVIOUS
<1>1. TypeInv /\ MemoInv /\ AskedInv => SomeoneIsAwake
  BY NoRingOfSleepers
<1>. QED  BY <1>1, AlwaysAsked, PTL
-----------------------------------------------------------------------------
(* Nearer to the end: what EveryCallReturns rests on besides fairness.     *)

(* The calls that the computation at level i of a thread has yet to make;
   level 0 are its environments. *)
Rest(t, i) == IF i = 0 THEN Len(wants[t]) ELSE Len(stack[t][i].todo)

(* What is still to come of the call that the innermost level is in, and of
   the one that level i is in.  (3: the level above computes it.) *)
Inmost(t) ==
  CASE call[t].at = "calling" -> 6
    [] call[t].at = "looking" -> 5
    [] call[t].at \in {"checking", "asleep"} -> 4
    [] OTHER -> IF ~raising[t] THEN 0
                ELSE IF Computes(t) /\ Top(t).dropped THEN 1 ELSE 2

Inner(t, i) == IF i < Depth(t) THEN 3 ELSE Inmost(t)

(* At the outermost level that anything happened to, less is to come. *)
Advances(t) ==
  \E i \in 0 .. Depth(t) :
    /\ i <= Depth(t)'
    /\ \A j \in 0 .. (i - 1) : Rest(t, j)' = Rest(t, j)
    /\ \/ Rest(t, i)' < Rest(t, i)
       \/ Rest(t, i)' = Rest(t, i) /\ Inner(t, i)' < Inner(t, i)

Stays(t) == wants'[t] = wants[t] /\ stack'[t] = stack[t] /\ raising'[t] = raising[t]

(* What it waits for is being computed. *)
FallsAsleep(t) ==
  /\ Stays(t)
  /\ call[t].at = "checking" /\ call'[t].at = "asleep"
  /\ slots[call[t].slot].state = "computing"

(* What it waited for has failed, and nobody finds that slot any more. *)
Retries(t) ==
  /\ Stays(t)
  /\ call[t].at = "checking" /\ call'[t].at = "looking"
  /\ slots[call[t].slot].state = "failed"
  /\ \A k \in Key : cache[k] # call[t].slot

(* Others can only wake it up. *)
Undisturbed(t) ==
  /\ Stays(t)
  /\ \/ call'[t] = call[t]
     \/ /\ call[t].at = "asleep" /\ call'[t].at = "checking"
        /\ call'[t].key = call[t].key /\ call'[t].slot = call[t].slot

CallProgress ==
  \A t \in Thread :
    IF Step(t) THEN Advances(t) \/ FallsAsleep(t) \/ Retries(t)
    ELSE Undisturbed(t) \/ Raise(t)

LEMMA DepthFacts ==
  ASSUME TypeInv, NEW t \in Thread
  PROVE  /\ Depth(t) \in Nat
         /\ \A i \in 0 .. Depth(t) : Rest(t, i) \in Nat
<1>1. stack[t] \in Seq(Frame) /\ wants[t] \in Seq(Key)
  BY DEF TypeInv, TypeOK
<1>2. \A i \in 1 .. Len(stack[t]) : Len(stack[t][i].todo) \in Nat
  BY <1>1 DEF Frame
<1> QED BY <1>1, <1>2 DEF Depth, Rest

(* A call of the innermost level comes nearer to its answer. *)
LEMMA InnermostAdvances ==
  ASSUME TypeInv, NEW t \in Thread, wants'[t] = wants[t], stack'[t] = stack[t],
         Inmost(t)' < Inmost(t)
  PROVE  Advances(t)
<1>1. Depth(t)' = Depth(t) /\ Depth(t) \in Nat
  BY DepthFacts DEF Depth
<1>2. \A i \in 0 .. Depth(t) : Rest(t, i)' = Rest(t, i)
  BY DEF Rest
<1>3. PICK n \in 0 .. Depth(t) : n = Depth(t)
  BY <1>1
<1>4. Inner(t, n) = Inmost(t) /\ Inner(t, n)' = Inmost(t)'
  BY <1>1, <1>3 DEF Inner
<1>5. n <= Depth(t)' /\ \A j \in 0 .. (n - 1) : j \in 0 .. Depth(t)
  BY <1>1, <1>3
<1> QED BY <1>2, <1>4, <1>5 DEF Advances

(* The innermost computation ends, one way or the other. *)
LEMMA PoppedAdvances ==
  ASSUME TypeInv, NEW t \in Thread, Computes(t),
         wants'[t] = wants[t], stack' = [stack EXCEPT ![t] = Pop(t)],
         call'[t].at = "none", raising'[t] => \A i \in 1 .. Depth(t) - 1 : ~stack[t][i].dropped
  PROVE  Advances(t)
<1>1. /\ Depth(t) \in Nat \ {0} /\ stack[t] \in Seq(Frame)
      /\ Len(Pop(t)) = Depth(t) - 1
      /\ \A i \in 1 .. Depth(t) - 1 : Pop(t)[i] = stack[t][i]
  BY TopFacts DEF TypeInv, TypeOK
<1>2. stack'[t] = Pop(t)
  BY DEF TypeInv, TypeOK
<1>3. Depth(t)' = Depth(t) - 1 /\ Depth(t) - 1 \in 0 .. Depth(t)
  BY <1>1, <1>2 DEF Depth
<1>4. \A i \in 0 .. Depth(t) - 1 : Rest(t, i)' = Rest(t, i)
  BY <1>1, <1>2 DEF Rest
<1>5. Inner(t, Depth(t) - 1) = 3
  BY <1>1 DEF Inner
<1>6. \A i \in Nat : i = Depth(t) - 1 => Inner(t, i)' < 3
  <2>1. Inmost(t)' < 3
    BY DEF Inmost
  <2> QED BY <1>1, <1>3, <2>1 DEF Inner
<1> DEFINE d == Depth(t) - 1
<1>7. d \in 0 .. Depth(t) /\ d <= Depth(t)' /\ d \in Nat
  BY <1>1, <1>3
<1>8. \A n : n = d => Inner(t, n) = 3 /\ Inner(t, n)' < 3 /\ Rest(t, n)' = Rest(t, n)
  BY <1>4, <1>5, <1>6, <1>7
<1>9. \A j \in 0 .. (d - 1) : Rest(t, j)' = Rest(t, j)
  BY <1>4, <1>7
<1> HIDE DEF d
<1>10. PICK n \in 0 .. Depth(t) : n = d
  BY <1>7
<1> QED BY <1>7, <1>8, <1>9, <1>10 DEF Advances

(* The step of a thread brings it nearer to the end of its environments. *)
LEMMA StepAdvances ==
  ASSUME TypeInv, MemoInv, NEW t \in Thread, Step(t)
  PROVE  Advances(t) \/ FallsAsleep(t) \/ Retries(t)
<1>1. /\ Depth(t) \in Nat /\ stack[t] \in Seq(Frame) /\ wants[t] \in Seq(Key)
      /\ \A i \in 0 .. Depth(t) : Rest(t, i) \in Nat
  BY DepthFacts DEF TypeInv, TypeOK
<1>2. call \in [Thread -> Call] /\ \A c : [call EXCEPT ![t] = c][t] = c
  BY DEF TypeInv, TypeOK
<1>3. CASE Ask(t)
  <2>1. Depth(t) = 0 /\ stack' = stack /\ Len(wants'[t]) < Len(wants[t])
    BY <1>1, <1>3 DEF Ask, Computes, Depth, TypeInv, TypeOK
  <2>2. Depth(t)' = 0
    BY <2>1 DEF Depth
  <2>3. Rest(t, 0)' < Rest(t, 0)
    BY <2>1 DEF Rest
  <2> QED BY <2>1, <2>2, <2>3 DEF Advances
<1>4. CASE Enter(t)
  <2>1. /\ call[t].at = "calling" /\ wants'[t] = wants[t] /\ stack'[t] = stack[t]
        /\ call'[t].at \in {"none", "looking"}
    BY <1>2, <1>4 DEF Enter, NoCall, CallOf
  <2>2. Inmost(t) = 6 /\ Inmost(t)' < 6
    BY <2>1 DEF Inmost
  <2> QED BY <2>1, <2>2, InnermostAdvances
<1>5. CASE Find(t)
  <2>1. /\ call[t].at = "looking" /\ wants'[t] = wants[t] /\ stack'[t] = stack[t]
        /\ call'[t].at = "checking"
    BY <1>2, <1>5 DEF Find, CallOf
  <2>2. Inmost(t) = 5 /\ Inmost(t)' = 4
    BY <2>1 DEF Inmost
  <2> QED BY <2>1, <2>2, InnermostAdvances
<1>6. CASE Unwound(t)
  <2>1. /\ raising[t] /\ ~Computes(t) /\ wants'[t] = wants[t] /\ stack'[t] = stack[t]
        /\ ~raising'[t] /\ call' = call /\ call[t].at = "none"
    BY <1>6 DEF Unwound, MemoInv, WaitInv, TypeInv, TypeOK
  <2>2. Inmost(t) = 2 /\ Inmost(t)' = 0
    BY <2>1 DEF Inmost
  <2> QED BY <2>1, <2>2, InnermostAdvances
<1>7. CASE Read(t)
  <2>1. /\ call[t].at = "checking"
        /\ wants'[t] = wants[t] /\ stack'[t] = stack[t] /\ raising'[t] = raising[t]
    BY <1>7 DEF Read
  <2>2. call[t].slot \in SlotId
    BY <2>1 DEF TypeInv, CallTyped
  <2>3. CASE call'[t].at = "none"
    <3>1. Inmost(t) = 4 /\ Inmost(t)' < 4
      BY <2>1, <2>3 DEF Inmost
    <3> QED BY <2>1, <3>1, InnermostAdvances
  <2>4. CASE call'[t].at = "looking" /\ slots[call[t].slot].state = "failed"
    <3>1. \A k \in Key : cache[k] # call[t].slot
      <4>1. call[t].slot # NoSlot
        BY <2>2, MemoizeAssumption DEF SlotId, TypeInv, TypeOK
      <4> QED BY <2>4, <4>1 DEF MemoInv, SlotInv
    <3> QED BY <2>1, <2>4, <3>1 DEF Retries, Stays
  <2>5. CASE call'[t].at = "asleep" /\ slots[call[t].slot].state = "computing"
    BY <2>1, <2>5 DEF FallsAsleep, Stays
  <2> QED BY <1>2, <1>7, <2>3, <2>4, <2>5 DEF Read, NoCall, CallOf
<1>8. CASE Register(t)
  <2> DEFINE f == [key |-> call[t].key, slot |-> Len(slots) + 1,
                   todo |-> Needs[t][call[t].key], dropped |-> FALSE]
  <2>1. /\ call[t].at = "looking" /\ wants'[t] = wants[t]
        /\ stack' = [stack EXCEPT ![t] = Append(stack[t], f)]
    BY <1>8 DEF Register
  <2>2. stack'[t] = Append(stack[t], f)
    BY <2>1 DEF TypeInv, TypeOK
  <2> HIDE DEF f
  <2>3. Depth(t)' = Depth(t) + 1 /\ \A i \in 1 .. Depth(t) : stack'[t][i] = stack[t][i]
    BY <1>1, <2>2 DEF Depth
  <2>4. \A i \in 0 .. Depth(t) : Rest(t, i)' = Rest(t, i)
    <3>1. \A i \in 0 .. Depth(t) : i = 0 \/ i \in 1 .. Depth(t)
      BY <1>1
    <3>2. Rest(t, 0)' = Rest(t, 0)
      BY <2>1 DEF Rest
    <3>3. \A i \in 1 .. Depth(t) : Rest(t, i)' = Rest(t, i)
      BY <1>1, <2>3 DEF Rest
    <3> QED BY <3>1, <3>2, <3>3
  <2>5. Inmost(t) = 5
    BY <2>1 DEF Inmost
  <2>6. \A i \in Nat : i = Depth(t) => Inner(t, i) = 5 /\ Inner(t, i)' = 3
    BY <1>1, <2>3, <2>5 DEF Inner
  <2>7. PICK n \in 0 .. Depth(t) : n = Depth(t)
    BY <1>1
  <2>8. Inner(t, n)' < Inner(t, n) /\ n <= Depth(t)' /\ \A j \in 0 .. (n - 1) : j \in 0 .. Depth(t)
    BY <1>1, <2>3, <2>6, <2>7
  <2> QED BY <2>4, <2>7, <2>8 DEF Advances
<1>9. CASE Nest(t)
  <2>1. Depth(t) \in 1 .. Len(stack[t]) /\ Top(t) \in Frame /\ Top(t) = stack[t][Depth(t)]
        /\ Top(t).todo # <<>> /\ wants' = wants
        /\ stack' = [stack EXCEPT ![t][Depth(t)].todo = Tail(@)]
    BY <1>9, TopFacts DEF Nest
  <2>2. /\ Len(stack'[t]) = Len(stack[t])
        /\ \A i \in 1 .. Depth(t) - 1 : stack'[t][i] = stack[t][i]
        /\ stack'[t][Depth(t)].todo = Tail(Top(t).todo)
    <3>1. stack'[t] = [stack[t] EXCEPT ![Depth(t)].todo = Tail(@)]
      BY <2>1 DEF TypeInv, TypeOK
    <3>2. stack'[t] = [stack[t] EXCEPT ![Depth(t)] = [Top(t) EXCEPT !.todo = Tail(Top(t).todo)]]
      BY <2>1, <3>1, Zenon
    <3>3. [Top(t) EXCEPT !.todo = Tail(Top(t).todo)].todo = Tail(Top(t).todo)
      BY <2>1 DEF Frame
    <3> DEFINE g == [Top(t) EXCEPT !.todo = Tail(Top(t).todo)]
    <3>4. stack'[t] = [stack[t] EXCEPT ![Depth(t)] = g] /\ g.todo = Tail(Top(t).todo)
      BY <3>2, <3>3
    <3> HIDE DEF g
    <3> QED BY <1>1, <2>1, <3>4 DEF Depth
  <2>3. Len(Tail(Top(t).todo)) < Len(Top(t).todo)
    BY <2>1 DEF Frame
  <2>4. Depth(t)' = Depth(t) /\ Depth(t) \in 0 .. Depth(t) /\ Depth(t) # 0
    BY <1>1, <2>1, <2>2 DEF Depth
  <2>5. \A i \in 0 .. (Depth(t) - 1) : Rest(t, i)' = Rest(t, i)
    BY <1>1, <2>1, <2>2 DEF Rest
  <2>6. \A i \in 0 .. Depth(t) : i = Depth(t) => Rest(t, i)' < Rest(t, i)
    BY <2>1, <2>2, <2>3, <2>4 DEF Rest
  <2>7. PICK n \in 0 .. Depth(t) : n = Depth(t)
    BY <2>4
  <2> QED BY <2>4, <2>5, <2>6, <2>7 DEF Advances
<1>10. CASE Uncache(t)
  <2>1. /\ Computes(t) /\ raising[t] /\ raising' = raising /\ wants' = wants /\ call' = call
        /\ ~Top(t).dropped /\ call[t].at = "none"
    BY <1>10 DEF Uncache, MemoInv, WaitInv
  <2>2. Depth(t) \in 1 .. Len(stack[t]) /\ Top(t) \in Frame /\ Top(t) = stack[t][Depth(t)]
    BY <2>1, TopFacts
  <2> DEFINE g == [key |-> Top(t).key, slot |-> Top(t).slot, todo |-> Top(t).todo, dropped |-> TRUE]
  <2>3. stack' = [stack EXCEPT ![t] = [stack[t] EXCEPT ![Depth(t)] = g]]
    BY <1>10, <2>1, TopDropped DEF Uncache
  <2>4. g.dropped = TRUE /\ g.todo = Top(t).todo
    OBVIOUS
  <2> HIDE DEF g
  <2>5. stack'[t] = [stack[t] EXCEPT ![Depth(t)] = g]
    BY <2>3 DEF TypeInv, TypeOK
  <2>6. Depth(t)' = Depth(t) /\ stack'[t][Depth(t)] = g
        /\ \A i \in 1 .. Depth(t) : stack'[t][i].todo = stack[t][i].todo
    BY <1>1, <2>2, <2>4, <2>5 DEF Depth
  <2>7. Computes(t)' /\ Top(t)' = g
    BY <1>1, <2>2, <2>6 DEF Computes, Top, Depth
  <2>8. \A i \in 0 .. Depth(t) : Rest(t, i)' = Rest(t, i)
    BY <2>1, <2>6 DEF Rest
  <2>9. \A i \in Nat : i = Depth(t) => Inner(t, i) = 2 /\ Inner(t, i)' = 1
    <3>1. Inmost(t) = 2 /\ Inmost(t)' = 1
      BY <2>1, <2>4, <2>7 DEF Inmost
    <3> QED BY <1>1, <2>6, <3>1 DEF Inner
  <2>10. PICK n \in 0 .. Depth(t) : n = Depth(t)
    BY <1>1
  <2>11. Inner(t, n)' < Inner(t, n) /\ n <= Depth(t)' /\ \A j \in 0 .. (n - 1) : j \in 0 .. Depth(t)
    BY <1>1, <2>6, <2>9, <2>10
  <2> QED BY <2>8, <2>10, <2>11 DEF Advances
<1>11. CASE Complete(t) \/ MarkFailed(t)
  <2>1. /\ Computes(t) /\ wants'[t] = wants[t] /\ stack' = [stack EXCEPT ![t] = Pop(t)]
        /\ call[t].at = "none" /\ \E s : call' = Woken(s)
    BY <1>11 DEF Complete, MarkFailed, Evaluating, MemoInv, WaitInv
  <2>2. call'[t].at = "none"
    BY <2>1, WokenType
  <2>3. \A i \in 1 .. Depth(t) - 1 : ~stack[t][i].dropped
    BY <1>1 DEF MemoInv, FrameInv
  <2> QED BY <2>1, <2>2, <2>3, PoppedAdvances
<1> QED
  BY <1>3, <1>4, <1>5, <1>6, <1>7, <1>8, <1>9, <1>10, <1>11 DEF Step

(* Of another thread a step sees only that it sleeps. *)
LEMMA OthersStay ==
  ASSUME TypeInv, NEW u \in Thread, Step(u) \/ Raise(u) \/ SpuriousWake(u),
         NEW t \in Thread, t # u
  PROVE  Undisturbed(t)
<1>1. Stays(t)
  BY DEF Step, Ask, Nest, Enter, Find, Register, Read, Complete, Uncache, MarkFailed, Unwound,
         Raise, SpuriousWake, Stays, TypeInv, TypeOK
<1>2. CASE Complete(u) \/ MarkFailed(u)
  <2>1. PICK s : call' = Woken(s)
    BY <1>2 DEF Complete, MarkFailed
  <2>2. \/ call'[t] = call[t]
        \/ /\ call[t].at = "asleep" /\ call'[t].at = "checking"
           /\ call'[t].key = call[t].key /\ call'[t].slot = call[t].slot
    BY <2>1 DEF Woken, CallOf
  <2> QED BY <1>1, <2>2 DEF Undisturbed
<1>3. CASE ~Complete(u) /\ ~MarkFailed(u)
  <2>1. \E c : call' = [call EXCEPT ![u] = c]
    <3>1. call = [call EXCEPT ![u] = call[u]]
      BY DEF TypeInv, TypeOK
    <3> QED BY <1>3, <3>1
            DEF Step, Ask, Nest, Enter, Find, Register, Read, Uncache, Unwound, Raise,
                SpuriousWake
  <2>2. call'[t] = call[t]
    BY <2>1 DEF TypeInv, TypeOK
  <2> QED BY <1>1, <2>2 DEF Undisturbed
<1> QED BY <1>2, <1>3

LEMMA NextProgresses == TypeInv /\ MemoInv /\ [Next]_vars => [CallProgress]_vars
<1> SUFFICES ASSUME TypeInv, MemoInv, Next, NEW t \in Thread
             PROVE  IF Step(t) THEN Advances(t) \/ FallsAsleep(t) \/ Retries(t)
                    ELSE Undisturbed(t) \/ Raise(t)
  BY DEF CallProgress
<1>1. Step(t) => Advances(t) \/ FallsAsleep(t) \/ Retries(t)
  BY StepAdvances
<1>2. ASSUME NEW u \in Thread, Step(u) \/ Raise(u) \/ SpuriousWake(u), ~Step(t)
      PROVE  Undisturbed(t) \/ Raise(t)
  <2>1. CASE u # t
    BY <1>2, <2>1, OthersStay
  <2>2. CASE u = t /\ SpuriousWake(t)
    <3>1. /\ call[t].at = "asleep" /\ call'[t].at = "checking" /\ Stays(t)
          /\ call'[t].key = call[t].key /\ call'[t].slot = call[t].slot
      BY <2>2 DEF SpuriousWake, CallOf, Stays, TypeInv, TypeOK
    <3> QED BY <3>1 DEF Undisturbed
  <2> QED BY <1>2, <2>1, <2>2
<1>3. CASE UNCHANGED vars
  BY <1>1, <1>3 DEF vars, Undisturbed, Stays
<1> QED BY <1>1, <1>2, <1>3 DEF Next, AllExported

(* Each step of a thread leaves less of its calls to come, but when it falls
   asleep on a slot that somebody computes, or finds that the slot it waited
   for failed, which is then in the cache no more; others do nothing to it but
   wake it up, and only an error sets it back.  So only errors and spurious
   wakeups can keep threads busy forever.  (memoize.) *)
THEOREM CallsProgress == Spec => [][CallProgress]_vars
BY NextProgresses, AlwaysMemo, PTL DEF Spec

(* What a waiter may have read of a slot stays so, and a failed slot is found
   by nobody. *)
SettledIsFinal ==
  \A s \in SlotId : slots[s].state # "computing" =>
    /\ slots'[s] = slots[s]
    /\ slots[s].state = "failed" => \A k \in Key : cache'[k] # s

LEMMA NextKeepsSettled ==
  TypeInv /\ MemoInv /\ TypeInv' /\ MemoInv' /\ [Next]_vars => [SettledIsFinal]_vars
<1> SUFFICES ASSUME TypeInv, MemoInv, TypeInv', MemoInv', Next,
                    NEW s \in SlotId, slots[s].state # "computing"
             PROVE  /\ slots'[s] = slots[s]
                    /\ slots[s].state = "failed" => \A k \in Key : cache'[k] # s
  BY DEF SettledIsFinal
<1>1. slots'[s] = slots[s]
  <2>1. CASE slots' = slots
    BY <2>1
  <2>2. ASSUME NEW t \in Thread, Register(t) PROVE slots'[s] = slots[s]
    <3>1. slots \in Seq(Slot) /\ \E x : slots' = Append(slots, x)
      BY <2>2 DEF Register, TypeInv, TypeOK
    <3> QED BY <3>1 DEF SlotId
  <2>3. ASSUME NEW t \in Thread, Complete(t) \/ MarkFailed(t) PROVE slots'[s] = slots[s]
    <3>1. Computes(t) /\ \E st \in {"done", "failed"}, v \in Thread \cup {NoValue} :
             slots' = WithState(Top(t).slot, st, v)
      BY <2>3 DEF Complete, MarkFailed
    <3>2. Top(t).slot \in SlotId /\ slots[Top(t).slot].state = "computing"
      BY <3>1, TopFacts DEF MemoInv, FrameInv, Frame
    <3>3. s # Top(t).slot
      BY <3>2
    <3> QED BY <3>1, <3>2, <3>3, StateChanged
  <2>4. \/ slots' = slots
        \/ \E t \in Thread : Register(t) \/ Complete(t) \/ MarkFailed(t)
    BY DEF Next, AllExported, vars, Step, Ask, Nest, Enter, Find, Read, Uncache, Unwound,
           Raise, SpuriousWake
  <2> QED BY <2>1, <2>2, <2>3, <2>4
<1>2. ASSUME slots[s].state = "failed", NEW k \in Key PROVE cache'[k] # s
  <2>1. s # NoSlot
    BY MemoizeAssumption DEF SlotId, TypeInv, TypeOK
  <2>2. cache'[k] # NoSlot => slots'[cache'[k]].state # "failed"
    BY DEF MemoInv, SlotInv
  <2> QED BY <1>1, <1>2, <2>1, <2>2
<1> QED BY <1>1, <1>2

(* What a slot was settled with is final, so that every waiter reads the same
   whenever it gets to run, and a slot that failed is never found again: a
   waiter that goes back to the cache is not sent to it a second time.
   (Computing::complete, Computing::drop.) *)
THEOREM SettledSlotsAreFinal == Spec => [][SettledIsFinal]_vars
BY NextKeepsSettled, AlwaysMemo, PTL DEF Spec

-----------------------------------------------------------------------------
(* Re-entrancy.                                                            *)

(* No thread computes a key inside of a computation of that key, or waits for
   one that it computes. *)
DistinctInv ==
  \A t \in Thread :
    /\ \A i, j \in 1 .. Depth(t) : stack[t][i].key = stack[t][j].key => i = j
    /\ call[t].at \in {"looking", "checking", "asleep"} =>
         \A i \in 1 .. Depth(t) : stack[t][i].key # call[t].key

(* A step that computes nothing more and goes on with no other key. *)
LEMMA DistinctKept ==
  ASSUME DistinctInv, NEW t \in Thread,
         Depth(t) \in Nat, Depth(t)' \in Nat, Depth(t)' <= Depth(t),
         \A i \in 1 .. Depth(t)' : stack'[t][i].key = stack[t][i].key,
         call'[t].at \in {"looking", "checking", "asleep"} =>
            /\ call'[t].key = call[t].key
            /\ \/ call[t].at \in {"looking", "checking", "asleep"}
               \/ ~IsActive(t, call[t].key)
  PROVE  /\ \A i, j \in 1 .. Depth(t)' : stack'[t][i].key = stack'[t][j].key => i = j
         /\ call'[t].at \in {"looking", "checking", "asleep"} =>
              \A i \in 1 .. Depth(t)' : stack'[t][i].key # call'[t].key
<1>1. \A i \in 1 .. Depth(t)' : i \in 1 .. Depth(t)
  OBVIOUS
<1>2. \A i, j \in 1 .. Depth(t)' : stack'[t][i].key = stack'[t][j].key => i = j
  BY <1>1 DEF DistinctInv
<1>3. ASSUME call'[t].at \in {"looking", "checking", "asleep"}
      PROVE  \A i \in 1 .. Depth(t)' : stack'[t][i].key # call'[t].key
  BY <1>1, <1>3 DEF DistinctInv, IsActive
<1> QED BY <1>2, <1>3

LEMMA DistinctStep ==
  ASSUME TypeInv, DistinctInv, NEW t \in Thread, Step(t) \/ Raise(t) \/ SpuriousWake(t)
  PROVE  /\ \A i, j \in 1 .. Depth(t)' : stack'[t][i].key = stack'[t][j].key => i = j
         /\ call'[t].at \in {"looking", "checking", "asleep"} =>
              \A i \in 1 .. Depth(t)' : stack'[t][i].key # call'[t].key
<1> DEFINE Busy == {"looking", "checking", "asleep"}
<1>1. stack[t] \in Seq(Frame) /\ Depth(t) \in Nat /\ Depth(t) = Len(stack[t])
  BY DEF Depth, TypeInv, TypeOK
<1>2. \A c : [call EXCEPT ![t] = c][t] = c
  BY DEF TypeInv, TypeOK
<1>3. CASE Ask(t) \/ Enter(t) \/ Find(t) \/ Read(t) \/ SpuriousWake(t) \/ Raise(t) \/ Unwound(t)
  <2>1. stack'[t] = stack[t] /\ Depth(t)' = Depth(t)
    BY <1>3 DEF Ask, Enter, Find, Read, SpuriousWake, Raise, Unwound, Depth
  <2>2. call'[t].at \in Busy =>
          /\ call'[t].key = call[t].key
          /\ call[t].at \in Busy \/ ~IsActive(t, call[t].key)
    <3>1. CASE Raise(t) \/ Unwound(t)
      <4>1. call' = call
        BY <3>1 DEF Raise, Unwound
      <4> QED BY <4>1
    <3>2. CASE Ask(t)
      <4>1. call'[t].at = "calling"
        BY <1>2, <3>2 DEF Ask, CallOf
      <4> QED BY <4>1
    <3>3. CASE Enter(t)
      BY <1>2, <3>3 DEF Enter, NoCall, CallOf
    <3>4. CASE Find(t) \/ Read(t) \/ SpuriousWake(t)
      BY <1>2, <3>4 DEF Find, Read, SpuriousWake, NoCall, CallOf
    <3> QED BY <1>3, <3>1, <3>2, <3>3, <3>4
  <2> QED BY <1>1, <2>1, <2>2, DistinctKept
<1>4. CASE Nest(t)
  <2>1. Computes(t) /\ call'[t].at = "calling"
    BY <1>2, <1>4 DEF Nest, CallOf
  <2>2. Depth(t) \in 1 .. Len(stack[t]) /\ Top(t) \in Frame /\ Top(t) = stack[t][Depth(t)]
    BY <2>1, TopFacts
  <2> DEFINE g == [Top(t) EXCEPT !.todo = Tail(Top(t).todo)]
  <2>3. stack'[t] = [stack[t] EXCEPT ![Depth(t)] = g]
    <3>1. stack'[t] = [stack[t] EXCEPT ![Depth(t)].todo = Tail(@)]
      BY <1>4 DEF Nest, TypeInv, TypeOK
    <3> QED BY <2>2, <3>1, Zenon
  <2>4. g.key = Top(t).key
    BY <2>2 DEF Frame
  <2> HIDE DEF g
  <2>5. Depth(t)' = Depth(t) /\ \A i \in 1 .. Depth(t) : stack'[t][i].key = stack[t][i].key
    BY <1>1, <2>2, <2>3, <2>4 DEF Depth
  <2> QED BY <1>1, <2>1, <2>5, DistinctKept
<1>5. CASE Uncache(t)
  <2>1. Computes(t) /\ call' = call
    BY <1>5 DEF Uncache
  <2>2. Depth(t) \in 1 .. Len(stack[t]) /\ Top(t) \in Frame /\ Top(t) = stack[t][Depth(t)]
    BY <2>1, TopFacts
  <2> DEFINE g == [key |-> Top(t).key, slot |-> Top(t).slot, todo |-> Top(t).todo, dropped |-> TRUE]
  <2>3. stack'[t] = [stack[t] EXCEPT ![Depth(t)] = g]
    BY <1>5, <2>1, TopDropped DEF Uncache, TypeInv, TypeOK
  <2>4. g.key = Top(t).key
    OBVIOUS
  <2> HIDE DEF g
  <2>5. Depth(t)' = Depth(t) /\ \A i \in 1 .. Depth(t) : stack'[t][i].key = stack[t][i].key
    BY <1>1, <2>2, <2>3, <2>4 DEF Depth
  <2> QED BY <1>1, <2>1, <2>5, DistinctKept
<1>6. CASE Register(t)
  <2> DEFINE f == [key |-> call[t].key, slot |-> Len(slots) + 1,
                   todo |-> Needs[t][call[t].key], dropped |-> FALSE]
  <2>1. /\ call[t].at = "looking" /\ call'[t].at = "none"
        /\ stack' = [stack EXCEPT ![t] = Append(stack[t], f)]
    BY <1>2, <1>6 DEF Register, NoCall
  <2>2. stack'[t] = Append(stack[t], f) /\ f.key = call[t].key
    BY <2>1 DEF TypeInv, TypeOK
  <2> HIDE DEF f
  <2>3. /\ Depth(t)' = Depth(t) + 1
        /\ \A i \in 1 .. Depth(t) : stack'[t][i] = stack[t][i]
        /\ \A i \in 1 .. Depth(t)' : i \notin 1 .. Depth(t) => stack'[t][i].key = call[t].key
    BY <1>1, <2>2 DEF Depth
  <2>4. \A i \in 1 .. Depth(t) : stack[t][i].key # call[t].key
    BY <2>1 DEF DistinctInv
  <2>5. \A i, j \in 1 .. Depth(t) : stack[t][i].key = stack[t][j].key => i = j
    BY DEF DistinctInv
  <2>6. \A i, j \in 1 .. Depth(t)' : i \notin 1 .. Depth(t) /\ j \notin 1 .. Depth(t) => i = j
    BY <1>1, <2>3
  <2> QED BY <2>1, <2>3, <2>4, <2>5, <2>6
<1>7. CASE Complete(t) \/ MarkFailed(t)
  <2>1. Computes(t) /\ stack'[t] = Pop(t) /\ \E s : call' = Woken(s)
    BY <1>7 DEF Complete, MarkFailed, TypeInv, TypeOK
  <2>2. call'[t].key = call[t].key /\ (call'[t].at \in Busy => call[t].at \in Busy)
    BY <2>1, WokenType
  <2>3. /\ Depth(t)' = Depth(t) - 1 /\ Depth(t) - 1 \in Nat
        /\ \A i \in 1 .. Depth(t) - 1 : stack'[t][i] = stack[t][i]
    BY <2>1, TopFacts DEF Depth
  <2>4. Depth(t)' \in Nat /\ Depth(t)' <= Depth(t)
        /\ \A i \in 1 .. Depth(t)' : stack'[t][i].key = stack[t][i].key
    BY <1>1, <2>3
  <2> QED BY <1>1, <2>2, <2>4, DistinctKept
<1> QED BY <1>3, <1>4, <1>5, <1>6, <1>7 DEF Step

LEMMA DistinctNext == TypeInv /\ DistinctInv /\ [Next]_vars => DistinctInv'
<1> SUFFICES ASSUME TypeInv, DistinctInv, [Next]_vars, NEW t \in Thread
             PROVE  /\ \A i, j \in 1 .. Depth(t)' : stack'[t][i].key = stack'[t][j].key => i = j
                    /\ call'[t].at \in {"looking", "checking", "asleep"} =>
                         \A i \in 1 .. Depth(t)' : stack'[t][i].key # call'[t].key
  BY DEF DistinctInv
<1>1. ASSUME Undisturbed(t)
      PROVE  /\ \A i, j \in 1 .. Depth(t)' : stack'[t][i].key = stack'[t][j].key => i = j
             /\ call'[t].at \in {"looking", "checking", "asleep"} =>
                  \A i \in 1 .. Depth(t)' : stack'[t][i].key # call'[t].key
  <2>1. stack'[t] = stack[t] /\ Depth(t)' = Depth(t)
    BY <1>1 DEF Undisturbed, Stays, Depth
  <2>2. call'[t].key = call[t].key
        /\ (call'[t].at \in {"looking", "checking", "asleep"} =>
              call[t].at \in {"looking", "checking", "asleep"})
    BY <1>1 DEF Undisturbed
  <2> QED BY <2>1, <2>2 DEF DistinctInv
<1>2. ASSUME NEW u \in Thread, u # t, Step(u) \/ Raise(u) \/ SpuriousWake(u)
      PROVE  Undisturbed(t)
  BY <1>2, OthersStay
<1>3. CASE UNCHANGED vars
  <2>1. Undisturbed(t)
    BY <1>3 DEF vars, Undisturbed, Stays
  <2> QED BY <1>1, <2>1
<1> QED BY <1>1, <1>2, <1>3, DistinctStep DEF Next, AllExported

(* A thread's computations are of different keys, however thunks ask for one
   another: the guard on re-entrancy bounds the nesting by the number of keys.
   (memoize, ACTIVE.) *)
THEOREM RecursionIsBounded ==
  IsFiniteSet(Key) => (Spec => [](\A t \in Thread : Depth(t) <= Cardinality(Key)))
<1> SUFFICES ASSUME IsFiniteSet(Key)
             PROVE  Spec => [](\A t \in Thread : Depth(t) <= Cardinality(Key))
  OBVIOUS
<1>1. Init => DistinctInv
  <2> SUFFICES ASSUME Init
               PROVE  DistinctInv
    OBVIOUS
  <2>1. \A t \in Thread : Depth(t) = 0 /\ call[t].at = "none"
    BY DEF Init, NoCall, Depth
  <2>2. 1 .. 0 = {}
    OBVIOUS
  <2> QED BY <2>1, <2>2 DEF DistinctInv
<1>2. TypeInv /\ DistinctInv => \A t \in Thread : Depth(t) <= Cardinality(Key)
  <2> SUFFICES ASSUME TypeInv, DistinctInv, NEW t \in Thread
               PROVE  Depth(t) <= Cardinality(Key)
    OBVIOUS
  <2>1. Depth(t) \in Nat /\ \A i \in 1 .. Depth(t) : stack[t][i].key \in Key
    <3>1. stack[t] \in Seq(Frame)
      BY DEF TypeInv, TypeOK
    <3>2. \A i \in 1 .. Depth(t) : stack[t][i] \in Frame
      BY <3>1 DEF Depth
    <3>3. Depth(t) \in Nat
      BY <3>1 DEF Depth
    <3> QED BY <3>2, <3>3 DEF Frame
  <2> DEFINE f == [i \in 1 .. Depth(t) |-> stack[t][i].key]
  <2>2. f \in Injection(1 .. Depth(t), Key)
    <3>1. f \in [1 .. Depth(t) -> Key]
      BY <2>1
    <3>2. \A i, j \in 1 .. Depth(t) : f[i] = f[j] => i = j
      BY DEF DistinctInv
    <3> HIDE DEF f
    <3> QED BY <3>1, <3>2 DEF Injection, IsInjective
  <2> HIDE DEF f
  <2>3. Cardinality(1 .. Depth(t)) <= Cardinality(Key)
    BY <2>2, FS_Injection
  <2>4. Cardinality(1 .. Depth(t)) = Depth(t)
    BY <2>1, FS_Interval
  <2> QED BY <2>3, <2>4
<1> QED BY <1>1, <1>2, DistinctNext, AlwaysMemo, PTL DEF Spec
=============================================================================
