------------------------------- MODULE Memoize -------------------------------
(***************************************************************************)
(* rtkMemoize (rtk-jsonnet-jrsonnet/src/memoize.rs): the native function   *)
(* that shares the JSON of a Jsonnet value between all the environments a  *)
(* process evaluates.                                                      *)
(*                                                                         *)
(* Threads evaluate environments; evaluating calls rtkMemoize(key, thunk). *)
(* The first caller of a key registers a slot and evaluates its thunk,     *)
(* which may call rtkMemoize for other keys; callers that find the slot    *)
(* sleep on its condition variable.  The two mutexes, CACHE and the slot's *)
(* own, are never held together, so what is done under one of them is one  *)
(* step here and what is done under two of them is two.                    *)
(*                                                                         *)
(* A value is abstracted to the thread whose thunk produced it, which is   *)
(* what tells one environment's answer from another's.  An error unwinds   *)
(* every call on the thread's stack, as Jsonnet has no way to catch one,   *)
(* and the thread goes on with its next environment.                       *)
(***************************************************************************)
EXTENDS Naturals, Sequences

CONSTANTS
  Thread,     \* evaluating threads
  Key,        \* memoization keys
  Needs,      \* Needs[t][k]: the keys t's thunk for k asks for, in order
  Wants,      \* Wants[t]: the keys t's environments ask for, in order
  NoKey,      \* the thread is in no call
  NoSlot,     \* the key is not in the cache
  NoValue,    \* the slot holds no value
  MaxErrors   \* bound: how many evaluations fail

ASSUME MemoizeAssumption ==
  /\ Needs \in [Thread -> [Key -> Seq(Key)]]
  /\ Wants \in [Thread -> Seq(Key)]
  /\ NoValue \notin Thread
  /\ NoKey \notin Key
  /\ NoSlot \notin Nat
  /\ MaxErrors \in Nat

VARIABLES
  cache,     \* CACHE: the slot registered under each key
  slots,     \* slots[s]: a MemoSlot; s is the order it was allocated in
  stack,     \* stack[t]: the keys t is computing (its ACTIVE), innermost last
  call,      \* call[t]: the call t is in that does not compute, if any
  wants,     \* what is left of Wants
  raising,   \* raising[t]: an error is unwinding t's stack
  errors,    \* evaluations that failed so far
  answered   \* history: <<key, value>> for every call that returned a value

vars == <<cache, slots, stack, call, wants, raising, errors, answered>>

(* MemoState, and the key the slot was registered under. *)
Slot == [state : {"computing", "done", "failed"},
         value : Thread \cup {NoValue},
         key   : Key]

SlotId == 1 .. Len(slots)

(* Computing, the guard of a computation: the slot it registered, the keys
   its thunk has yet to ask for, and whether Drop has taken the slot out of
   the cache. *)
Frame == [key : Key, slot : SlotId, todo : Seq(Key), dropped : BOOLEAN]

(* "calling": before the re-entrancy check; "looking": at the head of the
   loop; "checking": about to read the slot's state; "asleep": waiting on its
   condition variable. *)
Call == [at : {"none", "calling", "looking", "checking", "asleep"},
         key : Key \cup {NoKey}, slot : SlotId \cup {NoSlot}]

NoCall == [at |-> "none", key |-> NoKey, slot |-> NoSlot]
CallOf(at, k, s) == [at |-> at, key |-> k, slot |-> s]

(* Every reference to a slot, the cache's, a guard's and a waiter's, is to one
   that was allocated. *)
TypeOK ==
  /\ cache \in [Key -> SlotId \cup {NoSlot}]
  /\ slots \in Seq(Slot)
  /\ stack \in [Thread -> Seq(Frame)]
  /\ call \in [Thread -> Call]
  /\ wants \in [Thread -> Seq(Key)]
  /\ raising \in [Thread -> BOOLEAN]
  /\ errors \in Nat
  /\ answered \in SUBSET (Key \X Thread)

Init ==
  /\ cache = [k \in Key |-> NoSlot]
  /\ slots = <<>>
  /\ stack = [t \in Thread |-> <<>>]
  /\ call = [t \in Thread |-> NoCall]
  /\ wants = Wants
  /\ raising = [t \in Thread |-> FALSE]
  /\ errors = 0
  /\ answered = {}

-----------------------------------------------------------------------------
Computes(t) == stack[t] # <<>>
Depth(t) == Len(stack[t])
Top(t) == stack[t][Depth(t)]
Pop(t) == SubSeq(stack[t], 1, Depth(t) - 1)

(* The thread is running Jsonnet, not a call and not the guards' Drop. *)
Evaluating(t) == call[t].at = "none" /\ ~raising[t]

(* ACTIVE holds the key. *)
IsActive(t, k) == \E i \in 1 .. Depth(t) : stack[t][i].key = k

(* The MemoState of a slot is replaced. *)
WithState(s, st, v) ==
  [slots EXCEPT ![s] = [state |-> st, value |-> v, key |-> @.key]]

(* Condvar::notify_all, with the slot's mutex held. *)
Woken(s) ==
  [u \in Thread |-> IF call[u].at = "asleep" /\ call[u].slot = s
                    THEN CallOf("checking", call[u].key, s) ELSE call[u]]

-----------------------------------------------------------------------------
(* The next environment of a thread calls rtkMemoize.                      *)
Ask(t) ==
  /\ Evaluating(t) /\ ~Computes(t)
  /\ wants[t] # <<>>
  /\ call' = [call EXCEPT ![t] = CallOf("calling", Head(wants[t]), NoSlot)]
  /\ wants' = [wants EXCEPT ![t] = Tail(@)]
  /\ UNCHANGED <<cache, slots, stack, raising, errors, answered>>

(* The thunk being computed calls rtkMemoize. *)
Nest(t) ==
  /\ Evaluating(t) /\ Computes(t)
  /\ Top(t).todo # <<>>
  /\ call' = [call EXCEPT ![t] = CallOf("calling", Head(Top(t).todo), NoSlot)]
  /\ stack' = [stack EXCEPT ![t][Depth(t)].todo = Tail(@)]
  /\ UNCHANGED <<cache, slots, wants, raising, errors, answered>>

(* A key this thread is already computing is an error. *)
Enter(t) ==
  /\ call[t].at = "calling"
  /\ IF IsActive(t, call[t].key)
     THEN /\ call' = [call EXCEPT ![t] = NoCall]
          /\ raising' = [raising EXCEPT ![t] = TRUE]
     ELSE /\ call' = [call EXCEPT ![t] = CallOf("looking", call[t].key, NoSlot)]
          /\ UNCHANGED raising
  /\ UNCHANGED <<cache, slots, stack, wants, errors, answered>>

(* Variant with a bug: whether the key is cached is not looked at again once
   CACHE has been taken to register it. *)
RegisterBlindly(t) ==
  /\ call[t].at = "looking"
  /\ LET k == call[t].key
         s == Len(slots) + 1
     IN /\ slots' = Append(slots, [state |-> "computing", value |-> NoValue,
                                   key |-> k])
        /\ cache' = [cache EXCEPT ![k] = s]
        /\ stack' = [stack EXCEPT ![t] = Append(@,
                       [key |-> k, slot |-> s, todo |-> Needs[t][k],
                        dropped |-> FALSE])]
  /\ call' = [call EXCEPT ![t] = NoCall]
  /\ UNCHANGED <<wants, raising, errors, answered>>

(* Variant with a bug: the guard points past the slot it registered. *)
RegisterPastTheEnd(t) ==
  /\ call[t].at = "looking"
  /\ cache[call[t].key] = NoSlot
  /\ LET k == call[t].key
         s == Len(slots) + 2
     IN /\ slots' = Append(slots, [state |-> "computing", value |-> NoValue,
                                   key |-> k])
        /\ cache' = [cache EXCEPT ![k] = s]
        /\ stack' = [stack EXCEPT ![t] = Append(@,
                       [key |-> k, slot |-> s, todo |-> Needs[t][k],
                        dropped |-> FALSE])]
  /\ call' = [call EXCEPT ![t] = NoCall]
  /\ UNCHANGED <<wants, raising, errors, answered>>

(* Under CACHE: the slot found, or a new one to compute. *)
Find(t) ==
  /\ call[t].at = "looking"
  /\ cache[call[t].key] # NoSlot
  /\ call' = [call EXCEPT ![t] =
                CallOf("checking", call[t].key, cache[call[t].key])]
  /\ UNCHANGED <<cache, slots, stack, wants, raising, errors, answered>>

Register(t) ==
  /\ call[t].at = "looking"
  /\ cache[call[t].key] = NoSlot
  /\ LET k == call[t].key
         s == Len(slots) + 1
     IN /\ slots' = Append(slots, [state |-> "computing", value |-> NoValue,
                                   key |-> k])
        /\ cache' = [cache EXCEPT ![k] = s]
        /\ stack' = [stack EXCEPT ![t] = Append(@,
                       [key |-> k, slot |-> s, todo |-> Needs[t][k],
                        dropped |-> FALSE])]
  /\ call' = [call EXCEPT ![t] = NoCall]
  /\ UNCHANGED <<wants, raising, errors, answered>>

(* Under the slot's mutex: what the waiter reads. *)
Read(t) ==
  /\ call[t].at = "checking"
  /\ LET k == call[t].key
         found == slots[call[t].slot]
     IN \/ /\ found.state = "done"
           /\ answered' = answered \cup {<<k, found.value>>}
           /\ call' = [call EXCEPT ![t] = NoCall]
        \/ /\ found.state = "failed"
           /\ call' = [call EXCEPT ![t] = CallOf("looking", k, NoSlot)]
           /\ UNCHANGED answered
        \/ /\ found.state = "computing"
           /\ call' = [call EXCEPT ![t] = CallOf("asleep", k, call[t].slot)]
           /\ UNCHANGED answered
  /\ UNCHANGED <<cache, slots, stack, wants, raising, errors>>

(* Condvar::wait may return without a notification. *)
SpuriousWake(t) ==
  /\ call[t].at = "asleep"
  /\ call' = [call EXCEPT ![t] = CallOf("checking", @.key, @.slot)]
  /\ UNCHANGED <<cache, slots, stack, wants, raising, errors, answered>>

(* Variant with a bug: the guard is dropped as if it had not completed. *)
CompleteUncaches(t) ==
  /\ Evaluating(t) /\ Computes(t)
  /\ Top(t).todo = <<>>
  /\ slots' = WithState(Top(t).slot, "done", t)
  /\ call' = Woken(Top(t).slot)
  /\ stack' = [stack EXCEPT ![t] = Pop(t)]
  /\ answered' = answered \cup {<<Top(t).key, t>>}
  /\ cache' = [cache EXCEPT ![Top(t).key] = NoSlot]
  /\ UNCHANGED <<wants, raising, errors>>

(* The thunk has a value without hidden fields, and it is manifested. *)
Complete(t) ==
  /\ Evaluating(t) /\ Computes(t)
  /\ Top(t).todo = <<>>
  /\ slots' = WithState(Top(t).slot, "done", t)
  /\ call' = Woken(Top(t).slot)
  /\ stack' = [stack EXCEPT ![t] = Pop(t)]
  /\ answered' = answered \cup {<<Top(t).key, t>>}
  /\ UNCHANGED <<cache, wants, raising, errors>>

(* Evaluating, looking for hidden fields or manifesting fails, or panics. *)
Raise(t) ==
  /\ Evaluating(t) /\ Computes(t)
  /\ errors < MaxErrors
  /\ errors' = errors + 1
  /\ raising' = [raising EXCEPT ![t] = TRUE]
  /\ UNCHANGED <<cache, slots, stack, call, wants, answered>>

(* Variant with a bug: the failed slot stays registered under its key. *)
UncacheNothing(t) ==
  /\ raising[t] /\ Computes(t) /\ ~Top(t).dropped
  /\ stack' = [stack EXCEPT ![t][Depth(t)].dropped = TRUE]
  /\ UNCHANGED <<cache, slots, call, wants, raising, errors, answered>>

(* Drop, under CACHE: the key is free again ... *)
Uncache(t) ==
  /\ raising[t] /\ Computes(t) /\ ~Top(t).dropped
  /\ cache' = [cache EXCEPT ![Top(t).key] = NoSlot]
  /\ stack' = [stack EXCEPT ![t][Depth(t)].dropped = TRUE]
  /\ UNCHANGED <<slots, call, wants, raising, errors, answered>>

(* Variant with a bug: nobody is notified of a failure. *)
MarkFailedSilently(t) ==
  /\ raising[t] /\ Computes(t) /\ Top(t).dropped
  /\ slots' = WithState(Top(t).slot, "failed", NoValue)
  /\ stack' = [stack EXCEPT ![t] = Pop(t)]
  /\ UNCHANGED <<cache, call, wants, raising, errors, answered>>

(* ... and then, under the slot's mutex, whoever waits is told. *)
MarkFailed(t) ==
  /\ raising[t] /\ Computes(t) /\ Top(t).dropped
  /\ slots' = WithState(Top(t).slot, "failed", NoValue)
  /\ call' = Woken(Top(t).slot)
  /\ stack' = [stack EXCEPT ![t] = Pop(t)]
  /\ UNCHANGED <<cache, wants, raising, errors, answered>>

(* The error has reached the top: the environment has failed. *)
Unwound(t) ==
  /\ raising[t] /\ ~Computes(t)
  /\ raising' = [raising EXCEPT ![t] = FALSE]
  /\ UNCHANGED <<cache, slots, stack, call, wants, errors, answered>>

(* What a running thread does by itself. *)
Step(t) ==
  \/ Ask(t) \/ Nest(t) \/ Enter(t) \/ Find(t) \/ Register(t) \/ Read(t)
  \/ Complete(t) \/ Uncache(t) \/ MarkFailed(t) \/ Unwound(t)

Exported(t) == wants[t] = <<>> /\ Evaluating(t) /\ ~Computes(t)
AllExported == (\A t \in Thread : Exported(t)) /\ UNCHANGED vars

Next ==
  \/ \E t \in Thread : Step(t) \/ Raise(t) \/ SpuriousWake(t)
  \/ AllExported

Spec == Init /\ [][Next]_vars

(* Threads of a running process get to run; nothing obliges an evaluation to
   fail or a sleeper to wake up unasked. *)
FairSpec == Spec /\ \A t \in Thread : WF_vars(Step(t))

-----------------------------------------------------------------------------
(* Properties.                                                             *)

(* Every worker receives the same JSON for a key, whatever the schedule and
   whoever failed in between: a value once returned is the only one. *)
Agreement ==
  \A a, b \in answered : a[1] = b[1] => a[2] = b[2]

(* One worker computes a key at a time: the next one starts only after the
   failed one has given the key up. *)
SingleFlight ==
  \A t, u \in Thread : \A i \in 1 .. Depth(t), j \in 1 .. Depth(u) :
    (/\ stack[t][i].key = stack[u][j].key
     /\ ~stack[t][i].dropped /\ ~stack[u][j].dropped) => (t = u /\ i = j)

(* Whoever sleeps on a slot has someone to wake it: the slot is still
   computing, and a thread still holds its guard. *)
SleeperIsRemembered ==
  \A t \in Thread : call[t].at = "asleep" =>
    /\ slots[call[t].slot].state = "computing"
    /\ \E u \in Thread : \E i \in 1 .. Depth(u) :
         stack[u][i].slot = call[t].slot

(* The cache as the table of MemoTable: a key has a value once its slot is
   done. *)
Table ==
  [k \in Key |-> IF cache[k] # NoSlot /\ slots[cache[k]].state = "done"
                 THEN slots[cache[k]].value ELSE NoValue]
Promise == INSTANCE MemoTable WITH Value <- Thread, table <- Table

(* The cache implements the set-once table: a value appears in it once, is
   never replaced or lost, and calls return nothing else. *)
ImplementsTable == Promise!Spec

(* The thunk of t for key k asks for n. *)
Needed(t, k, n) == \E i \in 1 .. Len(Needs[t][k]) : Needs[t][k][i] = n

(* The thunks can be ordered, whoever's they are: in any set of keys there is
   one that needs none of the others.  (It may need itself.) *)
Grounded ==
  \A keys \in SUBSET Key : keys # {} =>
    \E k \in keys : \A t \in Thread, n \in keys \ {k} : ~Needed(t, k, n)

(* Not everybody waits for everybody: while a thread sleeps, another one is
   neither asleep nor done.  (Re-entrancy is only detected within a thread.) *)
SomeoneIsAwake ==
  (\E t \in Thread : call[t].at = "asleep") =>
    \E t \in Thread : call[t].at # "asleep" /\ ~Exported(t)

(* rtkMemoize: "On a miss, one worker computes it while other workers wait,
   then every worker receives the same JSON projection."  Every call returns,
   so every environment is done with in the end. *)
EveryCallReturns == <>(\A t \in Thread : Exported(t))
=============================================================================
