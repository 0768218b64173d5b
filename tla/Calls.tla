------------------------------- MODULE Calls -------------------------------
(***************************************************************************)
(* What a function holds.  A function is a sequence of steps that obtain,  *)
(* use and release objects: memory, contexts of mbedtls, descriptors,      *)
(* addresses, the mutex of the logger.  A step that can fail has the set   *)
(* of objects the function releases when it then returns.  Every sequence  *)
(* of steps is taken from the code; which steps fail is free.              *)
(***************************************************************************)
EXTENDS Integers, Sequences, FiniteSets

CONSTANTS Threads, NoThread

VARIABLES
  code,     \* the steps each thread still has to take
  after,    \* what the caller does once the function has returned, failed or not
  live,     \* the objects each thread holds
  gone,     \* the objects it has released
  failed,   \* a step of the thread has failed
  status,   \* running, ended, undefined or aborted
  holder    \* the thread that has locked the logger's mutex

callVars == <<code, after, live, gone, failed, status, holder>>

Do(op, objs, frees) == [op |-> op, objs |-> objs, frees |-> frees]
Get(o, frees) == Do("get", {o}, frees)        \* fails: release these, return
Have(o) == Do("have", {o}, {})                \* cannot fail
Maybe(o) == Do("maybe", {o}, {})              \* fails: the code goes on without o
Call(objs, frees) == Do("call", objs, frees)  \* needs objs; fails: release, return
Use(objs) == Do("use", objs, {})              \* needs objs
Insist(objs) == Do("assert", objs, {})        \* fails: the process aborts
Free(objs) == Do("free", objs, {})            \* free(NULL) does nothing
Lock == Do("lock", {}, {})
Unlock == Do("unlock", {}, {})

\* The steps of a function in one that releases more when it fails.
Within(steps, frees) == [i \in DOMAIN steps |-> [steps[i] EXCEPT !.frees = @ \cup frees]]

Now(t) == code[t][1]
Running(t) == status[t] = "running"

\* On with the rest, or with the caller, or to the end.
Continue(t, rest) ==
  IF rest # <<>> THEN /\ code' = [code EXCEPT ![t] = rest]
                      /\ UNCHANGED <<after, status>>
  ELSE IF after[t] # <<>> THEN /\ code' = [code EXCEPT ![t] = after[t]]
                               /\ after' = [after EXCEPT ![t] = <<>>]
                               /\ UNCHANGED status
  ELSE /\ code' = [code EXCEPT ![t] = <<>>]
       /\ status' = [status EXCEPT ![t] = "ended"]
       /\ UNCHANGED after

Release(t, objs) ==
  /\ live' = [live EXCEPT ![t] = @ \ objs]
  /\ gone' = [gone EXCEPT ![t] = @ \cup (live[t] \cap objs)]

Misused(t, s) ==
  \/ s.op \in {"call", "use", "assert"} /\ ~(s.objs \subseteq live[t])
  \/ s.op = "free" /\ s.objs \cap gone[t] # {}

Obtain(t) ==
  /\ Running(t) /\ Now(t).op \in {"get", "have", "maybe"}
  /\ live' = [live EXCEPT ![t] = @ \cup Now(t).objs]
  /\ gone' = [gone EXCEPT ![t] = @ \ Now(t).objs]
  /\ Continue(t, Tail(code[t]))
  /\ UNCHANGED <<failed, holder>>

Proceed(t) ==
  /\ Running(t) /\ Now(t).op \in {"call", "use", "assert"} /\ ~Misused(t, Now(t))
  /\ Continue(t, Tail(code[t]))
  /\ UNCHANGED <<live, gone, failed, holder>>

Free_(t) ==
  /\ Running(t) /\ Now(t).op = "free" /\ ~Misused(t, Now(t))
  /\ Release(t, Now(t).objs)
  /\ Continue(t, Tail(code[t]))
  /\ UNCHANGED <<failed, holder>>

LockLogger(t) ==
  /\ Running(t) /\ Now(t).op = "lock" /\ holder = NoThread
  /\ holder' = t
  /\ Continue(t, Tail(code[t]))
  /\ UNCHANGED <<live, gone, failed>>

UnlockLogger(t) ==
  /\ Running(t) /\ Now(t).op = "unlock"
  /\ holder' = NoThread
  /\ Continue(t, Tail(code[t]))
  /\ UNCHANGED <<live, gone, failed>>

\* A call fails and its result is looked at: the function returns.
Fail(t) ==
  /\ Running(t) /\ Now(t).op \in {"get", "call"} /\ ~Misused(t, Now(t))
  /\ Release(t, Now(t).frees)
  /\ failed' = [failed EXCEPT ![t] = TRUE]
  /\ Continue(t, <<>>)
  /\ UNCHANGED holder

\* A call fails and its result is not looked at.
FailUnseen(t) ==
  /\ Running(t) /\ Now(t).op = "maybe"
  /\ failed' = [failed EXCEPT ![t] = TRUE]
  /\ Continue(t, Tail(code[t]))
  /\ UNCHANGED <<live, gone, holder>>

Abort(t) ==
  /\ Running(t) /\ Now(t).op = "assert" /\ ~Misused(t, Now(t))
  /\ status' = [status EXCEPT ![t] = "aborted"]
  /\ UNCHANGED <<code, after, live, gone, failed, holder>>

\* An object that is NULL or released is used, or one is released twice.
Misuse(t) ==
  /\ Running(t) /\ Misused(t, Now(t))
  /\ status' = [status EXCEPT ![t] = "undefined"]
  /\ UNCHANGED <<code, after, live, gone, failed, holder>>

CallStep(t) ==
  \/ Obtain(t) \/ Proceed(t) \/ Free_(t) \/ LockLogger(t) \/ UnlockLogger(t)
  \/ Fail(t) \/ FailUnseen(t) \/ Abort(t) \/ Misuse(t)
====
