---------------------------- MODULE ProxmoxTask -----------------------------
(***************************************************************************)
(* A list of mutating calls through pkg/proxmox, as Apply and              *)
(* FinalizeSingle make them: each call is one POST or DELETE by Client.Do  *)
(* and, when the answer carries a UPID, the polls of WaitForTask.  The     *)
(* calls are made one after the other; the first error ends the list.      *)
(*                                                                         *)
(* The client has at most one request on the wire.  A request it gave up   *)
(* on (timeout, broken connection, cancelled context) may still reach the  *)
(* server; its answer reaches nobody.                                      *)
(***************************************************************************)
EXTENDS Naturals

CONSTANTS
  K,             \* number of calls
  MapsNotFound   \* the calls that turn an isNotFound error into a sentinel

ASSUME CallsAssumption == K \in Nat \ {0} /\ MapsNotFound \subseteq 1..K

VARIABLES
  k,     \* the call the client is at
  pc,    \* where the client is in it
  out,   \* what the caller got
  ctx,   \* the caller's context: live or done
  wire,  \* the request travelling to the server or the answer travelling back
  srv    \* what became of each call's request on the server

vars == <<k, pc, out, ctx, wire, srv>>

(* Answers by what Do and its callers make of them.  upid: 2xx with a task; *)
(* null: 2xx with null data; absent: an error isNotFound recognises;        *)
(* errors: 2xx with an errors envelope; refused: any other status; garbled: *)
(* a body that cannot be read or decoded.                                   *)
PostAnswers == {"upid", "null", "absent", "errors", "refused", "garbled"}

(* blank: 2xx without a status; ended-bad: an exit status other than OK.    *)
PollAnswers == {"running", "blank", "ended-ok", "ended-blank", "ended-bad",
                "absent", "refused", "garbled"}

Init == /\ k = 1 /\ pc = "ready" /\ out = "none" /\ ctx = "live" /\ wire = "none"
        /\ srv = [i \in 1..K |-> "idle"]
-----------------------------------------------------------------------------
(* The client. *)

Return(r) == out' = r /\ pc' = "returned"

(* A request that is not answered stays on its way, an answer is dropped.   *)
HangUp == wire' = IF wire = "post" THEN "post" ELSE "none"

(* The argument checks in front of a request, and http.NewRequest.          *)
Invalid == /\ pc = "ready"
           /\ Return("err")
           /\ UNCHANGED <<k, ctx, wire, srv>>

Post == /\ pc = "ready" /\ ctx = "live"
        /\ pc' = "posting" /\ wire' = "post"
        /\ UNCHANGED <<k, out, ctx, srv>>

Success == IF k = K THEN Return("nil") /\ UNCHANGED k
                    ELSE k' = k + 1 /\ pc' = "ready" /\ UNCHANGED out

(* The answer to the POST.  Without a UPID the call is over.                *)
PostAnswered ==
  /\ pc = "posting" /\ wire \in PostAnswers
  /\ wire' = "none"
  /\ \/ wire = "upid" /\ pc' = "poll" /\ UNCHANGED <<k, out>>
     \/ wire = "null" /\ Success
     \/ wire = "absent" /\ k \in MapsNotFound /\ Return("notfound") /\ UNCHANGED k
     \/ /\ wire \notin {"upid", "null"} /\ ~(wire = "absent" /\ k \in MapsNotFound)
        /\ Return("err") /\ UNCHANGED k
  /\ UNCHANGED <<ctx, srv>>

Poll == /\ pc = "poll" /\ ctx = "live"
        /\ pc' = "polling" /\ wire' = "get"
        /\ UNCHANGED <<k, out, ctx, srv>>

StillRunning_noExitStatus == wire \in {"running", "blank", "ended-blank"}
StillRunning == wire \in {"running", "blank"}

SaysDone_anyEnd == wire \in {"ended-ok", "ended-blank", "ended-bad"}
SaysDone == wire \in {"ended-ok", "ended-blank"}

PollError_mapped == IF wire = "absent" THEN "notfound" ELSE "err"
PollError == "err"

(* The answer to a poll.  One failed poll ends the call.                    *)
PollAnswered ==
  /\ pc = "polling" /\ wire \in PollAnswers
  /\ wire' = "none"
  /\ \/ StillRunning /\ pc' = "sleeping" /\ UNCHANGED <<k, out>>
     \/ ~StillRunning /\ SaysDone /\ Success
     \/ ~StillRunning /\ ~SaysDone /\ Return(PollError) /\ UNCHANGED k
  /\ UNCHANGED <<ctx, srv>>

Wake == /\ pc = "sleeping"
        /\ pc' = "poll"
        /\ UNCHANGED <<k, out, ctx, wire, srv>>

(* http.Client.Timeout, or the connection breaks under the request.         *)
TimedOut == /\ pc \in {"posting", "polling"}
            /\ Return("err") /\ HangUp
            /\ UNCHANGED <<k, ctx, srv>>

Interruptible_requestsOnly == pc \in {"ready", "posting"}
Interruptible == pc \in {"ready", "posting", "poll", "polling", "sleeping"}

(* The context is done: the transport refuses or abandons the request, the  *)
(* select between two polls returns ctx.Err.                                *)
Interrupted == /\ ctx = "done" /\ Interruptible
               /\ Return("err") /\ HangUp
               /\ UNCHANGED <<k, ctx, srv>>

(* The caller cancels. *)
Cancel == /\ ctx = "live"
          /\ ctx' = "done"
          /\ UNCHANGED <<k, pc, out, wire, srv>>
-----------------------------------------------------------------------------
(* The server. *)

Reply(a) == wire' = IF pc \in {"posting", "polling"} THEN a ELSE "none"

Refuse == /\ wire = "post"
          /\ srv' = [srv EXCEPT ![k] = "refused"]
          /\ \E a \in {"absent", "errors", "refused", "garbled"} : Reply(a)
          /\ UNCHANGED <<k, pc, out, ctx>>

(* A change that needs no task, such as most config updates.                *)
ExecuteNow == /\ wire = "post"
              /\ srv' = [srv EXCEPT ![k] = "ok"]
              /\ \E a \in {"null", "garbled", "refused"} : Reply(a)
              /\ UNCHANGED <<k, pc, out, ctx>>

(* A proxy in front of the API may report an error for a task that runs.    *)
StartTask == /\ wire = "post"
             /\ srv' = [srv EXCEPT ![k] = "running"]
             /\ \E a \in {"upid", "garbled", "refused"} : Reply(a)
             /\ UNCHANGED <<k, pc, out, ctx>>

(* A task with warnings has done its work and does not end with OK.  A mute *)
(* one has ended, well or badly, and the server reports no exit status.     *)
TaskEnds(i) == /\ srv[i] = "running"
               /\ \E s \in {"ok", "warned", "failed", "mute"} : srv' = [srv EXCEPT ![i] = s]
               /\ UNCHANGED <<k, pc, out, ctx, wire>>

AnswerPoll ==
  /\ wire = "get"
  /\ \/ srv[k] = "running" /\ \E a \in {"running", "blank"} : Reply(a)
     \/ srv[k] = "ok" /\ \E a \in {"ended-ok", "ended-blank"} : Reply(a)
     \/ srv[k] \in {"warned", "failed"} /\ Reply("ended-bad")
     \/ srv[k] = "mute" /\ Reply("ended-blank")
     \/ \E a \in {"absent", "refused", "garbled"} : Reply(a)
  /\ UNCHANGED <<k, pc, out, ctx, srv>>

Stop == pc = "returned" /\ UNCHANGED vars
-----------------------------------------------------------------------------
Client == \/ Post \/ PostAnswered \/ Poll \/ PollAnswered \/ Wake
          \/ TimedOut \/ Interrupted

Server == Refuse \/ ExecuteNow \/ StartTask \/ AnswerPoll

Next == Client \/ Invalid \/ Cancel \/ Server \/ (\E i \in 1..K : TaskEnds(i)) \/ Stop

Spec == Init /\ [][Next]_vars

(* The goroutine runs, timers fire and the HTTP timeout bounds a request.   *)
ClientFairSpec == Spec /\ WF_vars(Client)

(* The server brings every task to an end.                                  *)
ServerFairness == \A i \in 1..K : WF_vars(TaskEnds(i))
-----------------------------------------------------------------------------
TypeOK ==
  /\ k \in 1..K
  /\ pc \in {"ready", "posting", "poll", "polling", "sleeping", "returned"}
  /\ out \in {"none", "nil", "err", "notfound"}
  /\ ctx \in {"live", "done"}
  /\ wire \in {"none", "post", "get"} \cup PostAnswers \cup PollAnswers
  /\ srv \in [1..K -> {"idle", "refused", "running", "ok", "warned", "failed", "mute"}]

(* The refinement mapping onto CallSequence: a request is sent while it     *)
(* travels, and a refused one has failed.                                   *)
TaskOf(i) == CASE srv[i] = "idle" -> IF i = k /\ wire = "post" THEN "sent" ELSE "none"
               [] srv[i] = "running" -> "running"
               [] srv[i] \in {"ok", "warned"} -> "ok"
               [] srv[i] \in {"refused", "failed"} -> "failed"
               [] srv[i] = "mute" -> "unreported"

Sequence == INSTANCE CallSequence WITH
  at   <- k,
  out  <- (IF out = "notfound" THEN "err" ELSE out),
  task <- [i \in 1..K |-> TaskOf(i)]

(* The calls reach the server in order, each at most once, the next one     *)
(* only after the one before was executed or ended in a way the server does *)
(* not report; nil means that all of them were, whatever answers were lost, *)
(* blank, garbled or wrong (client.go:129-207, 244-269).                    *)
ImplementsSequence == Sequence!Spec

(* A caller is told that the VM, snapshot or storage does not exist only    *)
(* when the server has not begun the call: a task that can no longer be     *)
(* found while it is polled does not count (vm.go:309-318, boot.go:87-96).  *)
NotFoundChangedNothing == out = "notfound" => srv[k] = "refused"

(* A cancelled call returns even if the server never finishes the task.     *)
CancelReturns == ctx = "done" ~> out # "none"

(* Polling ends when the task does: no state of a finished task keeps the   *)
(* client in the loop (client.go:249-267).                                  *)
CallsReturn == ServerFairness => <>(out # "none")

(* What is on the wire, and on the server, at each point of the client: the *)
(* strengthening that makes every step a step of CallSequence.              *)
WireInv ==
  /\ wire = "post" => srv[k] = "idle" /\ pc \in {"posting", "returned"}
  /\ pc = "ready" => srv[k] = "idle" /\ wire = "none"
  /\ pc \in {"poll", "sleeping"} => wire = "none"
  /\ pc = "returned" => wire \in {"none", "post"}
  /\ wire = "upid" => srv[k] \notin {"idle", "refused"}
  /\ wire \in {"null", "ended-ok"} => srv[k] = "ok"
  /\ wire = "ended-blank" => srv[k] \in {"ok", "mute"}
  /\ wire = "absent" /\ pc = "posting" => srv[k] = "refused"
  /\ pc = "posting" => wire \in PostAnswers \cup {"post"}
  /\ pc = "polling" => wire \in PollAnswers \cup {"get"}
  /\ wire \in {"running", "blank", "get"} => pc = "polling"
  /\ pc = "returned" <=> out # "none"
  /\ \A i \in 1..K : /\ i > k => srv[i] = "idle"
                     /\ i < k => srv[i] \in {"ok", "mute"}

IInv == TypeOK /\ WireInv /\ NotFoundChangedNothing

-----------------------------------------------------------------------------
(* What a comment says. *)

(* client.go:244-246: WaitForTask returns nil when the task finished with   *)
(* exit status OK and otherwise an error.  A blank exit status is taken for *)
(* OK (258), so this fails with a mute task.                                *)
NilMeansOK == out = "nil" => \A i \in 1..K : srv[i] = "ok"
=============================================================================
