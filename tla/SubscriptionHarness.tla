------------------------- MODULE SubscriptionHarness -------------------------
(***************************************************************************)
(* Subscription requests of the integration test executor                  *)
(* (src/unnamed/part_000: executeTestCase, executeSubscriptionRequest).    *)
(*                                                                         *)
(* The main test routine runs the actions of a test case in order.  A      *)
(* SubscriptionRequest starts a goroutine that reads the subscription's    *)
(* stream until it has at least the expected number of results and the    *)
(* main routine has closed allActionsDone; it then hands an assertion over *)
(* the results read so far to the main routine on an unbuffered channel.  *)
(* After the last action the main routine closes allActionsDone and, for  *)
(* each subscription in order, waits for its assertion or for             *)
(* subscriptionTimeout, then returns.                                      *)
(*                                                                         *)
(* The test case is the environment: its next action is a subscription    *)
(* (whose request may raise its expected error), a mutation, or the end.  *)
(* A mutation's event reaches the stream of any subset of the active      *)
(* subscriptions (those whose filter it matches), already buffered when   *)
(* the mutation returns.  Events are identical, so a stream is a count.    *)
(***************************************************************************)
EXTENDS Naturals, Sequences, SequencesExt

CONSTANTS
    Subs,         \* the SubscriptionRequest actions a test case may hold
    MaxResults,   \* bound on len(action.Results)
    MaxMutations  \* bound on the mutations of a test case

VARIABLES
    mpc,        \* main routine: "actions", "wait" or "returned"
    allDone,    \* allActionsDone has been closed
    rc,         \* resultsChans: the subscriptions, in request order
    k,          \* the entry of rc the main routine waits on
    muts,       \* mutations run so far
    sub,        \* sub[s]: the goroutine of subscription s
    stream,     \* stream[s]: events buffered in the stream of s
    published,  \* history: events published to s
    asserted    \* history: len(data) of the assertion the main routine ran

vars == <<mpc, allDone, rc, k, muts, sub, stream, published, asserted>>

NoAssert == -1

Goroutine == [pc : {"none", "loop", "send", "done"},
              expect : 0..MaxResults, data : Nat, seenDone : BOOLEAN]

TypeOK ==
    /\ mpc \in {"actions", "wait", "returned"}
    /\ allDone \in BOOLEAN
    /\ rc \in Seq(Subs) /\ IsInjective(rc)
    /\ k \in 1..Len(rc) + 1
    /\ muts \in 0..MaxMutations
    /\ sub \in [Subs -> Goroutine]
    /\ stream \in [Subs -> Nat] /\ published \in [Subs -> Nat]
    /\ asserted \in [Subs -> Nat \cup {NoAssert}]

Init ==
    /\ mpc = "actions"
    /\ allDone = FALSE
    /\ rc = << >>
    /\ k = 1
    /\ muts = 0
    /\ sub = [s \in Subs |-> [pc |-> "none", expect |-> 0, data |-> 0,
                              seenDone |-> FALSE]]
    /\ stream = [s \in Subs |-> 0]
    /\ published = [s \in Subs |-> 0]
    /\ asserted = [s \in Subs |-> NoAssert]

-----------------------------------------------------------------------------
(* Main routine: the action loop.                                          *)

(* SubscriptionRequest: ExecRequest succeeds, the goroutine starts and its *)
(* channel is appended to resultsChans.                                    *)
Subscribe(s) ==
    /\ mpc = "actions"
    /\ sub[s].pc = "none"
    /\ \E r \in 0..MaxResults :
         sub' = [sub EXCEPT ![s] = [@ EXCEPT !.pc = "loop", !.expect = r]]
    /\ rc' = Append(rc, s)
    /\ UNCHANGED <<mpc, allDone, k, muts, stream, published, asserted>>

(* The request raised its expected error: executeSubscriptionRequest       *)
(* returns done and executeTestCase returns at once, without closing       *)
(* allActionsDone or waiting on any channel.                               *)
SubscribeFails(s) ==
    /\ mpc = "actions"
    /\ sub[s].pc = "none"
    /\ mpc' = "returned"
    /\ UNCHANGED <<allDone, rc, k, muts, sub, stream, published, asserted>>

(* A CreateDoc, UpdateDoc or DeleteDoc: its event reaches the streams of   *)
(* the active subscriptions it matches.                                    *)
Mutate ==
    /\ mpc = "actions"
    /\ muts < MaxMutations
    /\ muts' = muts + 1
    /\ \E matched \in SUBSET {s \in Subs : sub[s].pc # "none"} :
         /\ stream' = [s \in Subs |-> stream[s] + (IF s \in matched THEN 1 ELSE 0)]
         /\ published' = [s \in Subs |-> published[s] + (IF s \in matched THEN 1 ELSE 0)]
    /\ UNCHANGED <<mpc, allDone, rc, k, sub, asserted>>

(* The loop is over: close(allActionsDone).                                *)
CloseAllActionsDone ==
    /\ mpc = "actions"
    /\ mpc' = "wait"
    /\ allDone' = TRUE
    /\ UNCHANGED <<rc, k, muts, sub, stream, published, asserted>>

(* The wait loop: the k-th channel yields the assertion, which the main    *)
(* routine runs over the results the goroutine had read.                   *)
ReceiveAssert ==
    /\ mpc = "wait"
    /\ k <= Len(rc)
    /\ sub[rc[k]].pc = "send"
    /\ sub' = [sub EXCEPT ![rc[k]].pc = "done"]
    /\ asserted' = [asserted EXCEPT ![rc[k]] = sub[rc[k]].data]
    /\ k' = k + 1
    /\ UNCHANGED <<mpc, allDone, rc, muts, stream, published>>

(* Mutant: no time.After case, the main routine waits on the channel only. *)
TimeoutNever == FALSE

(* time.After(subscriptionTimeout) fires first: the failure is recorded    *)
(* and the main routine moves on to the next channel.                      *)
Timeout ==
    /\ mpc = "wait"
    /\ k <= Len(rc)
    /\ k' = k + 1
    /\ UNCHANGED <<mpc, allDone, rc, muts, sub, stream, published, asserted>>

(* Every channel has been waited on: executeTestCase returns.              *)
Return ==
    /\ mpc = "wait"
    /\ k = Len(rc) + 1
    /\ mpc' = "returned"
    /\ UNCHANGED <<allDone, rc, k, muts, sub, stream, published, asserted>>

-----------------------------------------------------------------------------
(* The goroutine of subscription s: one select case per step.              *)

(* expectedDataRecieved && allActionsAreDone: the goroutine sends its       *)
(* assertion (expectedDataRecieved starts as len(action.Results) == 0 and  *)
(* is set once len(data) >= len(action.Results)).                          *)
Ready(g) == g.data >= g.expect /\ g.seenDone

(* Mutant: the receive case taken on an empty stream.                      *)
StreamRecvUnguarded(s) ==
    /\ sub[s].pc = "loop"
    /\ stream' = [stream EXCEPT ![s] = @ - 1]
    /\ LET g == [sub[s] EXCEPT !.data = @ + 1]
       IN  sub' = [sub EXCEPT ![s] = IF Ready(g) THEN [g EXCEPT !.pc = "send"] ELSE g]
    /\ UNCHANGED <<mpc, allDone, rc, k, muts, published, asserted>>

(* case s := <-stream: the results are appended to data.                   *)
StreamRecv(s) ==
    /\ sub[s].pc = "loop"
    /\ stream[s] > 0
    /\ stream' = [stream EXCEPT ![s] = @ - 1]
    /\ LET g == [sub[s] EXCEPT !.data = @ + 1]
       IN  sub' = [sub EXCEPT ![s] = IF Ready(g) THEN [g EXCEPT !.pc = "send"] ELSE g]
    /\ UNCHANGED <<mpc, allDone, rc, k, muts, published, asserted>>

(* case <-allActionsDone: the closed channel is always ready.              *)
SeeAllDone(s) ==
    /\ sub[s].pc = "loop"
    /\ allDone
    /\ LET g == [sub[s] EXCEPT !.seenDone = TRUE]
       IN  sub' = [sub EXCEPT ![s] = IF Ready(g) THEN [g EXCEPT !.pc = "send"] ELSE g]
    /\ UNCHANGED <<mpc, allDone, rc, k, muts, stream, published, asserted>>

Next ==
    \/ \E s \in Subs : Subscribe(s) \/ SubscribeFails(s)
    \/ Mutate \/ CloseAllActionsDone \/ ReceiveAssert \/ Timeout \/ Return
    \/ \E s \in Subs : StreamRecv(s) \/ SeeAllDone(s)

(* Go runs every runnable goroutine and time.After fires: the main         *)
(* routine's wait steps and the goroutines' receives are weakly fair.  The *)
(* test case's own choice of actions is not.                               *)
Fairness ==
    /\ WF_vars(CloseAllActionsDone \/ Mutate
                \/ \E s \in Subs : Subscribe(s) \/ SubscribeFails(s))
    /\ WF_vars(ReceiveAssert) /\ WF_vars(Timeout) /\ WF_vars(Return)
    /\ \A s \in Subs : WF_vars(StreamRecv(s)) /\ WF_vars(SeeAllDone(s))

Spec == Init /\ [][Next]_vars /\ Fairness

-----------------------------------------------------------------------------
(* The test case always ends: whether a goroutine hands over its assertion *)
(* or never does (too few results, or an early return), the main routine   *)
(* returns from executeTestCase ("a safety in case the stream hangs - we   *)
(* don't want the tests to run forever", the time.After case).             *)
TestCaseReturns == <>(mpc = "returned")

(* The assertion a subscription's goroutine hands over covers every result *)
(* its stream received during the test case: it "asserts that the         *)
(* subscription received all its expected results and no more"            *)
(* (executeSubscriptionRequest's comment).                                 *)
AssertionSeesAllResults ==
    \A s \in Subs : asserted[s] # NoAssert => asserted[s] = published[s]

(* The main routine gave up on subscription s: time.After fired while it  *)
(* waited on the channel of s, which the test records as a failure.        *)
TimedOut(s) ==
    \E j \in 1..k - 1 : rc[j] = s /\ asserted[s] = NoAssert

(* In a test case that records no timeout, every goroutine                 *)
(* executeSubscriptionRequest starts terminates: it yields its assertion   *)
(* once and returns ("It will only yield once, once the subscription has   *)
(* terminated").  An expected error on a later SubscriptionRequest makes   *)
(* executeTestCase return before close(allActionsDone), and the earlier    *)
(* goroutines are left blocked in their select.                            *)
GoroutinesTerminate ==
    \A s \in Subs : sub[s].pc # "none" ~> (sub[s].pc = "done" \/ TimedOut(s))

=============================================================================
