-------------------------- MODULE VpnStateService --------------------------
(***************************************************************************)
(* VpnStateService.java of the strongSwan module: the state of the IKEv2   *)
(* connection, kept on the main thread.                                    *)
(*                                                                         *)
(* Threads do not write the state: they post closures to the main looper,  *)
(* which runs them in order.  posts is that queue.  intents are the start  *)
(* commands on their way to CharonVpnService, the id of a profile or NoId  *)
(* for DISCONNECT_ACTION.                                                  *)
(*                                                                         *)
(* An error starts a countdown after which the profile is connected again. *)
(* The kinds of errors differ only in the text shown and in the length of  *)
(* the countdown; mError only says whether there is one.                   *)
(***************************************************************************)
EXTENDS Naturals, Sequences, VpnState

CONSTANTS MaxPosts,    \* bound: closures in the looper's queue
          RetryTicks   \* seconds of a countdown

ASSUME PostsAssumption == /\ MaxPosts \in Nat
                          /\ RetryTicks \in Nat \ {0}

VARIABLES mState, mError, mProfile,
          retrying,    \* mRetryTimeout > 0
          mRetryIn,    \* seconds left; 0 for anything not positive
          retryMsgs,   \* RETRY_MSG messages in the looper
          posts, intents

retryVars == <<retrying, mRetryIn, retryMsgs>>
stateServiceVars == <<mState, mError, mProfile, retryVars, posts, intents>>

Profile == Ids \cup {NoId}
State == {"DISABLED", "CONNECTING", "CONNECTED", "DISCONNECTING"}
Posts == [op : State \cup {"START", "ERROR", "NO_ERROR"}, id : Profile]

StateServiceTypeOK == /\ mState \in State
                      /\ mError \in BOOLEAN
                      /\ mProfile \in Profile
                      /\ retrying \in BOOLEAN
                      /\ mRetryIn \in Nat
                      /\ retryMsgs \in Nat
                      /\ posts \in Seq(Posts)
                      /\ intents \in Seq(Profile)

StateServiceInit == /\ mState = "DISABLED"
                    /\ mError = FALSE
                    /\ mProfile = NoId
                    /\ retrying = FALSE
                    /\ mRetryIn = 0
                    /\ retryMsgs = 0
                    /\ posts = <<>>
                    /\ intents = <<>>

(***************************************************************************)
(* mHandler.post of startConnection, setState and setError.                *)
(***************************************************************************)
Post(op, id) == /\ Len(posts) < MaxPosts
                /\ posts' = Append(posts, [op |-> op, id |-> id])

resetRetryTimer == /\ retrying' = FALSE
                   /\ mRetryIn' = 0
                   /\ UNCHANGED retryMsgs

(***************************************************************************)
(* A message of an earlier countdown is not removed.                       *)
(***************************************************************************)
setRetryTimer == /\ retrying' = TRUE
                 /\ mRetryIn' = RetryTicks
                 /\ retryMsgs' = retryMsgs + 1

(***************************************************************************)
(* The closures, run by the main thread.  Changed says whether listeners   *)
(* are told afterwards.                                                    *)
(***************************************************************************)
startConnection(id) == /\ resetRetryTimer
                       /\ mProfile' = id
                       /\ mState' = "CONNECTING"
                       /\ mError' = FALSE

setState(s) == /\ mState' = s
               /\ UNCHANGED <<mError, mProfile, retryVars>>

setErrorState(e) == /\ IF mError = e THEN UNCHANGED retryVars
                       ELSE IF e THEN setRetryTimer ELSE resetRetryTimer
                    /\ mError' = e
                    /\ UNCHANGED <<mState, mProfile>>

Changed(p) == CASE p.op = "START" -> TRUE
                [] p.op = "ERROR" -> ~mError
                [] p.op = "NO_ERROR" -> mError
                [] OTHER -> mState # p.op

runPost == /\ posts # <<>>
           /\ posts' = Tail(posts)
           /\ LET p == Head(posts) IN
              \/ p.op = "START" /\ startConnection(p.id)
              \/ p.op \in State /\ setState(p.op)
              \/ p.op \in {"ERROR", "NO_ERROR"} /\ setErrorState(p.op = "ERROR")
           /\ UNCHANGED intents

(***************************************************************************)
(* RetryHandler.handleMessage.  The last second connects again.            *)
(***************************************************************************)
retryIgnored == /\ retryMsgs > 0 /\ ~retrying
                /\ retryMsgs' = retryMsgs - 1
                /\ UNCHANGED <<mState, mError, mProfile, retrying, mRetryIn, posts, intents>>

retryCounts == /\ retryMsgs > 0 /\ retrying /\ mRetryIn > 1
               /\ mRetryIn' = mRetryIn - 1
               /\ UNCHANGED <<mState, mError, mProfile, retrying, retryMsgs, posts, intents>>

retryConnects == /\ retryMsgs > 0 /\ retrying /\ mRetryIn <= 1
                 /\ mRetryIn' = 0
                 /\ retryMsgs' = retryMsgs - 1
                 /\ intents' = Append(intents, mProfile)
                 /\ UNCHANGED <<mState, mError, mProfile, retrying, posts>>

=============================================================================
