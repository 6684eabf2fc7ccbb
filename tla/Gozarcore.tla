----------------------------- MODULE Gozarcore -----------------------------
(***************************************************************************)
(* gozarcore.go, the Go library that embeds Xray: one instance per process *)
(* and the descriptor of the tun it was given.  Start and Stop hold a      *)
(* mutex from beginning to end, so each is one step.                       *)
(*                                                                         *)
(* openFds is the set of descriptors that are open, whoever holds them.    *)
(***************************************************************************)
EXTENDS Naturals

NoFd == 0

VARIABLES core,      \* is an Xray instance running?
          coreFd,    \* package variable tunFd; NoFd is -1
          openFds

coreVars == <<core, coreFd, openFds>>

CoreTypeOK == /\ core \in BOOLEAN
              /\ coreFd \in Nat
              /\ openFds \in SUBSET Nat

CoreInit == /\ core = FALSE
            /\ coreFd = NoFd
            /\ openFds = {}

(***************************************************************************)
(* Start closes what an earlier Start left behind, then takes over fd,     *)
(* whether or not Xray comes up with it.                                   *)
(***************************************************************************)
CoreStart(fd, ok) == /\ core' = ok
                     /\ coreFd' = fd
                     /\ openFds' = openFds \ {coreFd}

(***************************************************************************)
(* Stop closes the descriptor and the instance.  extra are descriptors     *)
(* the caller closes itself in the same step.                              *)
(***************************************************************************)
CoreStop(extra) == /\ core' = FALSE
                   /\ coreFd' = NoFd
                   /\ openFds' = openFds \ ({coreFd} \cup extra)

(***************************************************************************)
(* A Start that fails followed by a Stop.                                  *)
(***************************************************************************)
CoreRestart(fd) == CoreStop({fd})

=============================================================================
