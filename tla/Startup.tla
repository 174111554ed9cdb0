------------------------------ MODULE Startup -------------------------------
(***************************************************************************)
(* main(): from exec by dinit to serving requests.  The claimed marker is  *)
(* read before the claim secret is loaded or created, the secret before    *)
(* the code is displayed, and nothing is served until an interface is      *)
(* bound.  Every failure on the way exits with status 1 and dinit starts   *)
(* the process again.                                                      *)
(***************************************************************************)
EXTENDS AgentState

VARIABLES
    memSecret,      \* AppState::secret; None when the process is down
    alreadyClaimed, \* what main() read of the marker
    screen,         \* the code the console shows; it outlives the process
    displayed       \* whether this start's write to the tty returned Ok

bootVars == <<memSecret, alreadyClaimed, screen, displayed>>

ProcStates == {"down", "secret", "display", "bind", "up"}

BootInit ==
    /\ proc = "down"
    /\ memSecret = None
    /\ alreadyClaimed = FALSE
    /\ screen = None
    /\ displayed = FALSE

BootTypeOK ==
    /\ proc \in ProcStates
    /\ memSecret \in Secrets \cup {None}
    /\ alreadyClaimed \in BOOLEAN
    /\ screen \in Secrets \cup {None}
    /\ displayed \in BOOLEAN

(* The process ends: main() exits, or it is killed.  Memory is gone. *)
ProcessEnds ==
    /\ proc' = "down"
    /\ memSecret' = None
    /\ alreadyClaimed' = FALSE
    /\ displayed' = FALSE

-----------------------------------------------------------------------------
(* dinit execs the agent; main() reads is_claimed into already_claimed. *)
BootReadClaimed ==
    /\ proc = "down"
    /\ proc' = "secret"
    /\ alreadyClaimed' = IsClaimed
    /\ UNCHANGED <<diskVars, lockoutAuth, memSecret, screen, displayed>>

(* load_or_create_secret finds the secret of an earlier start. *)
BootLoadSecret ==
    /\ proc = "secret"
    /\ secretFile # None
    /\ memSecret' = secretFile
    /\ proc' = "display"
    /\ UNCHANGED <<diskVars, lockoutAuth, alreadyClaimed, screen, displayed>>

(* A generated secret is none of those still in use. *)
FreshSecrets == Secrets \ {secretFile, screen}

(* Mutant: a secret that could not be persisted is used all the same. *)
BootCreateSecret_Unpersisted ==
    /\ proc = "secret"
    /\ secretFile = None \/ "read" \in Faults
    /\ \E s \in FreshSecrets, outcome \in WriteOutcomes :
          /\ secretFile' = Written(secretFile, s, outcome)
          /\ memSecret' = s
    /\ proc' = "display"
    /\ UNCHANGED <<marker, binding, creds, lockoutAuth, alreadyClaimed, screen, displayed>>

(* Mutant: every start generates a secret. *)
BootCreateSecret_EveryStart ==
    /\ proc = "secret"
    /\ \E s \in FreshSecrets, outcome \in WriteOutcomes :
          /\ secretFile' = Written(secretFile, s, outcome)
          /\ IF outcome = "ok"
             THEN /\ memSecret' = s
                  /\ proc' = "display"
                  /\ UNCHANGED <<alreadyClaimed, displayed>>
             ELSE ProcessEnds
    /\ UNCHANGED <<marker, binding, creds, lockoutAuth, screen>>

(***************************************************************************)
(* load_or_create_secret generates and persists a secret: the file is      *)
(* missing, or reading it failed (any read error counts as "missing").     *)
(* It does so on a claimed box as well.  When persisting fails main()      *)
(* refuses to start.                                                       *)
(***************************************************************************)
BootCreateSecret ==
    /\ proc = "secret"
    /\ secretFile = None \/ "read" \in Faults
    /\ \E s \in FreshSecrets, outcome \in WriteOutcomes :
          /\ secretFile' = Written(secretFile, s, outcome)
          /\ IF outcome = "ok"
             THEN /\ memSecret' = s
                  /\ proc' = "display"
                  /\ UNCHANGED <<alreadyClaimed, displayed>>
             ELSE ProcessEnds
    /\ UNCHANGED <<marker, binding, creds, lockoutAuth, screen>>

(***************************************************************************)
(* display_claim_code writes the screen to the tty.  When the tty cannot   *)
(* be opened, or the write fails before or after the code is out, the text *)
(* goes to stdout instead, which dinit discards: the console shows what it *)
(* showed before, no code, or this one.                                    *)
(***************************************************************************)
DisplayClaimCode ==
    \/ screen' = memSecret /\ displayed' = TRUE
    \/ /\ "display" \in Faults
       /\ screen' \in {screen, None, memSecret}
       /\ displayed' = FALSE

(***************************************************************************)
(* Only a box that main() found unclaimed shows its code; main() goes on   *)
(* whether or not the code reached the console.                            *)
(***************************************************************************)
BootDisplay ==
    /\ proc = "display"
    /\ IF alreadyClaimed THEN UNCHANGED <<screen, displayed>> ELSE DisplayClaimCode
    /\ proc' = "bind"
    /\ UNCHANGED <<diskVars, lockoutAuth, memSecret, alreadyClaimed>>

(* At least one LAN interface address is bound and served ... *)
BootServe ==
    /\ proc = "bind"
    /\ proc' = "up"
    /\ UNCHANGED <<diskVars, lockoutAuth, bootVars>>

(* ... or there is none, or none can be bound, and main() exits. *)
BootNoNetwork ==
    /\ proc = "bind"
    /\ "bind" \in Faults
    /\ ProcessEnds
    /\ UNCHANGED <<diskVars, lockoutAuth, screen>>

Boot ==
    \/ BootReadClaimed \/ BootLoadSecret \/ BootCreateSecret
    \/ BootDisplay \/ BootServe \/ BootNoNetwork
=============================================================================
