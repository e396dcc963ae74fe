----------------------------- MODULE DtlsClient -----------------------------
(***************************************************************************)
(* The CycloneSSL DTLS client demo                                         *)
(* (src/cyc/demo/x86/dtls_client_demo/src/main.c).                        *)
(*                                                                         *)
(* main seeds the PRNG, loads three PEM credentials into global buffers   *)
(* (readPemFile), starts userTask and joins it, then frees the buffers.    *)
(* userTask loops: on key C it calls dtlsClientConnect, on D               *)
(* dtlsClientDisconnect, on T it writes a datagram, on Q it disconnects    *)
(* and deletes itself; after each key it reads a datagram when            *)
(* dtlsContext is set. Only the user task touches sock and dtlsContext;   *)
(* main waits in pthread_join meanwhile.                                   *)
(*                                                                         *)
(* A handle is modelled by what the global holds: nothing (-1 / NULL), a   *)
(* live object, or a stale value naming one already released. Every call *)
(* of the TLS library and of the sockets API either succeeds or fails.    *)
(***************************************************************************)
EXTENDS Naturals, Sequences

CONSTANTS
  PemOutcomes,   \* the outcomes readPemFile may meet (see ReadPemFile)
  MaxConnects    \* bound: C key presses

(* The credential files, in the order main loads them. *)
FileOrder == << "ca", "cert", "key" >>
Files == {"ca", "cert", "key"}

(* The steps of dtlsClientConnect that can fail, in program order. With   *)
(* APP_SET_CIPHER_SUITES and APP_SET_SERVER_NAME disabled, and the raw    *)
(* public key and ticket options left to tls_config.h (not in this        *)
(* repository), these are all of them.                                    *)
ConnectSteps ==
  << "gethostbyname", "socket", "connect", "setsockopt", "tlsInit",
     "setSocketCallbacks", "setTransportProtocol", "setConnectionEnd",
     "setPrng", "setTrustedCaList", "loadCertificate", "restoreSession",
     "setTimeout", "tlsConnect", "saveSession", "setTimeout0" >>

StepNo(s) == CHOOSE i \in 1 .. Len(ConnectSteps) : ConnectSteps[i] = s

(* Index one past the last step: dtlsClientConnect succeeds. *)
Success == Len(ConnectSteps) + 1

VARIABLES
  mainPc,   \* main: "Start", "Join" (in pthread_join), "Done", "Crashed"
  upc,      \* userTask: "None" (not created), "Key", "Poll", "Deleted"
  h,        \* the handles: see NoHandles
  cred,     \* the three credential pointers: "Null", "Live", "Dangling", "Released"
  connects, \* C key presses so far
  misuse    \* history: the resources used or released after their release

vars == << mainPc, upc, h, cred, connects, misuse >>

(* sock: "None" (-1), "Open", "Closed" (a closed descriptor);              *)
(* ctx: "Null", "Live", "Freed" (a freed TlsContext); openSocks and        *)
(* liveCtx count the sockets and contexts the process holds; established   *)
(* says tlsConnect succeeded on the current context.                      *)
NoHandles == [sock |-> "None", ctx |-> "Null", openSocks |-> 0, liveCtx |-> 0,
              established |-> FALSE]

-----------------------------------------------------------------------------
(* The resources a TLS call on dtlsContext uses that were already released:*)
(* the context itself and, through the send/receive callbacks, sock.      *)
StaleUses(hs) ==
  { r \in {"ctx", "sock"} : IF r = "ctx" THEN hs.ctx = "Freed" ELSE hs.sock = "Closed" }

(* dtlsClientDisconnect: a non-NULL context is saved, shut down, freed and *)
(* set to NULL; a descriptor >= 0 is closed and set to -1.                 *)
Disconnect(hs) ==
  LET h1 == IF hs.ctx # "Null"
            THEN [hs EXCEPT !.ctx = "Null",
                            !.liveCtx = @ - (IF hs.ctx = "Live" THEN 1 ELSE 0),
                            !.established = FALSE]
            ELSE hs
  IN IF h1.sock # "None"
     THEN [h1 EXCEPT !.sock = "None",
                     !.openSocks = @ - (IF hs.sock = "Open" THEN 1 ELSE 0)]
     ELSE h1

(* What dtlsClientDisconnect uses after its release. *)
DisconnectMisuse(hs) ==
  (IF hs.ctx = "Freed" THEN {"ctx"} ELSE {})
  \cup (IF hs.sock = "Closed" THEN {"sock"} ELSE {})

(* Fault variant: the error exit of dtlsClientConnect returns without      *)
(* dtlsClientDisconnect.                                                   *)
OnConnectErrorKeep(hs) == hs

(* if(error) dtlsClientDisconnect() *)
OnConnectError(hs) == Disconnect(hs)

(* Fault variant: dtlsClientConnect without the dtlsClientDisconnect of   *)
(* its first line.                                                         *)
ConnectStartKeep(hs) == hs

(* dtlsClientConnect first closes any previous connection. *)
ConnectStart(hs) == Disconnect(hs)

(* dtlsClientConnect when step k of ConnectSteps fails (k = Success: none *)
(* does): the socket exists from "socket" on, the context from "tlsInit"  *)
(* on; any failure after the socket was created ends in OnConnectError.   *)
ConnectResult(hs, k) ==
  LET h0 == ConnectStart(hs)
      h1 == IF k > StepNo("socket")
            THEN [h0 EXCEPT !.sock = "Open", !.openSocks = @ + 1] ELSE h0
      h2 == IF k > StepNo("tlsInit")
            THEN [h1 EXCEPT !.ctx = "Live", !.liveCtx = @ + 1] ELSE h1
  IN IF k = Success THEN [h2 EXCEPT !.established = TRUE]
     ELSE IF k <= StepNo("socket") THEN h2
     ELSE OnConnectError(h2)

(* The credentials dtlsClientConnect hands to the TLS library before step *)
(* k fails: tlsSetTrustedCaList takes the CA list, tlsLoadCertificate the *)
(* certificate and the key.                                               *)
CredentialsUsed(k) ==
  (IF k >= StepNo("setTrustedCaList") THEN {"ca"} ELSE {})
  \cup (IF k >= StepNo("loadCertificate") THEN {"cert", "key"} ELSE {})

(* What a connect attempt uses after its release: the handles of the      *)
(* previous connection, and a credential buffer readPemFile freed.        *)
ConnectMisuse(hs, k) ==
  DisconnectMisuse(hs) \cup { f \in CredentialsUsed(k) : cred[f] = "Dangling" }

(* Fault variant: Q deletes the task without closing the connection. *)
QuitWithoutDisconnect(hs) == hs

(* Q: dtlsClientDisconnect, tlsFreeSessionState, osDeleteTask. *)
Quit(hs) == Disconnect(hs)

-----------------------------------------------------------------------------
(* readPemFile: fopen or fseek failing leave *buffer as it was (NULL: the  *)
(* globals start NULL, and free(NULL) does nothing); a failed malloc      *)
(* leaves it NULL; a short fread frees the buffer but leaves *buffer      *)
(* pointing at it; success leaves it allocated.                           *)
ReadPemFile(outcome) ==
  CASE outcome \in {"open", "seek", "alloc"} -> "Null"
    [] outcome = "read" -> "Dangling"
    [] outcome = "ok" -> "Live"

(* main's do { ... } while(0): the files in FileOrder until one fails; a  *)
(* file after the failing one is not read and its pointer stays NULL.     *)
LoadCredentials(outs) ==
  LET pos(f) == CHOOSE i \in 1 .. 3 : FileOrder[i] = f
  IN [f \in Files |->
        IF \A j \in 1 .. pos(f) - 1 : outs[FileOrder[j]] = "ok"
        THEN ReadPemFile(outs[f]) ELSE "Null"]

Init ==
  /\ mainPc = "Start"
  /\ upc = "None"
  /\ h = NoHandles
  /\ cred = [f \in Files |-> "Null"]
  /\ connects = 0
  /\ misuse = {}

(* main up to pthread_join: the PRNG seed (getrandom, yarrowInit,          *)
(* yarrowSeed) failing returns at once; otherwise the credentials are     *)
(* loaded (a failure is only reported) and the user task is created, or   *)
(* its creation fails (only reported).                                    *)
MainStart ==
  /\ mainPc = "Start"
  /\ \/ /\ mainPc' = "Done"
        /\ UNCHANGED << upc, cred >>
     \/ /\ \E outs \in [Files -> PemOutcomes] : cred' = LoadCredentials(outs)
        /\ \E created \in BOOLEAN : upc' = IF created THEN "Key" ELSE "None"
        /\ mainPc' = "Join"
  /\ UNCHANGED << h, connects, misuse >>

(* pthread_join returns once the user task is deleted; then the three     *)
(* buffers are freed. If the task was never created, pthread_join gets an *)
(* invalid thread id: undefined, it crashes or returns.                   *)
MainExit ==
  /\ mainPc = "Join"
  /\ upc \in {"Deleted", "None"}
  /\ \/ /\ mainPc' = "Done"
        /\ cred' = [f \in Files |-> IF cred[f] = "Null" THEN "Null" ELSE "Released"]
        /\ misuse' = misuse \cup {f \in Files : cred[f] = "Dangling"}
     \/ /\ upc = "None"
        /\ mainPc' = "Crashed"
        /\ UNCHANGED << cred, misuse >>
  /\ UNCHANGED << upc, h, connects >>

-----------------------------------------------------------------------------
(* One key of userTask's loop (or none pressed, or another key). *)
UserKey ==
  /\ upc = "Key"
  /\ \/ /\ upc' = "Poll"
        /\ UNCHANGED << h, connects, misuse >>
     \/ /\ connects < MaxConnects
        /\ connects' = connects + 1
        /\ \E k \in 1 .. Success :
             /\ h' = ConnectResult(h, k)
             /\ misuse' = misuse \cup ConnectMisuse(h, k)
        /\ upc' = "Poll"
     \/ /\ h' = Disconnect(h)
        /\ misuse' = misuse \cup DisconnectMisuse(h)
        /\ upc' = "Poll"
        /\ UNCHANGED connects
     \/ /\ misuse' = misuse \cup (IF h.ctx # "Null" THEN StaleUses(h) ELSE {})
        /\ upc' = "Poll"
        /\ UNCHANGED << h, connects >>
     \/ /\ h' = Quit(h)
        /\ misuse' = misuse \cup DisconnectMisuse(h)
        /\ upc' = "Deleted"
        /\ UNCHANGED connects
  /\ UNCHANGED << mainPc, cred >>

(* The end of the loop body: tlsRead when dtlsContext is set (its result  *)
(* only printed), osDelayTask(100) otherwise.                              *)
UserPoll ==
  /\ upc = "Poll"
  /\ upc' = "Key"
  /\ misuse' = misuse \cup (IF h.ctx # "Null" THEN StaleUses(h) ELSE {})
  /\ UNCHANGED << mainPc, h, cred, connects >>

Next == MainStart \/ MainExit \/ UserKey \/ UserPoll

Spec == Init /\ [][Next]_vars

-----------------------------------------------------------------------------
(***************************************************************************)
(* Properties.                                                              *)
(***************************************************************************)

(* No socket or TLS context is leaked: every one the process holds is the *)
(* one sock or dtlsContext names, across reconnects (dtlsClientConnect     *)
(* starting over a live connection) and failed connects.                  *)
HandlesAccountedFor ==
  /\ h.openSocks = IF h.sock = "Open" THEN 1 ELSE 0
  /\ h.liveCtx = IF h.ctx = "Live" THEN 1 ELSE 0

(* Between keys, a live dtlsContext is an established session on an open  *)
(* socket: a connect that failed half-way leaves no context behind for the *)
(* T key and tlsRead to use.                                               *)
ConnectionConsistent ==
  h.ctx = "Live" => h.established /\ h.sock = "Open"

(* When main returns, the socket is closed, the context freed and no       *)
(* credential buffer is still allocated.                                   *)
ExitReleasesAll ==
  mainPc = "Done" =>
    /\ h.openSocks = 0 /\ h.liveCtx = 0
    /\ \A f \in Files : cred[f] # "Live"

(* No credential buffer is handed to the TLS library or passed to free()   *)
(* after it was freed.                                                     *)
CredentialsNotUsedAfterFree == misuse \cap Files = {}

=============================================================================
