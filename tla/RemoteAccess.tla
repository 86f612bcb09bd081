---------------------------- MODULE RemoteAccess ----------------------------
(***************************************************************************)
(* How a phone gets access to GrassiBoard and loses it: the one-time       *)
(* pairing secret, the credentials handed out for it, the settings file    *)
(* they are kept in, the authentication of a socket and the revocation of  *)
(* a device.  The request threads, the UI thread and the phones interleave *)
(* freely; saving and loading the file may fail and the program may be     *)
(* killed at any point.                                                    *)
(*                                                                         *)
(* Hashing, the six-digit code (which works like the secret) and the       *)
(* certificate are abstracted.  The lock of the pairing service makes      *)
(* TryPair, ValidateClientToken, Revoke and CreatePairing atomic, with the *)
(* save inside; a file is replaced by a move, so it is always a whole one. *)
(***************************************************************************)
EXTENDS Naturals

CONSTANTS
    Phones,       \* the phones' browsers
    Conns,        \* bound: sockets the server holds at a time
    Secrets,      \* values a pairing secret may take
    MaxTokens,    \* bound: credentials handed out in a run
    MaxAttempts   \* MaxManualAttempts

Tokens == 1..MaxTokens
None == 0
Desktop == "desktop"   \* the UI thread, as a maker of pairing secrets

ASSUME AccessAssumption ==
    /\ MaxTokens \in Nat /\ MaxAttempts \in Nat \ {0}
    /\ None \notin Secrets /\ Desktop \notin Phones

VARIABLES
    \* RemotePairingService
    secret,     \* _secretHash, None when invalidated
    expired,    \* the five minutes are over
    attempts,   \* _attempts
    records,    \* _settings.Clients, by the token whose hash they hold
    \* RemoteServerService
    making,     \* a secret that is created and not yet on display, by maker
    shown,      \* CurrentPairing
    handler,    \* where the pairing request of a phone is
    answer,     \* the token it is about to return
    conn,       \* the sockets
    revoking,   \* the revocation under way, if any
    \* the disk
    file,       \* the records in remote-settings.json
    \* the phones
    scanned,    \* the secret a phone has read from the display
    held,       \* the token in its local storage
    \* history
    minted,     \* tokens made so far
    removed,    \* tokens whose record a revocation removed
    revoked,    \* ... and the revocation reported success
    paid,       \* secrets that were exchanged for a token
    overtaken,  \* sockets a revocation missed on their way into the client set
    loadFailed  \* the file could not be read at some start

pairing  == <<secret, expired, attempts>>
display  == <<making, shown>>
requests == <<handler, answer>>
phones   == <<scanned, held>>
history  == <<minted, removed, revoked, paid, overtaken, loadFailed>>
vars == <<pairing, records, display, requests, conn, revoking, file, phones, history>>

-----------------------------------------------------------------------------

Makers == Phones \cup {Desktop}
Free == [at |-> "free", token |-> None]
NoRevocation == [at |-> "idle", token |-> None, matches |-> {}]

\* A random secret is one nobody has seen.
InUse == {secret, shown} \cup {scanned[p] : p \in Phones} \cup {making[m] : m \in Makers}

Init ==
    /\ \E s \in Secrets : secret = s /\ shown = s
    /\ expired = FALSE /\ attempts = 0
    /\ records = {} /\ file = {}
    /\ making = [m \in Makers |-> None]
    /\ handler = [p \in Phones |-> "idle"] /\ answer = [p \in Phones |-> None]
    /\ conn = [c \in Conns |-> Free]
    /\ revoking = NoRevocation
    /\ scanned = [p \in Phones |-> None] /\ held = [p \in Phones |-> None]
    /\ minted = 0
    /\ removed = {} /\ revoked = {} /\ paid = {} /\ overtaken = {}
    /\ loadFailed = FALSE

-----------------------------------------------------------------------------
(* The pairing secret: created under the lock, put on display outside it. *)

CreatePairing(m, s) ==
    /\ s \notin InUse
    /\ secret' = s /\ expired' = FALSE /\ attempts' = 0
    /\ making' = [making EXCEPT ![m] = s]
    /\ paid' = paid \ {s}
    /\ UNCHANGED <<shown, records, answer, conn, revoking, file, phones, minted,
                   removed, revoked, overtaken, loadFailed>>

ShowPairing(m) ==
    /\ making[m] # None
    /\ shown' = making[m] /\ making' = [making EXCEPT ![m] = None]
    /\ UNCHANGED <<pairing, records, answer, conn, revoking, file, phones, history>>

RegeneratePairing ==
    /\ UNCHANGED handler
    /\ \/ making[Desktop] = None /\ \E s \in Secrets : CreatePairing(Desktop, s)
       \/ ShowPairing(Desktop)

PairingExpires ==
    /\ ~expired /\ expired' = TRUE
    /\ UNCHANGED <<secret, attempts, records, display, requests, conn, revoking, file,
                   phones, history>>

\* IsPairingActive, and the limit on the attempts.
PairingOpen == secret # None /\ ~expired /\ attempts < MaxAttempts

-----------------------------------------------------------------------------
(* The phones and HandlePairAsync. *)

\* The QR code is scanned; a phone that does so forgets what it had.
PairFromQr(p) ==
    /\ handler[p] = "idle" /\ shown # None
    /\ scanned' = [scanned EXCEPT ![p] = shown]
    /\ held' = [held EXCEPT ![p] = None]
    /\ UNCHANGED <<pairing, records, display, requests, conn, revoking, file, history>>

\* Somebody types a wrong code.
WrongCode ==
    /\ PairingOpen
    /\ attempts' = attempts + 1
    /\ UNCHANGED <<secret, expired, records, display, requests, conn, revoking, file,
                   phones, history>>

\* Refused: the secret is not, or no longer, the right one.
PairRefused(p) ==
    /\ handler[p] = "idle" /\ scanned[p] # None
    /\ ~PairingOpen \/ scanned[p] # secret
    /\ attempts' = IF PairingOpen THEN attempts + 1 ELSE attempts
    /\ scanned' = [scanned EXCEPT ![p] = None]
    /\ UNCHANGED <<secret, expired, records, display, requests, conn, revoking, file,
                   held, history>>

RightSecret(p) ==
    /\ handler[p] = "idle" /\ scanned[p] # None
    /\ PairingOpen /\ scanned[p] = secret
    /\ minted < MaxTokens /\ minted' = minted + 1
    /\ records' = records \cup {minted + 1}

Answers(p) ==
    /\ handler' = [handler EXCEPT ![p] = "accepted"]
    /\ answer' = [answer EXCEPT ![p] = minted + 1]
    /\ paid' = paid \cup {secret}
    /\ UNCHANGED <<expired, display, conn, revoking, phones, removed, revoked,
                   overtaken, loadFailed>>

\* InvalidatePairingNoLock.
InvalidatePairing == secret' = None /\ attempts' = 0

\* Mutant: the secret stays valid.
PairAcceptsAgain(p) == /\ RightSecret(p) /\ file' = records'
                       /\ Answers(p) /\ UNCHANGED <<secret, attempts>>

\* Mutant: a failure of the save is ignored.
PairAcceptsUnsaved(p) == RightSecret(p) /\ file' \in {file, records'}
                         /\ Answers(p) /\ InvalidatePairing

PairAccepts(p) == /\ RightSecret(p) /\ file' = records'
                  /\ Answers(p) /\ InvalidatePairing

\* The save throws: the record stays in memory, the secret stays valid and
\* the phone, told of an error, may try again.
PairSaveFails(p) ==
    /\ RightSecret(p)
    /\ attempts' = attempts + 1
    /\ UNCHANGED <<secret, expired, display, requests, conn, revoking, file, phones,
                   removed, revoked, paid, overtaken, loadFailed>>

\* A new secret is put on display before the phone has its answer.
RenewPairing(p) ==
    \/ /\ handler[p] = "accepted" /\ handler' = [handler EXCEPT ![p] = "created"]
       /\ \E s \in Secrets : CreatePairing(p, s)
    \/ /\ handler[p] = "created" /\ handler' = [handler EXCEPT ![p] = "answering"]
       /\ ShowPairing(p)

\* The answer arrives, or is lost and the browser is left with the secret.
PairAnswered(p) ==
    /\ handler[p] = "answering"
    /\ handler' = [handler EXCEPT ![p] = "idle"]
    /\ answer' = [answer EXCEPT ![p] = None]
    /\ \/ /\ held' = [held EXCEPT ![p] = answer[p]]
          /\ scanned' = [scanned EXCEPT ![p] = None]
       \/ UNCHANGED phones
    /\ UNCHANGED <<pairing, records, display, conn, revoking, file, history>>

-----------------------------------------------------------------------------
(* HandleWebSocketAsync. *)

Socket(c, place, t) == conn' = [conn EXCEPT ![c] = [at |-> place, token |-> t]]

\* A phone opens a socket and, greeted, sends its token.
Connect(p, c) ==
    /\ held[p] # None /\ conn[c] = Free
    /\ Socket(c, "hello", held[p])
    /\ UNCHANGED <<pairing, records, display, requests, revoking, file, phones, history>>

\* ValidateClientToken saves the time the phone was last seen.
Validate(c) ==
    /\ conn[c].at = "hello" /\ conn[c].token \in records
    /\ Socket(c, "valid", conn[c].token)
    /\ file' = records
    /\ UNCHANGED <<pairing, records, display, requests, revoking, phones, history>>

\* Mutant: a failed save refuses the phone.
ValidateFailsHarshly(c) ==
    /\ conn[c].at = "hello"
    /\ Socket(c, "free", None)
    /\ held' = [p \in Phones |-> IF held[p] = conn[c].token THEN None ELSE held[p]]
    /\ UNCHANGED <<pairing, records, display, requests, revoking, file, scanned, history>>

\* "unauthorized": the browser forgets its token.
ValidateRefuses(c) ==
    /\ conn[c].at = "hello" /\ conn[c].token \notin records
    /\ Socket(c, "free", None)
    /\ held' = [p \in Phones |-> IF held[p] = conn[c].token THEN None ELSE held[p]]
    /\ UNCHANGED <<pairing, records, display, requests, revoking, file, scanned, history>>

\* It joins _clients, and its messages are served.
Join(c) ==
    /\ conn[c].at = "valid"
    /\ Socket(c, "served", conn[c].token)
    /\ UNCHANGED <<pairing, records, display, requests, revoking, file, phones, history>>

\* The socket is lost, its authentication times out or a save throws in it.
Disconnect(c) ==
    /\ conn[c] # Free
    /\ Socket(c, "free", None)
    /\ overtaken' = overtaken \ {c}
    /\ revoking' = [revoking EXCEPT !.matches = @ \ {c}]
    /\ UNCHANGED <<pairing, records, display, requests, file, phones,
                   minted, removed, revoked, paid, loadFailed>>

-----------------------------------------------------------------------------
(* RevokeClientAsync, on the UI thread. *)

Remove(t) ==
    /\ revoking.at = "idle" /\ t \in records
    /\ records' = records \ {t}
    /\ removed' = removed \cup {t}
    /\ UNCHANGED <<pairing, display, requests, conn, phones, minted, paid, overtaken,
                   loadFailed>>

Revokes(t) ==
    /\ revoked' = revoked \cup {t}
    /\ revoking' = [at |-> "removed", token |-> t, matches |-> {}]

\* Mutant: the list is changed in memory alone.
RevokeUnsaved(t) == Remove(t) /\ Revokes(t) /\ UNCHANGED file

Revoke(t) == Remove(t) /\ Revokes(t) /\ file' = records'

\* The save throws: neither the file nor the sockets are touched.
RevokeSaveFails(t) == Remove(t) /\ UNCHANGED <<revoked, revoking, file>>

\* The device is still listed after such a failure and is revoked again: there
\* is no record to remove, nothing is saved, but its sockets are closed.
RevokeAgain(t) ==
    /\ revoking.at = "idle" /\ t \in removed \ (revoked \cup records)
    /\ revoking' = [at |-> "removed", token |-> t, matches |-> {}]
    /\ UNCHANGED <<pairing, records, display, requests, conn, file, phones, history>>

OfRevoked(place) == {c \in Conns : conn[c].at = place /\ conn[c].token = revoking.token}

\* Mutant: FirstOrDefault, not Where.
TakeOneMatch ==
    /\ revoking.at = "removed"
    /\ IF OfRevoked("served") = {} THEN revoking' = [revoking EXCEPT !.at = "closing"]
       ELSE \E c \in OfRevoked("served") :
                revoking' = [revoking EXCEPT !.at = "closing", !.matches = {c}]
    /\ overtaken' = overtaken \cup OfRevoked("valid")
    /\ UNCHANGED <<pairing, records, display, requests, conn, file, phones, minted,
                   removed, revoked, paid, loadFailed>>

TakeMatches ==
    /\ revoking.at = "removed"
    /\ revoking' = [revoking EXCEPT !.at = "closing", !.matches = OfRevoked("served")]
    /\ overtaken' = overtaken \cup OfRevoked("valid")
    /\ UNCHANGED <<pairing, records, display, requests, conn, file, phones, minted,
                   removed, revoked, paid, loadFailed>>

\* CloseAsync, or after a second Abort; then the next one.
CloseMatch(c) ==
    /\ revoking.at = "closing" /\ c \in revoking.matches
    /\ revoking' = [revoking EXCEPT !.matches = @ \ {c}]
    /\ Socket(c, "free", None)
    /\ overtaken' = overtaken \ {c}
    /\ UNCHANGED <<pairing, records, display, requests, file, phones, minted, removed,
                   revoked, paid, loadFailed>>

RevokeEnds ==
    /\ revoking.at = "closing" /\ revoking.matches = {}
    /\ revoking' = NoRevocation
    /\ UNCHANGED <<pairing, records, display, requests, conn, file, phones, history>>

-----------------------------------------------------------------------------

\* SetEnabledPreference, and nothing but a save of what is in memory.
SavePreference ==
    /\ file' = records
    /\ UNCHANGED <<pairing, records, display, requests, conn, revoking, phones, history>>

\* The program is killed and started again: it loads the file, or an empty
\* document if it cannot be read, and shows a new secret.
Restart ==
    /\ \/ records' = file /\ UNCHANGED loadFailed
       \/ records' = {} /\ loadFailed' = TRUE
    /\ \E s \in Secrets \ InUse : secret' = s /\ shown' = s /\ paid' = paid \ {s}
    /\ expired' = FALSE /\ attempts' = 0
    /\ making' = [m \in Makers |-> None]
    /\ handler' = [p \in Phones |-> "idle"] /\ answer' = [p \in Phones |-> None]
    /\ conn' = [c \in Conns |-> Free]
    /\ revoking' = NoRevocation
    /\ overtaken' = {}
    /\ UNCHANGED <<file, phones, minted, removed, revoked>>

Next ==
    \/ RegeneratePairing \/ PairingExpires \/ WrongCode
    \/ \E p \in Phones :
          \/ PairFromQr(p) \/ PairRefused(p) \/ PairAccepts(p) \/ PairSaveFails(p)
          \/ RenewPairing(p) \/ PairAnswered(p)
          \/ \E c \in Conns : Connect(p, c)
    \/ \E c \in Conns :
          Validate(c) \/ ValidateRefuses(c) \/ Join(c) \/ Disconnect(c) \/ CloseMatch(c)
    \/ \E t \in Tokens : Revoke(t) \/ RevokeSaveFails(t) \/ RevokeAgain(t)
    \/ TakeMatches \/ RevokeEnds
    \/ SavePreference \/ Restart

Spec == Init /\ [][Next]_vars

-----------------------------------------------------------------------------
(* Properties. *)

SomeSecret == Secrets \cup {None}
SomeToken == Tokens \cup {None}

TypeOK ==
    /\ secret \in SomeSecret /\ shown \in SomeSecret
    /\ making \in [Makers -> SomeSecret] /\ scanned \in [Phones -> SomeSecret]
    /\ expired \in BOOLEAN /\ loadFailed \in BOOLEAN
    /\ attempts \in 0..MaxAttempts /\ minted \in 0..MaxTokens
    /\ handler \in [Phones -> {"idle", "accepted", "created", "answering"}]
    /\ answer \in [Phones -> SomeToken] /\ held \in [Phones -> SomeToken]
    /\ conn \in [Conns -> [at : {"free", "hello", "valid", "served"}, token : SomeToken]]
    /\ revoking \in [at : {"idle", "removed", "closing"}, token : SomeToken,
                     matches : SUBSET Conns]
    /\ records \subseteq Tokens /\ file \subseteq Tokens
    /\ removed \subseteq Tokens /\ revoked \subseteq Tokens
    /\ paid \subseteq SomeSecret /\ overtaken \subseteq Conns

\* The tokens that are with a phone, or on their way to one.
HandedOut == {held[p] : p \in Phones} \cup {answer[p] : p \in Phones}

\* Tokens are minted, never guessed, and only minted ones are revoked.
Minted ==
    /\ records \cup file \cup removed \cup (HandedOut \ {None}) \subseteq 1..minted
    /\ revoked \subseteq removed

\* A phone has a token or a secret, not both, and keeps the secret until its
\* answer arrives.
TokenOrSecret ==
    \A p \in Phones :
        /\ handler[p] # "idle" => scanned[p] # None
        /\ held[p] # None => scanned[p] = None

\* A socket whose token is revoked has been overtaken, or is about to be
\* looked for, or is about to be closed.
Reached ==
    \A c \in Conns :
        conn[c].at \in {"valid", "served"} /\ conn[c].token \in revoked =>
            \/ c \in overtaken
            \/ revoking.at = "removed" /\ revoking.token = conn[c].token
            \/ conn[c].at = "served" /\ revoking.at = "closing" /\ c \in revoking.matches

\* What the properties below rest on.
AccessInv == TypeOK /\ Minted /\ TokenOrSecret /\ Reached

\* A credential a phone has been given outlives every crash and every failed
\* save: unless somebody revokes it, or the file cannot be read at a start,
\* its record is in memory and on the disk (TryPair saves before it answers).
HandedOutIsOnFile ==
    ~loadFailed => (HandedOut \ {None}) \ removed \subseteq records \cap file

\* A revocation that reported success is for good: the credential is in
\* neither memory nor file ever again, whatever fails or is restarted later.
RevokedStaysOut == revoked \cap (records \cup file) = {}

\* docs/remote-control.md: the secret "is invalidated after successful use".
\* One secret buys one credential, however its exchange fails and is retried.
LiveSecretUnused == secret # None => secret \notin paid

\* A phone whose revocation has been carried out is served on only if it was
\* between the check of its token and the client set just then.
OnlyTheRaceIsMissed ==
    \A c \in Conns : conn[c].at = "served" /\ conn[c].token \in revoked =>
        \/ c \in overtaken
        \/ revoking.at = "removed" /\ revoking.token = conn[c].token
        \/ revoking.at = "closing" /\ c \in revoking.matches

\* A browser forgets a token only when it is told that it is revoked, on being
\* paired anew, or after the file could not be read: never for a passing failure.
ForgetsOnlyRevoked ==
    [][\A p \in Phones :
          held[p] # None /\ held'[p] # held[p] /\ scanned'[p] = scanned[p] =>
              held[p] \in removed \/ loadFailed]_vars

\* docs/remote-control.md: "Revoking a device removes its stored hash and
\* closes its live connection."
\* It does not hold: README.md, section 4.
RevokedIsCut ==
    revoking.at = "idle" =>
        \A c \in Conns : conn[c].at = "served" => conn[c].token \notin revoked
=============================================================================
