------------------------- MODULE RemoteAccessProofs -------------------------
(***************************************************************************)
(* What holds of pairing, authentication and revocation for any number of  *)
(* phones, sockets, secrets and credentials, in every interleaving and     *)
(* over every failed save and restart.                                     *)
(***************************************************************************)
EXTENDS RemoteAccess, TLAPS

USE AccessAssumption

LEMMA Zero == 0 \in 0..MaxAttempts /\ 0 \in 0..MaxTokens
  OBVIOUS

LEMMA TypeInit == Init => TypeOK
<1> SUFFICES ASSUME Init PROVE TypeOK
  OBVIOUS
<1>1. conn \in [Conns -> [at : {"free", "hello", "valid", "served"}, token : SomeToken]]
  BY DEF Init, Free, SomeToken
<1>2. revoking \in [at : {"idle", "removed", "closing"}, token : SomeToken,
                    matches : SUBSET Conns]
  BY DEF Init, NoRevocation, SomeToken
<1> QED
  BY <1>1, <1>2, Zero DEF Init, TypeOK, SomeSecret, SomeToken

-----------------------------------------------------------------------------
(* Type correctness. *)

LEMMA TypeStep == TypeOK /\ [Next]_vars => TypeOK'
<1> SUFFICES ASSUME TypeOK, [Next]_vars PROVE TypeOK'
  OBVIOUS
<1>1. CASE RegeneratePairing
  <2>1. Desktop \in Makers
    BY DEF Makers
  <2>2. making' \in [Makers -> SomeSecret]
    BY <1>1, <2>1 DEF RegeneratePairing, CreatePairing, ShowPairing, TypeOK, SomeSecret
  <2>3. shown' \in SomeSecret /\ secret' \in SomeSecret /\ paid' \subseteq SomeSecret
    BY <1>1, <2>1 DEF RegeneratePairing, CreatePairing, ShowPairing, TypeOK, SomeSecret,
       pairing, history
  <2>4. (attempts' = attempts \/ attempts' = 0) /\ expired' \in BOOLEAN
    BY <1>1 DEF RegeneratePairing, CreatePairing, ShowPairing, TypeOK, pairing
  <2>41. attempts' \in 0..MaxAttempts
    BY <2>4, Zero DEF TypeOK
  <2> QED
    BY <1>1, <2>2, <2>3, <2>4, <2>41 DEF RegeneratePairing, CreatePairing, ShowPairing, phones,
       history, TypeOK, SomeSecret, SomeToken
<1>2. CASE PairingExpires
  BY <1>2 DEF PairingExpires, pairing, display, requests, phones, history, TypeOK,
  SomeSecret, SomeToken, Free, NoRevocation, None
<1>3. CASE WrongCode
  BY <1>3 DEF WrongCode, PairingOpen, pairing, display, requests, phones, history, TypeOK,
  SomeSecret, SomeToken, Free, NoRevocation, None
<1>4. ASSUME NEW p \in Phones, PairFromQr(p) PROVE TypeOK'
  BY <1>4 DEF PairFromQr, pairing, display, requests, phones, history, TypeOK, SomeSecret,
  SomeToken, Free, NoRevocation, None
<1>5. ASSUME NEW p \in Phones, PairRefused(p) PROVE TypeOK'
  BY <1>5 DEF PairRefused, PairingOpen, pairing, display, requests, phones, history,
  TypeOK, SomeSecret, SomeToken, Free, NoRevocation, None
<1>6. ASSUME NEW p \in Phones, PairAccepts(p) PROVE TypeOK'
  <2>1. minted + 1 \in Tokens /\ minted' = minted + 1 /\ minted' \in 0..MaxTokens
    BY <1>6 DEF PairAccepts, RightSecret, TypeOK, Tokens
  <2>2. records' \subseteq Tokens /\ file' \subseteq Tokens
    BY <1>6, <2>1 DEF PairAccepts, RightSecret, TypeOK
  <2>3. handler' \in [Phones -> {"idle", "accepted", "created", "answering"}]
        /\ answer' \in [Phones -> SomeToken]
    BY <1>6, <2>1 DEF PairAccepts, Answers, TypeOK, SomeToken
  <2>4. secret' \in SomeSecret /\ paid' \subseteq SomeSecret /\ attempts' \in 0..MaxAttempts
    BY <1>6 DEF PairAccepts, Answers, InvalidatePairing, TypeOK, SomeSecret
  <2>5. UNCHANGED <<expired, making, shown, conn, revoking, scanned, held, removed, revoked,
                    overtaken, loadFailed>>
    BY <1>6 DEF PairAccepts, Answers, display, phones
  <2> QED
    BY <2>1, <2>2, <2>3, <2>4, <2>5 DEF TypeOK
<1>7. ASSUME NEW p \in Phones, PairSaveFails(p) PROVE TypeOK'
  <2>1. minted + 1 \in Tokens /\ minted' = minted + 1 /\ minted' \in 0..MaxTokens
    BY <1>7 DEF PairSaveFails, RightSecret, TypeOK, Tokens
  <2>2. records' \subseteq Tokens /\ attempts' \in 0..MaxAttempts
    BY <1>7, <2>1 DEF PairSaveFails, RightSecret, PairingOpen, TypeOK
  <2>3. UNCHANGED <<secret, expired, making, shown, handler, answer, conn, revoking, file,
                    scanned, held, removed, revoked, paid, overtaken, loadFailed>>
    BY <1>7 DEF PairSaveFails, display, requests, phones
  <2> QED
    BY <2>1, <2>2, <2>3 DEF TypeOK
<1>8. ASSUME NEW p \in Phones, RenewPairing(p) PROVE TypeOK'
  <2>1. p \in Makers
    BY DEF Makers
  <2>2. making' \in [Makers -> SomeSecret]
    BY <1>8, <2>1 DEF RenewPairing, CreatePairing, ShowPairing, TypeOK, SomeSecret
  <2>3. shown' \in SomeSecret /\ secret' \in SomeSecret /\ paid' \subseteq SomeSecret
    BY <1>8, <2>1 DEF RenewPairing, CreatePairing, ShowPairing, TypeOK, SomeSecret,
       pairing, history
  <2>4. (attempts' = attempts \/ attempts' = 0) /\ expired' \in BOOLEAN
    BY <1>8 DEF RenewPairing, CreatePairing, ShowPairing, TypeOK, pairing
  <2>41. attempts' \in 0..MaxAttempts
    BY <2>4, Zero DEF TypeOK
  <2>5. handler' \in [Phones -> {"idle", "accepted", "created", "answering"}]
    BY <1>8 DEF RenewPairing, TypeOK
  <2>6. UNCHANGED <<scanned, held, answer, conn, revoking, records, file, minted, removed,
                    revoked, overtaken, loadFailed>>
    BY <1>8 DEF RenewPairing, CreatePairing, ShowPairing, phones, history
  <2> QED
    BY <2>2, <2>3, <2>4, <2>41, <2>5, <2>6 DEF TypeOK
<1>9. ASSUME NEW p \in Phones, PairAnswered(p) PROVE TypeOK'
  BY <1>9 DEF PairAnswered, pairing, display, requests, phones, history, TypeOK,
  SomeSecret, SomeToken, Free, NoRevocation, None
<1>10. ASSUME NEW p \in Phones, NEW c \in Conns, Connect(p, c) PROVE TypeOK'
  BY <1>10 DEF Connect, Socket, pairing, display, requests, phones, history, TypeOK,
  SomeSecret, SomeToken, Free, NoRevocation, None
<1>11. ASSUME NEW c \in Conns, Validate(c) PROVE TypeOK'
  BY <1>11 DEF Validate, Socket, pairing, display, requests, phones, history, TypeOK,
  SomeSecret, SomeToken, Free, NoRevocation, None
<1>12. ASSUME NEW c \in Conns, ValidateRefuses(c) PROVE TypeOK'
  BY <1>12 DEF ValidateRefuses, Socket, pairing, display, requests, phones, history,
  TypeOK, SomeSecret, SomeToken, Free, NoRevocation, None
<1>13. ASSUME NEW c \in Conns, Join(c) PROVE TypeOK'
  BY <1>13 DEF Join, Socket, pairing, display, requests, phones, history, TypeOK,
  SomeSecret, SomeToken, Free, NoRevocation, None
<1>14. ASSUME NEW c \in Conns, Disconnect(c) PROVE TypeOK'
  BY <1>14 DEF Disconnect, Socket, pairing, display, requests, phones, history, TypeOK,
  SomeSecret, SomeToken, Free, NoRevocation, None
<1>15. ASSUME NEW c \in Conns, CloseMatch(c) PROVE TypeOK'
  BY <1>15 DEF CloseMatch, Socket, pairing, display, requests, phones, history, TypeOK,
  SomeSecret, SomeToken, Free, NoRevocation, None
<1>16. ASSUME NEW t \in Tokens, Revoke(t) PROVE TypeOK'
  BY <1>16 DEF Revoke, Remove, Revokes, pairing, display, requests, phones, history,
  TypeOK, SomeSecret, SomeToken, Free, NoRevocation, None
<1>17. ASSUME NEW t \in Tokens, RevokeSaveFails(t) PROVE TypeOK'
  BY <1>17 DEF RevokeSaveFails, Remove, pairing, display, requests, phones, history,
  TypeOK, SomeSecret, SomeToken, Free, NoRevocation, None
<1>18. ASSUME NEW t \in Tokens, RevokeAgain(t) PROVE TypeOK'
  BY <1>18 DEF RevokeAgain, pairing, display, requests, phones, history, TypeOK,
  SomeSecret, SomeToken, Free, NoRevocation, None
<1>19. CASE TakeMatches
  BY <1>19 DEF TakeMatches, OfRevoked, pairing, display, requests, phones, history, TypeOK,
  SomeSecret, SomeToken, Free, NoRevocation, None
<1>20. CASE RevokeEnds
  BY <1>20 DEF RevokeEnds, pairing, display, requests, phones, history, TypeOK, SomeSecret,
  SomeToken, Free, NoRevocation, None
<1>21. CASE SavePreference
  BY <1>21 DEF SavePreference, pairing, display, requests, phones, history, TypeOK,
  SomeSecret, SomeToken, Free, NoRevocation, None
<1>22. CASE Restart
  <2>1. conn' \in [Conns -> [at : {"free", "hello", "valid", "served"}, token : SomeToken]]
    BY <1>22 DEF Restart, Free, SomeToken
  <2>2. revoking' \in [at : {"idle", "removed", "closing"}, token : SomeToken,
                       matches : SUBSET Conns]
    BY <1>22 DEF Restart, NoRevocation, SomeToken
  <2>3. secret' \in SomeSecret /\ shown' \in SomeSecret /\ paid' \subseteq SomeSecret
    BY <1>22 DEF Restart, TypeOK, SomeSecret
  <2>4. making' \in [Makers -> SomeSecret] /\ answer' \in [Phones -> SomeToken]
        /\ handler' \in [Phones -> {"idle", "accepted", "created", "answering"}]
    BY <1>22 DEF Restart, SomeSecret, SomeToken
  <2>5. records' \subseteq Tokens /\ loadFailed' \in BOOLEAN /\ expired' \in BOOLEAN
        /\ attempts' \in 0..MaxAttempts /\ overtaken' \subseteq Conns
    BY <1>22, Zero DEF Restart, TypeOK
  <2>6. UNCHANGED <<file, scanned, held, minted, removed, revoked>>
    BY <1>22 DEF Restart, phones
  <2> QED
    BY <2>1, <2>2, <2>3, <2>4, <2>5, <2>6 DEF TypeOK
<1>23. CASE UNCHANGED vars
  BY <1>23 DEF vars, pairing, display, requests, phones, history, TypeOK, SomeSecret, SomeToken, Free, NoRevocation, None
<1> QED
  BY <1>1, <1>2, <1>3, <1>4, <1>5, <1>6, <1>7, <1>8, <1>9, <1>10, <1>11, <1>12, <1>13,
  <1>14, <1>15, <1>16, <1>17, <1>18, <1>19, <1>20, <1>21, <1>22, <1>23 DEF Next

-----------------------------------------------------------------------------
(* Minted tokens. *)

\* A token gets to a phone by way of TryPair only.
LEMMA HandedOutStep ==
  TypeOK /\ [Next]_vars =>
      \/ HandedOut' \subseteq HandedOut \cup {None}
      \/ /\ \E p \in Phones : PairAccepts(p)
         /\ HandedOut' \subseteq HandedOut \cup {None, minted + 1}
<1> SUFFICES ASSUME TypeOK, [Next]_vars
             PROVE  \/ HandedOut' \subseteq HandedOut \cup {None}
                    \/ /\ \E p \in Phones : PairAccepts(p)
                       /\ HandedOut' \subseteq HandedOut \cup {None, minted + 1}
  OBVIOUS
<1>1. CASE UNCHANGED <<held, answer>>
  BY <1>1 DEF HandedOut
<1>2. ASSUME NEW p \in Phones, PairFromQr(p)
      PROVE  HandedOut' \subseteq HandedOut \cup {None}
  BY <1>2 DEF PairFromQr, HandedOut, TypeOK, phones, requests
<1>3. ASSUME NEW p \in Phones, PairAccepts(p)
      PROVE  HandedOut' \subseteq HandedOut \cup {None, minted + 1}
  BY <1>3 DEF PairAccepts, RightSecret, Answers, InvalidatePairing, HandedOut, TypeOK,
  phones, requests
<1>4. ASSUME NEW p \in Phones, PairAnswered(p)
      PROVE  HandedOut' \subseteq HandedOut \cup {None}
  BY <1>4 DEF PairAnswered, HandedOut, TypeOK, phones, requests
<1>5. ASSUME NEW c \in Conns, ValidateRefuses(c)
      PROVE  HandedOut' \subseteq HandedOut \cup {None}
  BY <1>5 DEF ValidateRefuses, Socket, HandedOut, TypeOK, phones, requests
<1>6. ASSUME Restart PROVE HandedOut' \subseteq HandedOut \cup {None}
  BY <1>6 DEF Restart, HandedOut, TypeOK, phones, requests
<1>7. CASE \/ UNCHANGED vars
           \/ RegeneratePairing \/ PairingExpires \/ WrongCode \/ TakeMatches
           \/ RevokeEnds \/ SavePreference
           \/ \E p \in Phones : PairRefused(p) \/ PairSaveFails(p) \/ RenewPairing(p)
           \/ \E p \in Phones, c \in Conns : Connect(p, c)
           \/ \E c \in Conns : Validate(c) \/ Join(c) \/ Disconnect(c) \/ CloseMatch(c)
           \/ \E t \in Tokens : Revoke(t) \/ RevokeSaveFails(t) \/ RevokeAgain(t)
  <2>1. UNCHANGED <<held, answer>>
    BY <1>7 DEF vars, phones, requests, RegeneratePairing, CreatePairing, ShowPairing,
    PairingExpires, WrongCode, PairRefused, PairSaveFails, RightSecret, RenewPairing,
    Connect, Validate, Join, Disconnect, CloseMatch, Revoke, Remove, Revokes,
    RevokeSaveFails, RevokeAgain, TakeMatches, RevokeEnds, SavePreference
  <2> QED
    BY <2>1, <1>1
<1> QED
  BY <1>1, <1>2, <1>3, <1>4, <1>5, <1>6, <1>7 DEF Next

-----------------------------------------------------------------------------
(* What a step may do to the records, in memory and on the disk. *)

LeavesStore == UNCHANGED <<records, file, removed, revoked, minted, loadFailed>>

Saves == file' = records /\ UNCHANGED <<records, removed, revoked, minted, loadFailed>>

Mints(f) ==
    /\ minted' = minted + 1 /\ records' = records \cup {minted + 1}
    /\ file' = f
    /\ UNCHANGED <<removed, revoked, loadFailed>>

Removes(t) ==
    /\ t \in records /\ records' = records \ {t} /\ removed' = removed \cup {t}
    /\ \/ revoked' = revoked \cup {t} /\ file' = records'
       \/ UNCHANGED <<revoked, file>>
    /\ UNCHANGED <<minted, loadFailed>>

Reloads ==
    /\ \/ records' = file /\ UNCHANGED loadFailed
       \/ records' = {} /\ loadFailed' = TRUE
    /\ UNCHANGED <<file, removed, revoked, minted>>

StoreChange ==
    \/ LeavesStore \/ Saves \/ Reloads
    \/ (\E p \in Phones : PairAccepts(p)) /\ Mints(records')
    \/ ~(\E p \in Phones : PairAccepts(p)) /\ Mints(file)
    \/ \E t \in Tokens : Removes(t)

LEMMA StoreStep == TypeOK /\ [Next]_vars => StoreChange
<1> SUFFICES ASSUME TypeOK, [Next]_vars PROVE StoreChange
  OBVIOUS
<1>1. ASSUME RegeneratePairing PROVE LeavesStore
  BY <1>1 DEF RegeneratePairing, CreatePairing, ShowPairing, history, LeavesStore
<1>2. ASSUME PairingExpires PROVE LeavesStore
  BY <1>2 DEF PairingExpires, history, LeavesStore
<1>3. ASSUME WrongCode PROVE LeavesStore
  BY <1>3 DEF WrongCode, history, LeavesStore
<1>4. ASSUME NEW p \in Phones, PairFromQr(p) PROVE LeavesStore
  BY <1>4 DEF PairFromQr, history, LeavesStore
<1>5. ASSUME NEW p \in Phones, PairRefused(p) PROVE LeavesStore
  BY <1>5 DEF PairRefused, history, LeavesStore
<1>6. ASSUME NEW p \in Phones, PairAccepts(p) PROVE Mints(records')
  BY <1>6 DEF PairAccepts, RightSecret, Answers, Mints
<1>7. ASSUME NEW p \in Phones, PairSaveFails(p) PROVE Mints(file)
  BY <1>7 DEF PairSaveFails, RightSecret, Mints
<1>8. ASSUME NEW p \in Phones, RenewPairing(p) PROVE LeavesStore
  BY <1>8 DEF RenewPairing, CreatePairing, ShowPairing, history, LeavesStore
<1>9. ASSUME NEW p \in Phones, PairAnswered(p) PROVE LeavesStore
  BY <1>9 DEF PairAnswered, history, LeavesStore
<1>10. ASSUME NEW p \in Phones, NEW c \in Conns, Connect(p, c) PROVE LeavesStore
  BY <1>10 DEF Connect, history, LeavesStore
<1>11. ASSUME NEW c \in Conns, Validate(c) PROVE Saves
  BY <1>11 DEF Validate, history, Saves
<1>12. ASSUME NEW c \in Conns, ValidateRefuses(c) PROVE LeavesStore
  BY <1>12 DEF ValidateRefuses, history, LeavesStore
<1>13. ASSUME NEW c \in Conns, Join(c) PROVE LeavesStore
  BY <1>13 DEF Join, history, LeavesStore
<1>14. ASSUME NEW c \in Conns, Disconnect(c) PROVE LeavesStore
  BY <1>14 DEF Disconnect, history, LeavesStore
<1>15. ASSUME NEW c \in Conns, CloseMatch(c) PROVE LeavesStore
  BY <1>15 DEF CloseMatch, history, LeavesStore
<1>16. ASSUME NEW t \in Tokens, Revoke(t) PROVE Removes(t)
  BY <1>16 DEF Revoke, Remove, Revokes, Removes
<1>17. ASSUME NEW t \in Tokens, RevokeSaveFails(t) PROVE Removes(t)
  BY <1>17 DEF RevokeSaveFails, Remove, Removes
<1>18. ASSUME NEW t \in Tokens, RevokeAgain(t) PROVE LeavesStore
  BY <1>18 DEF RevokeAgain, history, LeavesStore
<1>19. ASSUME TakeMatches PROVE LeavesStore
  BY <1>19 DEF TakeMatches, history, LeavesStore
<1>20. ASSUME RevokeEnds PROVE LeavesStore
  BY <1>20 DEF RevokeEnds, history, LeavesStore
<1>21. ASSUME SavePreference PROVE Saves
  BY <1>21 DEF SavePreference, history, Saves
<1>22. ASSUME Restart PROVE Reloads
  BY <1>22 DEF Restart, Reloads
<1>23. CASE UNCHANGED vars
  BY <1>23 DEF vars, pairing, display, requests, phones, history, LeavesStore, StoreChange
<1>24. \A p \in Phones : PairSaveFails(p) => ~\E r \in Phones : PairAccepts(r)
  <2> SUFFICES ASSUME NEW p \in Phones, PairSaveFails(p), NEW r \in Phones, PairAccepts(r)
               PROVE  FALSE
    OBVIOUS
  <2> QED
    BY DEF PairSaveFails, RightSecret, PairAccepts, InvalidatePairing, PairingOpen
<1> QED
  BY <1>1, <1>2, <1>3, <1>4, <1>5, <1>6, <1>7, <1>8, <1>9, <1>10, <1>11, <1>12, <1>13,
  <1>14, <1>15, <1>16, <1>17, <1>18, <1>19, <1>20, <1>21, <1>22, <1>23, <1>24 DEF Next,
  StoreChange

LEMMA MintedStep == TypeOK /\ Minted /\ [Next]_vars => Minted'
<1> SUFFICES ASSUME TypeOK, Minted, [Next]_vars PROVE Minted'
  OBVIOUS
<1>0. minted \in Nat /\ minted + 1 # minted
  BY DEF TypeOK
<1>01. \/ HandedOut' \subseteq HandedOut \cup {None}
       \/ minted' = minted + 1 /\ HandedOut' \subseteq HandedOut \cup {None, minted + 1}
  BY HandedOutStep DEF PairAccepts, RightSecret
<1>02. (\E p \in Phones : PairAccepts(p)) \/ HandedOut' \subseteq HandedOut \cup {None}
  BY HandedOutStep
<1>1. CASE LeavesStore
  BY <1>0, <1>01, <1>02, <1>1 DEF LeavesStore, Minted
<1>2. CASE Saves
  BY <1>0, <1>01, <1>02, <1>2 DEF Saves, Minted
<1>3. CASE Reloads
  BY <1>0, <1>01, <1>02, <1>3 DEF Reloads, Minted
<1>4. CASE (\E p \in Phones : PairAccepts(p)) /\ Mints(records')
  BY <1>0, <1>01, <1>02, <1>4 DEF Mints, TypeOK, Minted
<1>5. CASE ~(\E p \in Phones : PairAccepts(p)) /\ Mints(file)
  BY <1>0, <1>01, <1>02, <1>5 DEF Mints, TypeOK, Minted
<1>6. ASSUME NEW t \in Tokens, Removes(t) PROVE Minted'
  BY <1>0, <1>01, <1>02, <1>6 DEF Removes, Minted
<1> QED
  BY <1>1, <1>2, <1>3, <1>4, <1>5, <1>6, StoreStep DEF StoreChange

LEMMA RevokedStep == Minted /\ TypeOK /\ RevokedStaysOut /\ [Next]_vars => RevokedStaysOut'
<1> SUFFICES ASSUME Minted, TypeOK, RevokedStaysOut, [Next]_vars PROVE RevokedStaysOut'
  OBVIOUS
<1>0. minted + 1 \notin revoked
  BY DEF Minted, TypeOK
<1>1. CASE LeavesStore
  BY <1>0, <1>1 DEF LeavesStore, RevokedStaysOut
<1>2. CASE Saves
  BY <1>0, <1>2 DEF Saves, RevokedStaysOut
<1>3. CASE Reloads
  BY <1>0, <1>3 DEF Reloads, RevokedStaysOut
<1>4. CASE (\E p \in Phones : PairAccepts(p)) /\ Mints(records')
  BY <1>0, <1>4 DEF Mints, TypeOK, RevokedStaysOut
<1>5. CASE ~(\E p \in Phones : PairAccepts(p)) /\ Mints(file)
  BY <1>0, <1>5 DEF Mints, TypeOK, RevokedStaysOut
<1>6. ASSUME NEW t \in Tokens, Removes(t) PROVE RevokedStaysOut'
  BY <1>0, <1>6 DEF Removes, RevokedStaysOut
<1> QED
  BY <1>1, <1>2, <1>3, <1>4, <1>5, <1>6, StoreStep DEF StoreChange

LEMMA OnFileStep == Minted /\ TypeOK /\ HandedOutIsOnFile /\ [Next]_vars => HandedOutIsOnFile'
<1> SUFFICES ASSUME Minted, TypeOK, HandedOutIsOnFile, [Next]_vars PROVE HandedOutIsOnFile'
  OBVIOUS
<1>0. minted \in Nat /\ minted + 1 # minted
  BY DEF TypeOK
<1>01. \/ HandedOut' \subseteq HandedOut \cup {None}
       \/ minted' = minted + 1 /\ HandedOut' \subseteq HandedOut \cup {None, minted + 1}
  BY HandedOutStep DEF PairAccepts, RightSecret
<1>02. (\E p \in Phones : PairAccepts(p)) \/ HandedOut' \subseteq HandedOut \cup {None}
  BY HandedOutStep
<1>1. CASE LeavesStore
  BY <1>0, <1>01, <1>02, <1>1 DEF LeavesStore, HandedOutIsOnFile
<1>2. CASE Saves
  BY <1>0, <1>01, <1>02, <1>2 DEF Saves, HandedOutIsOnFile
<1>3. CASE Reloads
  BY <1>0, <1>01, <1>02, <1>3 DEF Reloads, HandedOutIsOnFile
<1>4. CASE (\E p \in Phones : PairAccepts(p)) /\ Mints(records')
  BY <1>0, <1>01, <1>02, <1>4 DEF Mints, TypeOK, HandedOutIsOnFile
<1>5. CASE ~(\E p \in Phones : PairAccepts(p)) /\ Mints(file)
  BY <1>0, <1>01, <1>02, <1>5 DEF Mints, TypeOK, HandedOutIsOnFile
<1>6. ASSUME NEW t \in Tokens, Removes(t) PROVE HandedOutIsOnFile'
  BY <1>0, <1>01, <1>02, <1>6 DEF Removes, HandedOutIsOnFile
<1> QED
  BY <1>1, <1>2, <1>3, <1>4, <1>5, <1>6, StoreStep DEF StoreChange

-----------------------------------------------------------------------------
(* The secret, the phones, the sockets. *)

LEMMA SecretStep == TypeOK /\ LiveSecretUnused /\ [Next]_vars => LiveSecretUnused'
<1> SUFFICES ASSUME TypeOK, LiveSecretUnused, [Next]_vars PROVE LiveSecretUnused'
  OBVIOUS
<1>1. CASE RegeneratePairing
  BY <1>1 DEF RegeneratePairing, CreatePairing, ShowPairing, pairing, display, requests,
  phones, history, LiveSecretUnused, None
<1>2. CASE PairingExpires
  BY <1>2 DEF PairingExpires, pairing, display, requests, phones, history,
  LiveSecretUnused, None
<1>3. CASE WrongCode
  BY <1>3 DEF WrongCode, PairingOpen, pairing, display, requests, phones, history,
  LiveSecretUnused, None
<1>4. ASSUME NEW p \in Phones, PairFromQr(p) PROVE LiveSecretUnused'
  BY <1>4 DEF PairFromQr, pairing, display, requests, phones, history, LiveSecretUnused,
  None
<1>5. ASSUME NEW p \in Phones, PairRefused(p) PROVE LiveSecretUnused'
  BY <1>5 DEF PairRefused, PairingOpen, pairing, display, requests, phones, history,
  LiveSecretUnused, None
<1>6. ASSUME NEW p \in Phones, PairAccepts(p) PROVE LiveSecretUnused'
  BY <1>6 DEF PairAccepts, RightSecret, Answers, InvalidatePairing, pairing, display,
  requests, phones, history, LiveSecretUnused, None
<1>7. ASSUME NEW p \in Phones, PairSaveFails(p) PROVE LiveSecretUnused'
  BY <1>7 DEF PairSaveFails, RightSecret, PairingOpen, pairing, display, requests, phones,
  history, LiveSecretUnused, None
<1>8. ASSUME NEW p \in Phones, RenewPairing(p) PROVE LiveSecretUnused'
  BY <1>8 DEF RenewPairing, CreatePairing, ShowPairing, pairing, display, requests, phones,
  history, LiveSecretUnused, None
<1>9. ASSUME NEW p \in Phones, PairAnswered(p) PROVE LiveSecretUnused'
  BY <1>9 DEF PairAnswered, pairing, display, requests, phones, history, LiveSecretUnused,
  None
<1>10. ASSUME NEW p \in Phones, NEW c \in Conns, Connect(p, c) PROVE LiveSecretUnused'
  BY <1>10 DEF Connect, Socket, pairing, display, requests, phones, history,
  LiveSecretUnused, None
<1>11. ASSUME NEW c \in Conns, Validate(c) PROVE LiveSecretUnused'
  BY <1>11 DEF Validate, Socket, pairing, display, requests, phones, history,
  LiveSecretUnused, None
<1>12. ASSUME NEW c \in Conns, ValidateRefuses(c) PROVE LiveSecretUnused'
  BY <1>12 DEF ValidateRefuses, Socket, pairing, display, requests, phones, history,
  LiveSecretUnused, None
<1>13. ASSUME NEW c \in Conns, Join(c) PROVE LiveSecretUnused'
  BY <1>13 DEF Join, Socket, pairing, display, requests, phones, history, LiveSecretUnused,
  None
<1>14. ASSUME NEW c \in Conns, Disconnect(c) PROVE LiveSecretUnused'
  BY <1>14 DEF Disconnect, Socket, pairing, display, requests, phones, history,
  LiveSecretUnused, None
<1>15. ASSUME NEW c \in Conns, CloseMatch(c) PROVE LiveSecretUnused'
  BY <1>15 DEF CloseMatch, Socket, pairing, display, requests, phones, history,
  LiveSecretUnused, None
<1>16. ASSUME NEW t \in Tokens, Revoke(t) PROVE LiveSecretUnused'
  BY <1>16 DEF Revoke, Remove, Revokes, pairing, display, requests, phones, history,
  LiveSecretUnused, None
<1>17. ASSUME NEW t \in Tokens, RevokeSaveFails(t) PROVE LiveSecretUnused'
  BY <1>17 DEF RevokeSaveFails, Remove, pairing, display, requests, phones, history,
  LiveSecretUnused, None
<1>18. ASSUME NEW t \in Tokens, RevokeAgain(t) PROVE LiveSecretUnused'
  BY <1>18 DEF RevokeAgain, pairing, display, requests, phones, history, LiveSecretUnused,
  None
<1>19. CASE TakeMatches
  BY <1>19 DEF TakeMatches, OfRevoked, pairing, display, requests, phones, history,
  LiveSecretUnused, None
<1>20. CASE RevokeEnds
  BY <1>20 DEF RevokeEnds, pairing, display, requests, phones, history, LiveSecretUnused,
  None
<1>21. CASE SavePreference
  BY <1>21 DEF SavePreference, pairing, display, requests, phones, history,
  LiveSecretUnused, None
<1>22. CASE Restart
  BY <1>22 DEF Restart, pairing, display, requests, phones, history, LiveSecretUnused, None
<1>23. CASE UNCHANGED vars
  BY <1>23 DEF vars, pairing, display, requests, phones, history, LiveSecretUnused, None
<1> QED
  BY <1>1, <1>2, <1>3, <1>4, <1>5, <1>6, <1>7, <1>8, <1>9, <1>10, <1>11, <1>12, <1>13,
  <1>14, <1>15, <1>16, <1>17, <1>18, <1>19, <1>20, <1>21, <1>22, <1>23 DEF Next

LEMMA PhoneStep == TypeOK /\ TokenOrSecret /\ [Next]_vars => TokenOrSecret'
<1> SUFFICES ASSUME TypeOK, TokenOrSecret, [Next]_vars PROVE TokenOrSecret'
  OBVIOUS
<1>1. CASE RegeneratePairing
  BY <1>1 DEF RegeneratePairing, CreatePairing, ShowPairing, pairing, display, requests,
  phones, history, TokenOrSecret, TypeOK, None
<1>2. CASE PairingExpires
  BY <1>2 DEF PairingExpires, pairing, display, requests, phones, history, TokenOrSecret,
  TypeOK, None
<1>3. CASE WrongCode
  BY <1>3 DEF WrongCode, PairingOpen, pairing, display, requests, phones, history,
  TokenOrSecret, TypeOK, None
<1>4. ASSUME NEW p \in Phones, PairFromQr(p) PROVE TokenOrSecret'
  BY <1>4 DEF PairFromQr, pairing, display, requests, phones, history, TokenOrSecret,
  TypeOK, None
<1>5. ASSUME NEW p \in Phones, PairRefused(p) PROVE TokenOrSecret'
  BY <1>5 DEF PairRefused, PairingOpen, pairing, display, requests, phones, history,
  TokenOrSecret, TypeOK, None
<1>6. ASSUME NEW p \in Phones, PairAccepts(p) PROVE TokenOrSecret'
  BY <1>6 DEF PairAccepts, RightSecret, Answers, InvalidatePairing, pairing, display,
  requests, phones, history, TokenOrSecret, TypeOK, None
<1>7. ASSUME NEW p \in Phones, PairSaveFails(p) PROVE TokenOrSecret'
  BY <1>7 DEF PairSaveFails, RightSecret, PairingOpen, pairing, display, requests, phones,
  history, TokenOrSecret, TypeOK, None
<1>8. ASSUME NEW p \in Phones, RenewPairing(p) PROVE TokenOrSecret'
  BY <1>8 DEF RenewPairing, CreatePairing, ShowPairing, pairing, display, requests, phones,
  history, TokenOrSecret, TypeOK, None
<1>9. ASSUME NEW p \in Phones, PairAnswered(p) PROVE TokenOrSecret'
  BY <1>9 DEF PairAnswered, pairing, display, requests, phones, history, TokenOrSecret,
  TypeOK, None
<1>10. ASSUME NEW p \in Phones, NEW c \in Conns, Connect(p, c) PROVE TokenOrSecret'
  BY <1>10 DEF Connect, Socket, pairing, display, requests, phones, history, TokenOrSecret,
  TypeOK, None
<1>11. ASSUME NEW c \in Conns, Validate(c) PROVE TokenOrSecret'
  BY <1>11 DEF Validate, Socket, pairing, display, requests, phones, history,
  TokenOrSecret, TypeOK, None
<1>12. ASSUME NEW c \in Conns, ValidateRefuses(c) PROVE TokenOrSecret'
  BY <1>12 DEF ValidateRefuses, Socket, pairing, display, requests, phones, history,
  TokenOrSecret, TypeOK, None
<1>13. ASSUME NEW c \in Conns, Join(c) PROVE TokenOrSecret'
  BY <1>13 DEF Join, Socket, pairing, display, requests, phones, history, TokenOrSecret,
  TypeOK, None
<1>14. ASSUME NEW c \in Conns, Disconnect(c) PROVE TokenOrSecret'
  BY <1>14 DEF Disconnect, Socket, pairing, display, requests, phones, history,
  TokenOrSecret, TypeOK, None
<1>15. ASSUME NEW c \in Conns, CloseMatch(c) PROVE TokenOrSecret'
  BY <1>15 DEF CloseMatch, Socket, pairing, display, requests, phones, history,
  TokenOrSecret, TypeOK, None
<1>16. ASSUME NEW t \in Tokens, Revoke(t) PROVE TokenOrSecret'
  BY <1>16 DEF Revoke, Remove, Revokes, pairing, display, requests, phones, history,
  TokenOrSecret, TypeOK, None
<1>17. ASSUME NEW t \in Tokens, RevokeSaveFails(t) PROVE TokenOrSecret'
  BY <1>17 DEF RevokeSaveFails, Remove, pairing, display, requests, phones, history,
  TokenOrSecret, TypeOK, None
<1>18. ASSUME NEW t \in Tokens, RevokeAgain(t) PROVE TokenOrSecret'
  BY <1>18 DEF RevokeAgain, pairing, display, requests, phones, history, TokenOrSecret,
  TypeOK, None
<1>19. CASE TakeMatches
  BY <1>19 DEF TakeMatches, OfRevoked, pairing, display, requests, phones, history,
  TokenOrSecret, TypeOK, None
<1>20. CASE RevokeEnds
  BY <1>20 DEF RevokeEnds, pairing, display, requests, phones, history, TokenOrSecret,
  TypeOK, None
<1>21. CASE SavePreference
  BY <1>21 DEF SavePreference, pairing, display, requests, phones, history, TokenOrSecret,
  TypeOK, None
<1>22. CASE Restart
  BY <1>22 DEF Restart, pairing, display, requests, phones, history, TokenOrSecret, TypeOK,
  None
<1>23. CASE UNCHANGED vars
  BY <1>23 DEF vars, pairing, display, requests, phones, history, TokenOrSecret, TypeOK, None
<1> QED
  BY <1>1, <1>2, <1>3, <1>4, <1>5, <1>6, <1>7, <1>8, <1>9, <1>10, <1>11, <1>12, <1>13,
  <1>14, <1>15, <1>16, <1>17, <1>18, <1>19, <1>20, <1>21, <1>22, <1>23 DEF Next

LEMMA ReachedStep == TypeOK /\ RevokedStaysOut /\ Reached /\ [Next]_vars => Reached'
<1> SUFFICES ASSUME TypeOK, RevokedStaysOut, Reached, [Next]_vars PROVE Reached'
  OBVIOUS
<1>1. CASE RegeneratePairing
  BY <1>1 DEF RegeneratePairing, CreatePairing, ShowPairing, pairing, display, requests,
  phones, history, Reached, RevokedStaysOut, TypeOK, Free, NoRevocation
<1>2. CASE PairingExpires
  BY <1>2 DEF PairingExpires, pairing, display, requests, phones, history, Reached,
  RevokedStaysOut, TypeOK, Free, NoRevocation
<1>3. CASE WrongCode
  BY <1>3 DEF WrongCode, PairingOpen, pairing, display, requests, phones, history, Reached,
  RevokedStaysOut, TypeOK, Free, NoRevocation
<1>4. ASSUME NEW p \in Phones, PairFromQr(p) PROVE Reached'
  BY <1>4 DEF PairFromQr, pairing, display, requests, phones, history, Reached,
  RevokedStaysOut, TypeOK, Free, NoRevocation
<1>5. ASSUME NEW p \in Phones, PairRefused(p) PROVE Reached'
  BY <1>5 DEF PairRefused, PairingOpen, pairing, display, requests, phones, history,
  Reached, RevokedStaysOut, TypeOK, Free, NoRevocation
<1>6. ASSUME NEW p \in Phones, PairAccepts(p) PROVE Reached'
  BY <1>6 DEF PairAccepts, RightSecret, Answers, InvalidatePairing, pairing, display,
  requests, phones, history, Reached, RevokedStaysOut, TypeOK, Free, NoRevocation
<1>7. ASSUME NEW p \in Phones, PairSaveFails(p) PROVE Reached'
  BY <1>7 DEF PairSaveFails, RightSecret, PairingOpen, pairing, display, requests, phones,
  history, Reached, RevokedStaysOut, TypeOK, Free, NoRevocation
<1>8. ASSUME NEW p \in Phones, RenewPairing(p) PROVE Reached'
  BY <1>8 DEF RenewPairing, CreatePairing, ShowPairing, pairing, display, requests, phones,
  history, Reached, RevokedStaysOut, TypeOK, Free, NoRevocation
<1>9. ASSUME NEW p \in Phones, PairAnswered(p) PROVE Reached'
  BY <1>9 DEF PairAnswered, pairing, display, requests, phones, history, Reached,
  RevokedStaysOut, TypeOK, Free, NoRevocation
<1>10. ASSUME NEW p \in Phones, NEW c \in Conns, Connect(p, c) PROVE Reached'
  BY <1>10 DEF Connect, Socket, pairing, display, requests, phones, history, Reached,
  RevokedStaysOut, TypeOK, Free, NoRevocation
<1>11. ASSUME NEW c \in Conns, Validate(c) PROVE Reached'
  BY <1>11 DEF Validate, Socket, pairing, display, requests, phones, history, Reached,
  RevokedStaysOut, TypeOK, Free, NoRevocation
<1>12. ASSUME NEW c \in Conns, ValidateRefuses(c) PROVE Reached'
  BY <1>12 DEF ValidateRefuses, Socket, pairing, display, requests, phones, history,
  Reached, RevokedStaysOut, TypeOK, Free, NoRevocation
<1>13. ASSUME NEW c \in Conns, Join(c) PROVE Reached'
  BY <1>13 DEF Join, Socket, pairing, display, requests, phones, history, Reached,
  RevokedStaysOut, TypeOK, Free, NoRevocation
<1>14. ASSUME NEW c \in Conns, Disconnect(c) PROVE Reached'
  BY <1>14 DEF Disconnect, Socket, pairing, display, requests, phones, history, Reached,
  RevokedStaysOut, TypeOK, Free, NoRevocation
<1>15. ASSUME NEW c \in Conns, CloseMatch(c) PROVE Reached'
  BY <1>15 DEF CloseMatch, Socket, pairing, display, requests, phones, history, Reached,
  RevokedStaysOut, TypeOK, Free, NoRevocation
<1>16. ASSUME NEW t \in Tokens, Revoke(t) PROVE Reached'
  BY <1>16 DEF Revoke, Remove, Revokes, pairing, display, requests, phones, history,
  Reached, RevokedStaysOut, TypeOK, Free, NoRevocation
<1>17. ASSUME NEW t \in Tokens, RevokeSaveFails(t) PROVE Reached'
  BY <1>17 DEF RevokeSaveFails, Remove, pairing, display, requests, phones, history,
  Reached, RevokedStaysOut, TypeOK, Free, NoRevocation
<1>18. ASSUME NEW t \in Tokens, RevokeAgain(t) PROVE Reached'
  BY <1>18 DEF RevokeAgain, pairing, display, requests, phones, history, Reached,
  RevokedStaysOut, TypeOK, Free, NoRevocation
<1>19. CASE TakeMatches
  BY <1>19 DEF TakeMatches, OfRevoked, pairing, display, requests, phones, history,
  Reached, RevokedStaysOut, TypeOK, Free, NoRevocation
<1>20. CASE RevokeEnds
  BY <1>20 DEF RevokeEnds, pairing, display, requests, phones, history, Reached,
  RevokedStaysOut, TypeOK, Free, NoRevocation
<1>21. CASE SavePreference
  BY <1>21 DEF SavePreference, pairing, display, requests, phones, history, Reached,
  RevokedStaysOut, TypeOK, Free, NoRevocation
<1>22. CASE Restart
  BY <1>22 DEF Restart, pairing, display, requests, phones, history, Reached,
  RevokedStaysOut, TypeOK, Free, NoRevocation
<1>23. CASE UNCHANGED vars
  BY <1>23 DEF vars, pairing, display, requests, phones, history, Reached, RevokedStaysOut, TypeOK, Free, NoRevocation
<1> QED
  BY <1>1, <1>2, <1>3, <1>4, <1>5, <1>6, <1>7, <1>8, <1>9, <1>10, <1>11, <1>12, <1>13,
  <1>14, <1>15, <1>16, <1>17, <1>18, <1>19, <1>20, <1>21, <1>22, <1>23 DEF Next

-----------------------------------------------------------------------------
(* The theorems. *)

Inductive == AccessInv /\ RevokedStaysOut /\ HandedOutIsOnFile /\ LiveSecretUnused

LEMMA InitInv == Init => Inductive
<1> SUFFICES ASSUME Init PROVE Inductive
  OBVIOUS
<1>1. TypeOK
  BY TypeInit
<1>2. HandedOut \ {None} = {}
  BY DEF Init, HandedOut
<1>3. Minted /\ RevokedStaysOut /\ HandedOutIsOnFile
  BY <1>2 DEF Init, Minted, RevokedStaysOut, HandedOutIsOnFile
<1>4. TokenOrSecret /\ Reached /\ LiveSecretUnused
  BY DEF Init, TokenOrSecret, Reached, LiveSecretUnused
<1> QED
  BY <1>1, <1>3, <1>4 DEF Inductive, AccessInv

LEMMA Invariance == Spec => []Inductive
<1>1. Inductive /\ [Next]_vars => Inductive'
  BY TypeStep, MintedStep, PhoneStep, ReachedStep, RevokedStep, OnFileStep, SecretStep
     DEF Inductive, AccessInv
<1> QED
  BY InitInv, <1>1, PTL DEF Spec

\* The inductive invariant of RemotePairingService, RemoteServerService and the
\* phones' storage.
THEOREM Access == Spec => []AccessInv
  BY Invariance, PTL DEF Inductive

\* What Revoke has removed and saved never comes back, through any order of
\* saves, failed saves, restarts and pairings.
THEOREM RevokedForGood == Spec => []RevokedStaysOut
  BY Invariance, PTL DEF Inductive

\* TryPair hands out no credential that a crash could lose: it is on the disk
\* before the phone hears of it, and stays until it is revoked.
THEOREM CredentialsLast == Spec => []HandedOutIsOnFile
  BY Invariance, PTL DEF Inductive

\* A pairing secret that still opens the door has bought nothing yet.
THEOREM OneTime == Spec => []LiveSecretUnused
  BY Invariance, PTL DEF Inductive

\* RevokeClientAsync leaves served only the sockets that were between
\* ValidateClientToken and the client set when it looked.
THEOREM OnlyOvertakenMissed == Spec => []OnlyTheRaceIsMissed
<1>1. Inductive => OnlyTheRaceIsMissed
  BY DEF Inductive, AccessInv, Reached, OnlyTheRaceIsMissed
<1> QED
  BY <1>1, Invariance, PTL

\* The web client drops its token only on a verdict about that token.
THEOREM NothingForgotten == Spec => ForgetsOnlyRevoked
<1> DEFINE Kept == \A p \in Phones :
                      held[p] # None /\ held'[p] # held[p] /\ scanned'[p] = scanned[p] =>
                          held[p] \in removed \/ loadFailed
<1>1. Inductive /\ [Next]_vars => Kept
  <2> SUFFICES ASSUME Inductive, [Next]_vars, NEW q \in Phones, held[q] # None,
                      held'[q] # held[q], scanned'[q] = scanned[q]
               PROVE  held[q] \in removed \/ loadFailed
    OBVIOUS
  <2>0. TypeOK /\ TokenOrSecret /\ HandedOutIsOnFile
    BY DEF Inductive, AccessInv
  <2>1. CASE UNCHANGED held
    BY <2>1
  <2>2. ASSUME NEW p \in Phones, PairFromQr(p) PROVE FALSE
    BY <2>0, <2>2 DEF PairFromQr, TokenOrSecret, TypeOK
  <2>3. ASSUME NEW p \in Phones, PairAnswered(p) PROVE FALSE
    <3>1. held' = [held EXCEPT ![p] = answer[p]] /\ scanned' = [scanned EXCEPT ![p] = None]
      BY <2>3 DEF PairAnswered, phones
    <3>2. q = p
      BY <2>0, <3>1 DEF TypeOK
    <3>3. scanned[p] # None
      <4>1. handler[p] # "idle"
        BY <2>3 DEF PairAnswered
      <4> QED
        BY <2>0, <4>1 DEF TokenOrSecret
    <3> QED
      BY <2>0, <3>1, <3>2, <3>3 DEF TypeOK
  <2>4. ASSUME NEW c \in Conns, ValidateRefuses(c)
        PROVE  held[q] \in removed \/ loadFailed
    <3>1. held[q] = conn[c].token /\ held[q] \notin records
      BY <2>4 DEF ValidateRefuses
    <3> QED
      BY <2>0, <3>1 DEF HandedOutIsOnFile, HandedOut
  <2>5. \/ UNCHANGED held
        \/ \E p \in Phones : PairFromQr(p) \/ PairAnswered(p)
        \/ \E c \in Conns : ValidateRefuses(c)
    BY DEF Next, vars, phones, RegeneratePairing, CreatePairing, ShowPairing,
    PairingExpires, WrongCode, PairRefused, PairAccepts, Answers, PairSaveFails,
    RenewPairing, Connect, Validate, Join, Disconnect, CloseMatch, Revoke, Remove,
    RevokeSaveFails, RevokeAgain, TakeMatches, RevokeEnds, SavePreference, Restart
  <2> QED
    BY <2>1, <2>2, <2>3, <2>4, <2>5
<1> QED
  BY <1>1, Invariance, PTL DEF Spec, ForgetsOnlyRevoked
=============================================================================
