---------------------------- MODULE OAuthServer ----------------------------
(***************************************************************************)
(* 1MCP as the authorization server of its own clients.  Source:           *)
(* auth/sdkOAuthServerProvider.ts, auth/storage/oauthStorageService.ts with*)
(* its repositories, fileStorageService.ts, and the consent handler of     *)
(* transport/http/routes/oauthRoutes.ts.                                   *)
(*                                                                         *)
(* Registrations, authorization requests, codes and token sessions are     *)
(* files.  A handler works on them synchronously, so that the steps of two *)
(* handlers do not mix inside one, except that the token endpoint of the   *)
(* library asks for the challenge of a code, awaits the comparison with the*)
(* verifier, and then exchanges the code.  A process may be killed between *)
(* any two file operations; a single write is all or nothing, since a file *)
(* is written aside and renamed (fileStorageService.ts 258-293).           *)
(***************************************************************************)
EXTENDS FiniteSets, Naturals

CONSTANTS Apps,      \* clients that register with 1MCP
          Requests,  \* ids of authorization requests
          Codes,     \* authorization codes
          Tokens,    \* access tokens
          Handlers,  \* requests the token endpoint works on at one time
          NoCode     \* not a code

(* The files of the four kinds have prefixes of their own.                 *)
ASSUME IssuerConstants ==
    /\ Apps \cap (Requests \cup Codes \cup Tokens) = {}
    /\ Requests \cap (Codes \cup Tokens) = {}
    /\ Codes \cap Tokens = {}
    /\ NoCode \notin Codes

VARIABLES files,      \* ids whose file exists
          stale,      \* those whose expires field has passed
          owner,      \* request -> the app it was made for
          origin,     \* code -> the request it was made for, as its file says
          grantOf,    \* token -> the code it was exchanged for
          known,      \* codes an app has been redirected with
          denied,     \* requests whose denial was answered
          exchanging  \* handler -> the code whose challenge it has, or NoCode

issuerVars == <<files, stale, owner, origin, grantOf, known, denied, exchanging>>

(* Ids are random: one that was given out is never given out again.        *)
FreshRequest(q) == q \notin DOMAIN owner
FreshCode(k) == k \notin DOMAIN origin
FreshToken(t) == t \notin DOMAIN grantOf

With(f, k, v) == [x \in DOMAIN f \cup {k} |-> IF x = k THEN v ELSE f[x]]

(* readData: an expired file is deleted by the read and is not an answer.  *)
Readable(id) == id \in files \ stale
Dropped(ids) == files \ (ids \cap stale)

-----------------------------------------------------------------------------

IssuerInit ==
    /\ files = {}
    /\ stale = {}
    /\ owner = <<>>
    /\ origin = <<>>
    /\ grantOf = <<>>
    /\ known = {}
    /\ denied = {}
    /\ exchanging = [h \in Handlers |-> NoCode]

(* registerClient, also once more for an app that is registered already.   *)
Register(a) ==
    /\ files' = files \cup {a}
    /\ stale' = stale \ {a}
    /\ UNCHANGED <<owner, origin, grantOf, known, denied, exchanging>>

(* authorize: every app needs the user's consent, and the page carries the *)
(* id of a request that is stored meanwhile.                               *)
Authorize(a, q) ==
    /\ FreshRequest(q)
    /\ Readable(a)
    /\ files' = files \cup {q}
    /\ owner' = With(owner, q, a)
    /\ UNCHANGED <<stale, origin, grantOf, known, denied, exchanging>>

(* What consentHandler asks for before it looks at the user's answer.      *)
Consentable(q) ==
    /\ q \in DOMAIN owner
    /\ Readable(q)
    /\ Readable(owner[q])

(* The form is sent for a request that is gone or expired, or for an app   *)
(* that is: an error page.  What is expired is deleted by being read.      *)
Unanswerable(q) ==
    /\ q \in DOMAIN owner
    /\ ~Consentable(q)
    /\ files' = Dropped(IF Readable(q) THEN {owner[q]} ELSE {q})
    /\ stale' = stale \cap files'
    /\ UNCHANGED <<owner, origin, grantOf, known, denied, exchanging>>

(* processConsentApproval: the code is written first, then the request is  *)
(* deleted, then the app is redirected with the code.                      *)
WriteCode(q, k) ==
    /\ Consentable(q)
    /\ FreshCode(k)
    /\ origin' = With(origin, k, q)

(* Mutant of Approve: the request stays open after the approval.           *)
ApproveKept(q, k) ==
    /\ WriteCode(q, k)
    /\ files' = files \cup {k}
    /\ known' = known \cup {k}
    /\ UNCHANGED <<stale, owner, grantOf, denied, exchanging>>

Approve(q, k) ==
    /\ WriteCode(q, k)
    /\ files' = (files \cup {k}) \ {q}
    /\ known' = known \cup {k}
    /\ UNCHANGED <<stale, owner, grantOf, denied, exchanging>>

(* processConsentDenial.                                                   *)
Deny(q) ==
    /\ Consentable(q)
    /\ files' = files \ {q}
    /\ denied' = denied \cup {q}
    /\ UNCHANGED <<stale, owner, origin, grantOf, known, exchanging>>

(* The token endpoint has authenticated the app and has the challenge of   *)
(* the code: challengeForAuthorizationCode.                                *)
Challenge(h, k) ==
    /\ exchanging[h] = NoCode
    /\ k \in known
    /\ Readable(owner[origin[k]])
    /\ Readable(k)
    /\ exchanging' = [exchanging EXCEPT ![h] = k]
    /\ UNCHANGED <<files, stale, owner, origin, grantOf, known, denied>>

(* exchangeAuthorizationCode, after the verifier was found to fit: the code*)
(* is read again and deleted, then the session of the token is written.    *)
DeleteCode(h) ==
    /\ exchanging[h] # NoCode
    /\ Readable(exchanging[h])

(* Mutant of Exchange: that the code is still there is not asked again.    *)
ExchangeUnchecked(h, t) ==
    /\ exchanging[h] # NoCode
    /\ FreshToken(t)
    /\ files' = (files \ {exchanging[h]}) \cup {t}
    /\ grantOf' = With(grantOf, t, exchanging[h])
    /\ exchanging' = [exchanging EXCEPT ![h] = NoCode]
    /\ UNCHANGED <<stale, owner, origin, known, denied>>

Exchange(h, t) ==
    /\ DeleteCode(h)
    /\ FreshToken(t)
    /\ files' = (files \ {exchanging[h]}) \cup {t}
    /\ grantOf' = With(grantOf, t, exchanging[h])
    /\ exchanging' = [exchanging EXCEPT ![h] = NoCode]
    /\ UNCHANGED <<stale, owner, origin, known, denied>>

(* The verifier does not fit, or the code is gone or expired by now.       *)
RefuseExchange(h) ==
    /\ exchanging[h] # NoCode
    /\ files' = Dropped({exchanging[h]})
    /\ stale' = stale \cap files'
    /\ exchanging' = [exchanging EXCEPT ![h] = NoCode]
    /\ UNCHANGED <<owner, origin, grantOf, known, denied>>

(* revokeToken, and verifyAccessToken where it finds the token expired.    *)
DropToken(t) ==
    /\ t \in DOMAIN grantOf \cap files
    /\ files' = files \ {t}
    /\ stale' = stale \ {t}
    /\ UNCHANGED <<owner, origin, grantOf, known, denied, exchanging>>

-----------------------------------------------------------------------------
(* Time, the periodic cleanup and the end of a process.                    *)

Expire(id) ==
    /\ id \in files \ stale
    /\ stale' = stale \cup {id}
    /\ UNCHANGED <<files, owner, origin, grantOf, known, denied, exchanging>>

(* cleanupExpiredData *)
CleanUp ==
    /\ stale # {}
    /\ files' = files \ stale
    /\ stale' = {}
    /\ UNCHANGED <<owner, origin, grantOf, known, denied, exchanging>>

(* A kill loses the handlers.  The files are as the last file operation    *)
(* left them: between the two of an approval, or between the two of an     *)
(* exchange, whose token nobody gets.                                      *)
Kill ==
    /\ exchanging' = [h \in Handlers |-> NoCode]
    /\ UNCHANGED <<stale, owner, grantOf, known, denied>>
    /\ \/ UNCHANGED <<files, origin>>
       \/ \E q \in Requests, k \in Codes :
            WriteCode(q, k) /\ files' = files \cup {k}
       \/ \E h \in Handlers :
            DeleteCode(h) /\ files' = files \ {exchanging[h]} /\ UNCHANGED origin

IssuerNext ==
    \/ \E a \in Apps : Register(a) \/ \E q \in Requests : Authorize(a, q)
    \/ \E q \in Requests :
          Unanswerable(q) \/ Deny(q) \/ \E k \in Codes : Approve(q, k)
    \/ \E h \in Handlers :
          \/ \E k \in Codes : Challenge(h, k)
          \/ \E t \in Tokens : Exchange(h, t)
          \/ RefuseExchange(h)
    \/ \E t \in Tokens : DropToken(t)
    \/ \E id \in Apps \cup Requests \cup Codes \cup Tokens : Expire(id)
    \/ CleanUp
    \/ Kill

IssuerSpec == IssuerInit /\ [][IssuerNext]_issuerVars

-----------------------------------------------------------------------------

TokensOf(q) == {t \in DOMAIN grantOf : origin[grantOf[t]] = q}

(* One approval of the user is worth at most one token, however often its  *)
(* code is sent to the token endpoint, whether requests for it overlap, and*)
(* wherever the process was killed.                                        *)
OneTokenPerConsent ==
    \A q \in Requests : Cardinality(TokensOf(q)) <= 1

(* What the user has denied no app gets a token for, now or later: not when*)
(* the form was sent twice with two answers, and not when the process died *)
(* after it had written a code and the user answered again.                *)
DeniedGetsNothing ==
    \A q \in denied : TokensOf(q) = {}

(* Tokens are what the user consented to, and no more.                     *)
ConsentIsKept == OneTokenPerConsent /\ DeniedGetsNothing
=============================================================================
