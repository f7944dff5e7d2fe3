---------------------------- MODULE BrokerToken -----------------------------
(***************************************************************************)
(* The scope token of CredentialBrokerClient (projectconfig/broker.py).    *)
(*                                                                         *)
(* The platform rotates the token: it publishes a new token secret in the  *)
(* configuration head, and the broker stops accepting older tokens at some *)
(* later time.  The reads of one process share a cached token and the      *)
(* reference it came from, guarded by an asyncio lock that is held across  *)
(* the storage reads of a renewal.  Tokens are numbered by rotation; a     *)
(* reference is named by the token it pins, and 0 is the empty token.      *)
(***************************************************************************)
EXTENDS Integers

CONSTANTS
    Reads,       \* concurrent calls of read
    Nobody,      \* holds the lock when no read does
    MaxToken,    \* bound on the tokens the platform publishes
    MaxReads     \* bound on the reads of one task

ASSUME TokenAssumption ==
    /\ Nobody \notin Reads
    /\ MaxToken \in Nat \ {0}
    /\ MaxReads \in Nat

Tokens == 1..MaxToken

VARIABLES
    head,        \* the token secret of the configuration head
    accepted,    \* the tokens the broker accepts
    token,       \* _token
    reference,   \* _token_reference
    tokenLock,   \* the holder of _token_lock
    read,        \* what each task is doing
    reads        \* how many reads each task began

tokenVars == <<head, accepted, token, reference, tokenLock, read, reads>>

\* begun is the published token when the read began; the code does not keep it.
NewRead == [pc |-> "idle", token |-> 0, begun |-> 0]

TokenInit ==
    /\ head = 1
    /\ accepted = {1}
    /\ token = 0
    /\ reference = 1
    /\ tokenLock = Nobody
    /\ read = [r \in Reads |-> NewRead]
    /\ reads = [r \in Reads |-> 0]
-----------------------------------------------------------------------------
(* The platform and the broker (external).                                 *)

PublishToken ==
    /\ head < MaxToken
    /\ head' = head + 1
    /\ accepted' = accepted \union {head + 1}
    /\ UNCHANGED <<token, reference, tokenLock, read, reads>>

RevokeToken ==
    /\ \E t \in accepted \ {head} : accepted' = accepted \ {t}
    /\ UNCHANGED <<head, token, reference, tokenLock, read, reads>>
-----------------------------------------------------------------------------
GoesTo(r, pc) == read' = [read EXCEPT ![r].pc = pc]

BeginRead(r) ==
    /\ read[r].pc \in {"idle", "refused"}
    /\ reads[r] < MaxReads
    /\ reads' = [reads EXCEPT ![r] = @ + 1]
    /\ read' = [read EXCEPT ![r] = [pc |-> "getToken", token |-> 0, begun |-> head]]
    /\ UNCHANGED <<head, accepted, token, reference, tokenLock>>

\* _get_token with a cached token.
GetCachedToken(r) ==
    /\ read[r].pc = "getToken"
    /\ tokenLock = Nobody
    /\ token # 0
    /\ read' = [read EXCEPT ![r].pc = "post", ![r].token = token]
    /\ UNCHANGED <<head, accepted, token, reference, tokenLock, reads>>

\* _get_token without one holds the lock while it reads the secret.
StartTokenRead(r) ==
    /\ read[r].pc = "getToken"
    /\ tokenLock = Nobody
    /\ token = 0
    /\ tokenLock' = r
    /\ GoesTo(r, "readToken")
    /\ UNCHANGED <<head, accepted, token, reference, reads>>

FinishTokenRead(r) ==
    /\ read[r].pc = "readToken"
    /\ token' = reference
    /\ tokenLock' = Nobody
    /\ read' = [read EXCEPT ![r].pc = "post", ![r].token = reference]
    /\ UNCHANGED <<head, accepted, reference, reads>>

\* _post: the broker looks at the token once. A 401 leads to one renewal, and after
\* that to a rejection.
PostAccepted(r) ==
    /\ read[r].pc \in {"post", "repost"}
    /\ read[r].token \in accepted
    /\ GoesTo(r, "idle")
    /\ UNCHANGED <<head, accepted, token, reference, tokenLock, reads>>

PostRefused(r) ==
    /\ read[r].pc \in {"post", "repost"}
    /\ read[r].token \notin accepted
    /\ GoesTo(r, IF read[r].pc = "post" THEN "renew" ELSE "refused")
    /\ UNCHANGED <<head, accepted, token, reference, tokenLock, reads>>

\* _renew_token finds that another read has renewed the token already.
UseNewerToken(r) ==
    /\ read[r].pc = "renew"
    /\ tokenLock = Nobody
    /\ token \notin {0, read[r].token}
    /\ read' = [read EXCEPT ![r].pc = "repost", ![r].token = token]
    /\ UNCHANGED <<head, accepted, token, reference, tokenLock, reads>>

StartRenewal(r) ==
    /\ read[r].pc = "renew"
    /\ tokenLock = Nobody
    /\ token \in {0, read[r].token}
    /\ token' = 0
    /\ tokenLock' = r
    /\ GoesTo(r, "readReference")
    /\ UNCHANGED <<head, accepted, reference, reads>>

\* Mutant: the renewal rereads the secret it already knows.
ReadReference_Known(r) ==
    /\ read[r].pc = "readReference"
    /\ GoesTo(r, "readRenewed")
    /\ UNCHANGED <<head, accepted, token, reference, tokenLock, reads>>

ReadReference(r) ==
    /\ read[r].pc = "readReference"
    /\ reference' = head
    /\ GoesTo(r, "readRenewed")
    /\ UNCHANGED <<head, accepted, token, tokenLock, reads>>

\* A token equal to the refused one is a rejection.
FinishRenewal(r) ==
    /\ read[r].pc = "readRenewed"
    /\ token' = reference
    /\ tokenLock' = Nobody
    /\ read' = [read EXCEPT ![r] = IF reference = @.token THEN [@ EXCEPT !.pc = "refused"]
                                   ELSE [@ EXCEPT !.pc = "repost", !.token = reference]]
    /\ UNCHANGED <<head, accepted, reference, reads>>

\* Mutant: a failed storage read leaves the lock held.
ReadFails_KeepLock(r) ==
    /\ read[r].pc \notin {"idle", "refused"}
    /\ GoesTo(r, "idle")
    /\ UNCHANGED <<head, accepted, token, reference, tokenLock, reads>>

\* A storage read or a request fails, or the task is cancelled: an error of its own.
ReadFails(r) ==
    /\ read[r].pc \notin {"idle", "refused"}
    /\ GoesTo(r, "idle")
    /\ tokenLock' = IF tokenLock = r THEN Nobody ELSE tokenLock
    /\ UNCHANGED <<head, accepted, token, reference, reads>>

TokenStep(r) ==
    \/ GetCachedToken(r)
    \/ StartTokenRead(r)
    \/ UseNewerToken(r)
    \/ StartRenewal(r)

RequestStep(r) ==
    \/ FinishTokenRead(r)
    \/ PostAccepted(r)
    \/ PostRefused(r)
    \/ ReadReference(r)
    \/ FinishRenewal(r)

TokenNext ==
    \/ \E r \in Reads : BeginRead(r) \/ TokenStep(r) \/ RequestStep(r) \/ ReadFails(r)
    \/ PublishToken
    \/ RevokeToken

TokenSpec == TokenInit /\ [][TokenNext]_tokenVars

\* The lock serves its waiters in order, and every await ends.
TokenFairSpec ==
    /\ TokenSpec
    /\ \A r \in Reads : SF_tokenVars(TokenStep(r)) /\ WF_tokenVars(RequestStep(r))
-----------------------------------------------------------------------------
\* Every variable keeps its type.
TokenTypeOK ==
    /\ head \in Tokens
    /\ accepted \subseteq Tokens
    /\ token \in Tokens \union {0}
    /\ reference \in Tokens
    /\ tokenLock \in Reads \union {Nobody}
    /\ read \in [Reads ->
          [pc : {"idle", "getToken", "readToken", "post", "renew", "readReference",
                 "readRenewed", "repost", "refused"},
           token : Tokens \union {0}, begun : Tokens \union {0}]]
    /\ reads \in [Reads -> 0..MaxReads]

\* "Renewing a rotated scope token once on 401" is enough: a read is rejected for its
\* token only if the platform published yet another token while that read ran, however
\* many reads share the cached token and renew it beside this one.
SurvivesRotation ==
    \A r \in Reads : read[r].pc = "refused" => read[r].begun < head

\* What makes that inductive: only the lock's holder is inside a renewal, the published
\* token is always accepted, and a renewed token is no older than the read it serves.
LockIsHeld ==
    \A r \in Reads : read[r].pc \in {"readToken", "readReference", "readRenewed"} <=> tokenLock = r

\* A read that was refused holds a token older than the published one; the cached token,
\* when it is another one, was renewed after this read began.
RenewalsAreRecent ==
    /\ head \in accepted
    /\ token \in {0, reference}
    /\ reference <= head
    /\ \A r \in Reads :
          /\ read[r].begun <= head
          /\ read[r].token <= head
          /\ tokenLock = r => token = 0
          /\ read[r].pc \in {"post", "renew", "readReference", "readRenewed"} =>
                read[r].token <= reference
          /\ read[r].pc \in {"renew", "readReference", "readRenewed"} => read[r].token < head
          /\ read[r].pc \in {"post", "renew"} /\ reference # read[r].token =>
                read[r].begun <= reference
          /\ read[r].pc = "readRenewed" => read[r].begun <= reference
          /\ read[r].pc = "repost" => read[r].begun <= read[r].token

TokenInv == TokenTypeOK /\ LockIsHeld /\ RenewalsAreRecent /\ SurvivesRotation

\* No read hangs: every way out of a renewal releases the lock.
ReadsFinish == \A r \in Reads : read[r].pc \notin {"idle", "refused"} ~> read[r].pc \in {"idle", "refused"}
=============================================================================
