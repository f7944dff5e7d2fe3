------------------------- MODULE ConnectorProfiles --------------------------
(***************************************************************************)
(* What each connector operation that writes behind a single-dispatch      *)
(* fence does with each class of response: the members of                  *)
(* FencedWrite!Profile, one per operation, read off the operation's invoke *)
(* and the classification and read-back functions it calls.                *)
(*                                                                         *)
(* ContractWrite is the plain case of docs/connector-contract.md; a        *)
(* profile states where its operation differs.  refusals are the answers   *)
(* the contract or the provider vouches for as not processed: a 408 is no  *)
(* such answer, whatever the operation makes of it.  A status that only a  *)
(* response body tells apart (Slack's "ratelimited", Drive's 403 for a     *)
(* quota) counts as the status it is treated like, and a 501 as a 4xx      *)
(* where Teams and Pipedrive reject it.                                    *)
(***************************************************************************)
EXTENDS FencedWrite

ContractRefusals == {"notSent", "429", "503", "401", "4xx"}

ContractWrite ==
    [accepts |-> {"ok"},
     resends |-> {"notSent", "429", "503"},
     rejects |-> {"401", "4xx"},
     unknowns |-> {"noID", "idOnly", "408", "409", "overload", "5xx", "lost"},
     retries |-> {},
     confirms |-> {},
     saves |-> {},
     lookups |-> {},
     looksFirst |-> {},
     recordsFound |-> {},
     refusals |-> ContractRefusals,
     recordsID |-> TRUE,
     keepsAcceptance |-> TRUE,
     resendFailure |-> "retry",
     failClosed |-> "uncertain",
     readsBack |-> {"ID"},
     unresolved |-> {"retry", "uncertain"},
     credentialsFirst |-> FALSE]

\* A 408 is taken for a refusal like any other 4xx.
RejectsTimeouts(p) == [p EXCEPT !.rejects = @ \union {"408"}, !.unknowns = @ \ {"408"}]

\* A refused credential is refreshed and the request sent again when the refresh
\* yields another credential; otherwise the refusal stands.
RefreshedWrite == [ContractWrite EXCEPT !.resends = @ \union {"401"}]
-----------------------------------------------------------------------------
twilio_sendMessage == ContractWrite

\* BambooHR answers 409 to an employee it did not add.
bamboohr_addEmployee ==
    [ContractWrite EXCEPT !.rejects = @ \union {"409"}, !.unknowns = @ \ {"409"},
                          !.refusals = @ \union {"409"}]

\* A 429 for the daily quota is final.
zoom_createMeeting == [RefreshedWrite EXCEPT !.rejects = @ \union {"429"}]

calendly_createSchedulingLink ==
    RejectsTimeouts([ContractWrite EXCEPT !.readsBack = {}, !.unresolved = {"uncertain"}])

hiver_fencedAttempt ==
    [ContractWrite EXCEPT !.resendFailure = "uncertain", !.readsBack = {},
                          !.unresolved = {"uncertain"}]

\* A 429 for the daily quota is final here too.
pipedrive_createObject == [RefreshedWrite EXCEPT !.rejects = @ \union {"429"}]

front_replyToConversation == RefreshedWrite

\* An unknown outcome is retried, because the next attempt searches for the message.
teams_send ==
    [RefreshedWrite EXCEPT !.unknowns = {"lost"},
                           !.retries = {"noID", "408", "409", "overload", "5xx", "lost"},
                           !.saves = {"idOnly"}, !.readsBack = {"ID", "key"}]

\* An unknown outcome is searched for by the key at once, a busy answer too before it
\* is believed, and the ID that is found is recorded. A search precedes the send.
docs_createDocument ==
    [RefreshedWrite EXCEPT !.unknowns = {},
                           !.lookups = {"noID", "idOnly", "408", "409", "overload", "5xx", "lost"},
                           !.looksFirst = {"none", "429", "503"},
                           !.recordsFound = {"429", "503", "noID", "idOnly", "408", "409",
                                             "overload", "5xx", "lost"},
                           !.failClosed = "readBack", !.readsBack = {"ID", "key"}]

\* A search precedes the send, and what it finds is not recorded.
drive_uploadFile ==
    RejectsTimeouts([RefreshedWrite EXCEPT
        !.unknowns = {"lost"}, !.lookups = {"noID", "idOnly", "409", "overload", "5xx", "lost"},
        !.looksFirst = {"none"}, !.readsBack = {"ID", "key"}])

\* Mutant: a failing record_provider_id is no longer caught.
jira_write_Uncaught ==
    [RefreshedWrite EXCEPT !.unknowns = {},
                           !.lookups = {"noID", "408", "409", "overload", "5xx", "lost"},
                           !.confirms = {"idOnly"}, !.readsBack = {"ID", "key"},
                           !.keepsAcceptance = FALSE]

jira_write ==
    [RefreshedWrite EXCEPT !.unknowns = {},
                           !.lookups = {"noID", "408", "409", "overload", "5xx", "lost"},
                           !.confirms = {"idOnly"}, !.readsBack = {"ID", "key"}]

reamaze_createConversation ==
    [ContractWrite EXCEPT !.unknowns = {"lost"},
                          !.retries = {"408", "409", "overload", "5xx", "lost"},
                          !.lookups = {"noID", "idOnly"}, !.readsBack = {"ID", "key"}]

reamaze_replyToConversation ==
    [reamaze_createConversation EXCEPT !.recordsID = FALSE, !.readsBack = {"key"}]
-----------------------------------------------------------------------------
(* These catch CheckpointError around record_provider_id, which the        *)
(* heartbeat's own exception is not: it ends the attempt, and Dex retries. *)

slack_postMessage ==
    RejectsTimeouts([RefreshedWrite EXCEPT !.unknowns = @ \ {"idOnly"}, !.confirms = {"idOnly"},
                                           !.keepsAcceptance = FALSE])

\* Mutant: a gateway time-out is repeated although the provider does not vouch for it.
helpscout_replyToConversation_Undocumented ==
    [ContractWrite EXCEPT !.resends = @ \union {"overload"}, !.unknowns = @ \ {"overload"},
                          !.keepsAcceptance = FALSE]

\* Help Scout documents its 504 as safe to repeat.
helpscout_replyToConversation ==
    [ContractWrite EXCEPT !.resends = @ \union {"overload"}, !.unknowns = @ \ {"overload"},
                          !.refusals = @ \union {"overload"}, !.keepsAcceptance = FALSE]

\* Notion documents 409 and 529 as not processed; its 503 may name a committed page
\* (idOnly). The time-out of dispatch is not caught.
notion_createPage ==
    [ContractWrite EXCEPT !.resends = {"notSent", "429", "409", "overload"},
                          !.rejects = @ \union {"429"},
                          !.unknowns = {"noID", "408", "503", "5xx", "lost"}, !.retries = {"lost"},
                          !.confirms = {"idOnly"}, !.keepsAcceptance = FALSE,
                          !.refusals = (@ \ {"503"}) \union {"409", "overload"}]
-----------------------------------------------------------------------------
\* Credentials come before decide, and no provider ID is recorded. The time-out of
\* dispatch is not caught.
trello_singleDispatch ==
    [ContractWrite EXCEPT !.retries = {"lost"}, !.recordsID = FALSE, !.readsBack = {},
                          !.unresolved = {"uncertain"}, !.credentialsFirst = TRUE]

\* A checkpoint that cannot be trusted is a defect; a search that finds nothing is
\* tried again; any 2xx counts as sent. (The search that only a retry makes after a
\* rejection is left out.)
gmail_send ==
    [ContractWrite EXCEPT !.accepts = {"ok", "noID", "idOnly"},
                          !.rejects = @ \union {"408", "409"},
                          !.unknowns = {}, !.lookups = {"overload", "5xx", "lost"},
                          !.looksFirst = {"none", "503"},
                          !.recordsFound = {"503", "overload", "5xx", "lost"},
                          !.keepsAcceptance = FALSE, !.failClosed = "defect",
                          !.readsBack = {"key"}, !.unresolved = {"retry"}]
-----------------------------------------------------------------------------
\* The operations that keep an acceptance whose checkpoint fails.
AcceptanceKeepers ==
    {twilio_sendMessage, bamboohr_addEmployee, zoom_createMeeting, calendly_createSchedulingLink,
     hiver_fencedAttempt, pipedrive_createObject, front_replyToConversation, teams_send,
     docs_createDocument, drive_uploadFile, jira_write, reamaze_createConversation,
     reamaze_replyToConversation}

DecideFirstWrites ==
    AcceptanceKeepers \union {slack_postMessage, helpscout_replyToConversation, notion_createPage}
-----------------------------------------------------------------------------
\* The operations that guard the checkpoint after an acceptance return that acceptance,
\* whether or not the checkpoint can be written.
GuardedAcceptance == profile \in AcceptanceKeepers => AcceptanceIsReported
=============================================================================
