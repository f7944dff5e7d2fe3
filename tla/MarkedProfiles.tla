--------------------------- MODULE MarkedProfiles ----------------------------
(***************************************************************************)
(* The connector operations that keep a heartbeat checkpoint of their own: *)
(* the members of MarkedWrite!Profile, one per operation, read off the     *)
(* operation's invoke and the classification functions it calls.           *)
(*                                                                         *)
(* Unless stated otherwise a 4xx is a rejection and a 408 counts as 5xx.   *)
(* A branch that reports a 2xx without a usable body (invalidResponse)     *)
(* counts as accepted where the operation's documentation says that the    *)
(* write exists.                                                           *)
(***************************************************************************)

MarkedRefusals == {"notBuilt", "notSent", "429", "503", "4xx"}

\* Marker before credentials; unknown outcomes are uncertain; a later attempt
\* neither sends nor searches.
zoho_createTicket ==
    [accepts |-> {"ok"},
     clears |-> {"notSent", "429", "503"},
     rejects |-> {"notBuilt", "4xx"},
     unknowns |-> {"noID", "5xx", "lost"},
     keeps |-> {},
     confirms |-> {},
     refusals |-> MarkedRefusals,
     isNumbered |-> FALSE,
     claimsFirst |-> FALSE,
     credentialsFirst |-> FALSE,
     sessionFailures |-> {},
     readsBack |-> FALSE,
     looksFirst |-> "no",
     findsOthers |-> FALSE,
     unresolved |-> {}]

\* Permits name the attempt that may send; without one a later attempt is uncertain.
freshdesk_createTicket == [zoho_createTicket EXCEPT !.isNumbered = TRUE]

\* The claim comes before the credentials. A 409 counts as 5xx; an answer with an
\* unusable reference is read back at once.
jsm_createTicket ==
    [zoho_createTicket EXCEPT !.isNumbered = TRUE, !.claimsFirst = TRUE,
                              !.unknowns = {"noID", "5xx", "lost"}, !.confirms = {"noID", "5xx"},
                              !.unresolved = {"uncertain"}]

\* Only 429 and an unsent request are repeated; everything unknown is kept for a later
\* attempt, which searches by the idempotency key, at most until the fourth. A later
\* attempt that found no claim searches as well before it claims.
gorgias_createTicket ==
    [zoho_createTicket EXCEPT !.clears = {"notSent", "429"}, !.unknowns = {},
                              !.keeps = {"noID", "503", "5xx", "lost"},
                              !.refusals = @ \ {"503"},
                              !.readsBack = TRUE, !.looksFirst = "any",
                              !.unresolved = {"retry", "uncertain"}]

\* Everything unknown is searched for at once; a later attempt whose credentials
\* fail is uncertain, and so is one that finds several envelopes before it claims.
docusign_createEnvelope ==
    [gorgias_createTicket EXCEPT !.keeps = {}, !.confirms = {"noID", "503", "5xx", "lost"},
                                 !.looksFirst = "one"]
-----------------------------------------------------------------------------
(* These resolve credentials before they look at the checkpoint.           *)

\* Mutant: the claim is taken back after a gateway error as well.
mailchimp_sendCampaign_ClearsServerErrors ==
    [zoho_createTicket EXCEPT !.clears = {"notSent", "429", "5xx"},
                              !.unknowns = {"noID", "503", "lost"},
                              !.refusals = @ \ {"503"},
                              !.credentialsFirst = TRUE, !.sessionFailures = {"defect"},
                              !.readsBack = TRUE, !.looksFirst = "any", !.findsOthers = TRUE,
                              !.unresolved = {"uncertain"}]

\* A campaign that is being sent or was sent is reported so, whoever sent it.
mailchimp_sendCampaign ==
    [zoho_createTicket EXCEPT !.clears = {"notSent", "429"},
                              !.unknowns = {"noID", "503", "5xx", "lost"},
                              !.refusals = @ \ {"503"},
                              !.credentialsFirst = TRUE, !.sessionFailures = {"defect"},
                              !.readsBack = TRUE, !.looksFirst = "any", !.findsOthers = TRUE,
                              !.unresolved = {"uncertain"}]

\* A 2xx that cannot be decoded is invalidResponse: the reply exists. A later attempt
\* compares the body of the conversation's recent parts.
intercom_replyToConversation ==
    [gorgias_createTicket EXCEPT !.accepts = {"ok", "noID"}, !.keeps = {"503", "5xx", "lost"},
                                 !.credentialsFirst = TRUE, !.sessionFailures = {"defect"},
                                 !.looksFirst = "no", !.findsOthers = TRUE,
                                 !.unresolved = {"retry", "uncertain", "notFound"}]

\* The search goes by the task's name and its time of creation.
clickup_createTask ==
    [gorgias_createTicket EXCEPT !.credentialsFirst = TRUE, !.sessionFailures = {"defect"},
                                 !.looksFirst = "no", !.findsOthers = TRUE,
                                 !.unresolved = {"retry", "uncertain", "notFound"}]

confluence_addComment ==
    [clickup_createTask EXCEPT !.sessionFailures = {"retry", "defect"}]

\* The table's columns and keys are read before the checkpoint too: keys that are
\* present count as this Step's rows. Any 2xx is an append, a 501 or 503 proves that
\* there was none, a 409 may be repeated, and a transport failure proves nothing.
excel_appendTableRows ==
    [zoho_createTicket EXCEPT !.accepts = {"ok", "noID"}, !.clears = {"429", "503", "4xx"},
                              !.unknowns = {}, !.keeps = {"notSent", "5xx", "lost"},
                              !.refusals = @ \ {"notSent"}, !.credentialsFirst = TRUE,
                              !.sessionFailures = {"retry", "defect", "rejected", "notFound"},
                              !.readsBack = TRUE, !.looksFirst = "any", !.findsOthers = TRUE,
                              !.unresolved = {"uncertain"}]

\* SMTP: the answer after the final dot is lost, or it accepts, defers or rejects.
email_sendMessage ==
    [zoho_createTicket EXCEPT !.credentialsFirst = TRUE, !.sessionFailures = {"defect"}]
-----------------------------------------------------------------------------
MarkedWrites ==
    {zoho_createTicket, freshdesk_createTicket, jsm_createTicket, gorgias_createTicket,
     docusign_createEnvelope, mailchimp_sendCampaign, intercom_replyToConversation,
     clickup_createTask, confluence_addComment, excel_appendTableRows, email_sendMessage}

NumberedWrites == {freshdesk_createTicket, jsm_createTicket}
=============================================================================
