---------------------------- MODULE MCMarkedWrite -----------------------------
(* TLC instances of MarkedWrite: the operations of MarkedProfiles.          *)
EXTENDS MarkedWrite, MarkedProfiles

MCMailchimp == {mailchimp_sendCampaign}

\* Operations whose documentation promises that the Step never sends twice.
MCNeverTwice ==
    {zoho_createTicket, mailchimp_sendCampaign, intercom_replyToConversation,
     confluence_addComment}
=============================================================================
