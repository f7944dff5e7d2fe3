--------------------------- MODULE MCFencedWrite ----------------------------
(* FencedWrite for TLC, with the connectors' profiles.                     *)
EXTENDS ConnectorProfiles

MCAllProfiles == DecideFirstWrites \union {trello_singleDispatch, gmail_send}
MCSlack == {slack_postMessage}
MCTrello == {trello_singleDispatch}
MCGmail == {gmail_send}
MCTimeout == {slack_postMessage, drive_uploadFile, calendly_createSchedulingLink}
=============================================================================
