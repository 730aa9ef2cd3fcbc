---------------------------- MODULE MCSyncFacade ----------------------------
(***************************************************************************)
(* Responses of four kinds of trouble: two data lines in one block and a   *)
(* comment, an object cut off, text behind the end marker, and an end      *)
(* without a blank line behind an empty block.                             *)
(***************************************************************************)
EXTENDS SyncFacade

MCTexts == {
  <<":", "nl", "data:", "a", "nl", "data:", "b", "nl", "nl", "data:", "c">>,
  <<"data:", "a", "nl", "nl", "data:">>,
  <<"data:", "a", "nl", "nl", "data:", "[DONE]", "nl", "nl", "data:", "b">>,
  <<"data:", "a", "nl", "nl", "nl", "nl", "data:", "b", "nl">> }
=============================================================================
