------------------------- MODULE MCTelegramListener -------------------------
(***************************************************************************)
(* The instance of TelegramListener for TLC: an update without a text, the *)
(* two longest handlers, and a command from a chat that is not allowed.    *)
(***************************************************************************)
EXTENDS TelegramListener

MCMessages ==
    {[chat |-> "admin", text |-> "photo"], [chat |-> "admin", text |-> "add"],
     [chat |-> "admin", text |-> "toggle"],
     [chat |-> "stranger", text |-> "delete"]}
=============================================================================
