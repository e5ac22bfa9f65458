----------------------------- MODULE MCWebPage -----------------------------
(***************************************************************************)
(* Small instances of WebPage for TLC.                                     *)
(***************************************************************************)
EXTENDS WebPage, TLC

\* A form alone, with and without a reload, the API key, and a list with a
\* form for new rows.
AllButDialogs == {"install", "settings", "profile", "deployments"}
NewAndOld == {"list", "form", "key"}

\* Lists with a dialog that edits a row; its select takes one or several.
Dialogs   == {"groups", "teams"}
ListEdits == {"list", "edit"}

=============================================================================
