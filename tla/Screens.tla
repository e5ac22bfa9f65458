------------------------------ MODULE Screens ------------------------------
(***************************************************************************)
(* The screens of the web client (priv/static/theme/app/backend.js), one   *)
(* record for each function of scuti_app, named as the function is.  What  *)
(* the methods of a screen do is in WebPage, once for the screens that     *)
(* share a method; a record says which methods a screen has and in what    *)
(* they differ:                                                            *)
(*                                                                         *)
(*  el       the element it is mounted on                                  *)
(*  kind     "form" (a form that posts), "edit" (a form that a list fills  *)
(*           with the details of a row), "list" (rows page by page, with   *)
(*           delete), "key" (the API key), "info" (loads once and shows)   *)
(*  reloads  the document is loaded again after a success                  *)
(*  locks    the submit button is disabled while isInProgress is TRUE      *)
(*  choices  the list loaded when mounted: "none", "many" (for a select    *)
(*           that takes several, empty at first), "one" (for a select that *)
(*           takes one, the first until told otherwise)                    *)
(***************************************************************************)

Screen(el, kind, reloads, locks, choices) ==
    [el |-> el, kind |-> kind, reloads |-> reloads, locks |-> locks,
     choices |-> choices]

\* Full pages with one form.
install_screen  == Screen("app_install", "form", TRUE, FALSE, "none")
login_screen    == Screen("app_login", "form", TRUE, FALSE, "none")
settings_screen == Screen("app_settings", "form", FALSE, FALSE, "none")
profile_screen  == Screen("app_profile", "form", FALSE, FALSE, "none")

\* "Show the Key" and "Rotate the Key".
profile_api_screen == Screen("app_api_key", "key", FALSE, FALSE, "none")

\* Modal dialogs.
add_user_modal   == Screen("add_user_modal", "form", TRUE, TRUE, "none")
add_team_modal   == Screen("add_team_modal", "form", TRUE, TRUE, "many")
add_group_modal  == Screen("add_group_modal", "form", TRUE, TRUE, "one")
add_host_modal01 == Screen("mentry", "form", TRUE, TRUE, "none")
add_host_modal02 == Screen("rjoin", "info", FALSE, FALSE, "one")
add_deployment_modal ==
    Screen("add_deployment_modal", "form", TRUE, TRUE, "one")

edit_user_modal  == Screen("edit_user_modal", "edit", TRUE, TRUE, "none")
edit_team_modal  == Screen("edit_team_modal", "edit", TRUE, TRUE, "many")
edit_group_modal == Screen("edit_group_modal", "edit", TRUE, TRUE, "one")

\* Lists.
users_list       == Screen("users_list", "list", TRUE, FALSE, "none")
teams_list       == Screen("teams_list", "list", TRUE, FALSE, "none")
groups_list      == Screen("groups_list", "list", TRUE, FALSE, "none")
hosts_list       == Screen("hosts_list", "list", TRUE, FALSE, "none")
deployments_list == Screen("deployments_list", "list", TRUE, FALSE, "none")

\* What the ready handler mounts on each page: the screens whose element
\* the page has.
ScreensOf == [
    install     |-> {install_screen},
    login       |-> {login_screen},
    settings    |-> {settings_screen},
    profile     |-> {profile_screen, profile_api_screen},
    users       |-> {users_list, add_user_modal, edit_user_modal},
    teams       |-> {teams_list, add_team_modal, edit_team_modal},
    groups      |-> {groups_list, add_group_modal, edit_group_modal},
    group       |-> {hosts_list, add_host_modal01, add_host_modal02},
    deployments |-> {deployments_list, add_deployment_modal}]

PageNames == DOMAIN ScreensOf

=============================================================================
