------------------------------- MODULE Access -------------------------------
(***************************************************************************)
(* What a page asks of the server, and whom the server answers.  The page  *)
(* goes by the profile that came with signing in (AuthProvider: nothing    *)
(* calls refreshProfile), the server by the account as it is when the      *)
(* request comes (jwt.strategy.ts), and an administrator may change the    *)
(* account in between.  One page is watched, whichever it is; only the     *)
(* keys that matter to it are granted.                                     *)
(***************************************************************************)
EXTENDS Pages, Endpoints

VARIABLES page,       \* the page
          granted,    \* the account: administrator or not, and the keys held
          believed,   \* the profile the front end holds of it
          signedIn,
          refused     \* what the server has just refused

accessVars == <<page, granted, believed, signedIn, refused>>

\* The requests a page may ever make, and the keys that decide about them.
Requests(p) ==
    DOMAIN Layout \union DOMAIN Pages[p].asks
    \union UNION {DOMAIN Forms[f].asks \union Forms[f].sends : f \in FormsOn(p)}

KeysOf(p) ==
    Pages[p].route.keys \union UNION {Endpoints[h].keys : h \in Requests(p)}
    \union UNION {Forms[f].when.keys : f \in FormsOn(p)}
    \union UNION {Pages[p].asks[h].keys : h \in DOMAIN Pages[p].asks}

\* UsersService.update keeps the keys it knows.
Accounts(p) == [admin : BOOLEAN, keys : SUBSET (KeysOf(p) \intersect PermissionKeys)]

AccessInit ==
    /\ page \in DOMAIN Pages
    /\ granted \in Accounts(page)
    /\ believed = granted
    /\ signedIn = FALSE
    /\ refused = {}

Turned(hooks) == {h \in hooks : ~Admits(Endpoints[h], granted)}

\* login: the profile comes with the tokens.
SignIn ==
    /\ ~signedIn
    /\ signedIn' = TRUE
    /\ believed' = granted
    /\ UNCHANGED <<page, granted, refused>>

\* doLogout, or a session that ended; ProtectedRoute then leads to the sign-in page.
SignOut ==
    /\ signedIn
    /\ signedIn' = FALSE
    /\ refused' = {}
    /\ UNCHANGED <<page, granted, believed>>

\* An administrator changes the role or the keys of the account.
Regrant ==
    /\ \E a \in Accounts(page) \ {granted} : granted' = a
    /\ refused' = {}
    /\ UNCHANGED <<page, believed, signedIn>>

\* The page comes to the screen, or is asked for by its address.
OpenPage ==
    /\ signedIn
    /\ refused' = Turned(AsksOf(page, believed))
    /\ UNCHANGED <<page, granted, believed, signedIn>>

\* A form is sent.
Send ==
    /\ signedIn
    /\ \E h \in SendsOf(page, believed) : refused' = Turned({h})
    /\ UNCHANGED <<page, granted, believed, signedIn>>

AccessNext == SignIn \/ SignOut \/ Regrant \/ OpenPage \/ Send

-----------------------------------------------------------------------------
\* What the front end does ask in vain.  The dialog for a loan lists the users, though
\* only administrators are offered it; the Inventory page asks everyone's stock levels
\* of the reports; Reports asks for the debts to suppliers; and the picture of a new
\* product goes to an endpoint for administrators, where that of an old one does not.
InVain(p) ==
    CASE p = "LoansPage"       -> {"useUsers"}
      [] p = "InventoryPage"   -> {"useStockLevels"}
      [] p = "ReportsPage"     -> {"useSupplierSummary"}
      [] p = "ProductFormPage" -> {"useUploadImage"}
      [] OTHER                 -> {}

\* What the pages ask for and offer is what the server admits: someone signed in is
\* refused only after their account was changed since they signed in, or in the four
\* places named above, whoever they are and whichever keys they hold.
NothingAskedInVain == refused # {} => believed # granted \/ refused \subseteq InVain(page)
=============================================================================
