-------------------------------- MODULE Access --------------------------------
(***************************************************************************)
(* Logging in: the credentials in use and those kept in cookies, the level  *)
(* of access that the server grants, who is told of it, and the section     *)
(* that is shown meanwhile (auth.js, api/auth.js, api/base.js, login/,      *)
(* sections.js, index.js; web/base.py and core/api/auth.py of the server).  *)
(*                                                                         *)
(* Sections other than the login are shown when the cache is ready, which   *)
(* Client models.                                                          *)
(***************************************************************************)
EXTENDS Integers, Sequences, FiniteSets

CONSTANTS
    None,
    Password,       \* passwords that are not empty
    Empty,          \* the empty one
    Path,           \* sections that can be asked for
    Home,           \* the one shown unless another is asked for
    Login,          \* the login section
    MaxTries,       \* bound on the logins
    MaxFails,       \* bound on the requests that fail
    MaxChanges,     \* bound on the passwords that are changed
    MaxReloads,     \* bound on the times that the page is loaded again
    MaxVisits       \* bound on the sections asked for

User == {"admin", "normal"}
NoLevel == 0
LevelOf == [admin |-> 30, normal |-> 20]

VARIABLES
    \* the server, and the browser's cookies and clock
    passwords, cookie,
    skewed,         \* the browser's clock is off by more than is allowed
    \* the page
    creds,          \* currentUsername and currentPasswordHash
    known,          \* serverTimestamp is known
    level,          \* currentAccessLevel
    initial,        \* whenInitialAccessLevelReady: None, or the level
    final,          \* whenFinalAccessLevelReady
    request,        \* the GET /access under way
    patch,          \* the change of the own password under way
    queue,          \* calls of the listeners that are due
    loaded,         \* the level that the cache was loaded for
    buttons,        \* the sections of administrators can be chosen
    ready,          \* whenCacheReady
    form,           \* "shown", "checking" or "closed"
    remember,
    target, shown,  \* the section navigated to, and the one on the screen
    nextPath,       \* _nextPath
    wentOn,         \* the login section has navigated to it
    \* bounds and history
    tries, fails, changes, reloads, visits,
    accepted,       \* history: credentials that the server has granted some level, or been given
    wanted,         \* history: the section asked for last, other than the login before it
    crossed         \* history: one was asked for between the final level and the cache

page == <<creds, known, level, initial, final, request, patch, queue, loaded, buttons, ready, form,
          remember, target, shown, nextPath, wentOn, wanted, crossed>>
avars == <<page, passwords, cookie, skewed, tries, fails, changes, reloads, visits, accepted>>

-----------------------------------------------------------------------------
(* Requests *)

\* makeRequestJWT(): the time is left out when it is known to differ from the server's.
Timed == ~(known /\ skewed)

\* apiCall(): the credentials of now, and the time of the server once it has answered
Request(by, c) == [by |-> by, creds |-> c, timed |-> Timed, stage |-> "asked", level |-> NoLevel]

\* The server's prepare(): without credentials one is the administrator if the password is empty.
Granted(r) ==
    IF r.creds = None THEN IF passwords["admin"] = Empty THEN LevelOf["admin"] ELSE NoLevel
    ELSE IF passwords[r.creds.user] = r.creds.password /\ ~(r.timed /\ skewed)
    THEN LevelOf[r.creds.user] ELSE NoLevel

Serve ==
    /\ request # None /\ request.stage = "asked"
    /\ request' = [request EXCEPT !.stage = "served", !.level = Granted(request)]
    /\ accepted' = IF Granted(request) > NoLevel THEN accepted \cup {request.creds} ELSE accepted
    /\ UNCHANGED <<passwords, cookie, skewed, creds, known, level, initial, final, patch, queue,
                   loaded, buttons, ready, form, remember, target, shown, nextPath, wentOn, wanted,
                   crossed, tries, fails, changes, reloads, visits>>

\* validate(): the form stays open unless some level is granted.
Validated(granted) ==
    form' = IF request.by # "form" THEN form ELSE IF granted > NoLevel THEN "closed" ELSE "shown"

\* applyData(), storeCredentials()
Stored(granted) ==
    cookie' = IF request.by = "form" /\ granted > NoLevel /\ remember THEN creds ELSE cookie

\* getAccess(): the listeners are called later on, with the levels of now.  The form then is applied.
Answered ==
    /\ request # None /\ request.stage = "served"
    /\ request' = None /\ known' = TRUE
    /\ level' = request.level
    /\ queue' = IF request.level = level THEN queue
                ELSE queue \o <<<<"auth", level, request.level>>, <<"main", level, request.level>>>>
    /\ Validated(request.level) /\ Stored(request.level)
    /\ UNCHANGED <<passwords, skewed, creds, initial, final, patch, loaded, buttons, ready,
                   remember, target, shown, nextPath, wentOn, wanted, crossed, tries, fails,
                   changes, reloads, visits, accepted>>

-----------------------------------------------------------------------------
(* Listeners *)

\* handleAccessLevelChange() of auth.js.
LevelChange(old, new) ==
    /\ initial' = IF old = None /\ initial = None THEN new ELSE initial
    /\ final' = IF old \in {None, NoLevel} /\ new > NoLevel /\ final = None THEN new ELSE final

\* Mutant: the cache is loaded but once.
LoadOnce(new) ==
    /\ loaded' = IF new > NoLevel /\ loaded = None THEN new ELSE loaded
    /\ buttons' = (new >= LevelOf["admin"])

\* handleAccessLevelChange() of index.js: the cache is loaded.
LoadAtLevel(new) ==
    /\ loaded' = IF new > NoLevel THEN new ELSE loaded
    /\ buttons' = (new >= LevelOf["admin"])

Notify ==
    /\ queue # <<>> /\ queue' = Tail(queue)
    /\ LET old == Head(queue)[2] new == Head(queue)[3]
       IN IF Head(queue)[1] = "auth"
          THEN LevelChange(old, new) /\ UNCHANGED <<loaded, buttons>>
          ELSE LoadAtLevel(new) /\ UNCHANGED <<initial, final>>
    /\ UNCHANGED <<passwords, cookie, skewed, creds, known, level, request, patch, ready, form,
                   remember, target, shown, nextPath, wentOn, wanted, crossed, tries, fails,
                   changes, reloads, visits, accepted>>

CacheReady ==
    /\ loaded # None /\ ~ready
    /\ ready' = TRUE
    /\ UNCHANGED <<passwords, cookie, skewed, creds, known, level, initial, final, request, patch,
                   queue, loaded, buttons, form, remember, target, shown, nextPath, wentOn, wanted,
                   crossed, tries, fails, changes, reloads, visits, accepted>>

\* Mutant: the initial level stays unknown.
RequestFailsUnknown ==
    /\ request # None /\ fails < MaxFails
    /\ request' = None /\ fails' = fails + 1
    /\ form' = IF request.by = "form" THEN "shown" ELSE form
    /\ UNCHANGED <<passwords, cookie, skewed, creds, known, level, initial, final, patch, queue,
                   loaded, buttons, ready, remember, target, shown, nextPath, wentOn, wanted,
                   crossed, tries, changes, reloads, visits, accepted>>

\* fetchInitialAccess(), LoginForm.validate()
RequestFails ==
    /\ request # None /\ fails < MaxFails
    /\ request' = None /\ fails' = fails + 1
    /\ IF request.by = "form" THEN form' = "shown" /\ UNCHANGED <<initial, final>>
                              ELSE LevelChange(None, NoLevel) /\ UNCHANGED form
    /\ UNCHANGED <<passwords, cookie, skewed, creds, known, level, patch, queue, loaded, buttons,
                   ready, remember, target, shown, nextPath, wentOn, wanted, crossed, tries,
                   changes, reloads, visits, accepted>>

-----------------------------------------------------------------------------
(* The login form *)

\* Mutant: the credentials are stored before they are checked.
TryLoginStored(u, p, rem) ==
    /\ shown = Login /\ form = "shown" /\ tries < MaxTries /\ request = None
    /\ creds' = [user |-> u, password |-> p]
    /\ cookie' = IF rem THEN creds' ELSE cookie
    /\ request' = Request("form", creds')
    /\ form' = "checking" /\ remember' = rem /\ tries' = tries + 1
    /\ UNCHANGED <<passwords, skewed, known, level, initial, final, patch, queue, loaded,
                   buttons, ready, target, shown, nextPath, wentOn, wanted, crossed, fails,
                   changes, reloads, visits, accepted>>

\* validate(), login(): the credentials are in use from now on.
TryLogin(u, p, rem) ==
    /\ shown = Login /\ form = "shown" /\ tries < MaxTries /\ request = None
    /\ creds' = [user |-> u, password |-> p]
    /\ request' = Request("form", creds')
    /\ form' = "checking" /\ remember' = rem /\ tries' = tries + 1
    /\ UNCHANGED <<passwords, cookie, skewed, known, level, initial, final, patch, queue, loaded,
                   buttons, ready, target, shown, nextPath, wentOn, wanted, crossed, fails,
                   changes, reloads, visits, accepted>>

-----------------------------------------------------------------------------
(* Sections *)

\* Section.navigate(): the path is kept until the login is done.
Go(p) ==
    IF p = Login THEN target' = Login /\ UNCHANGED nextPath
    ELSE IF final = None THEN target' = Login /\ nextPath' = p
    ELSE target' = p /\ UNCHANGED nextPath

Navigate(p) ==
    /\ visits < MaxVisits
    /\ Go(p)
    /\ visits' = visits + 1
    /\ wanted' = IF p = Login /\ ~wentOn THEN wanted ELSE p
    /\ crossed' = (crossed \/ (final # None /\ ~wentOn))
    /\ UNCHANGED <<passwords, cookie, skewed, creds, known, level, initial, final, request, patch,
                   queue, loaded, buttons, ready, form, remember, shown, wentOn, tries, fails,
                   changes, reloads, accepted>>

\* preload(): the login waits for the initial level, other sections for the cache.
Show ==
    /\ target # shown
    /\ IF target = Login THEN initial # None ELSE ready
    /\ shown' = target
    /\ UNCHANGED <<passwords, cookie, skewed, creds, known, level, initial, final, request, patch,
                   queue, loaded, buttons, ready, form, remember, target, nextPath, wentOn, wanted,
                   crossed, tries, fails, changes, reloads, visits, accepted>>

\* Mutant: the path asked for is forgotten.
NavigateHome ==
    /\ final # None /\ ready /\ ~wentOn
    /\ wentOn' = TRUE
    /\ nextPath' = None
    /\ target' = Home
    /\ wanted' = IF nextPath = None THEN Home ELSE wanted
    /\ UNCHANGED <<passwords, cookie, skewed, creds, known, level, initial, final, request, patch,
                   queue, loaded, buttons, ready, form, remember, shown, crossed, tries, fails,
                   changes, reloads, visits, accepted>>

\* navigateNext(), once the final level and the cache are ready.
NavigateNext ==
    /\ final # None /\ ready /\ ~wentOn
    /\ wentOn' = TRUE
    /\ nextPath' = None
    /\ target' = IF nextPath = None THEN Home ELSE nextPath
    /\ wanted' = IF nextPath = None THEN Home ELSE wanted
    /\ UNCHANGED <<passwords, cookie, skewed, creds, known, level, initial, final, request, patch,
                   queue, loaded, buttons, ready, form, remember, shown, crossed, tries, fails,
                   changes, reloads, visits, accepted>>

-----------------------------------------------------------------------------
(* Passwords *)

\* applyData() of the settings form.
ChangePassword(p) ==
    /\ shown \notin {None, Login} /\ patch = None /\ changes < MaxChanges
    /\ patch' = [password |-> p, request |-> Request("settings", creds), done |-> FALSE]
    /\ changes' = changes + 1
    /\ UNCHANGED <<passwords, cookie, skewed, creds, known, level, initial, final, request, queue,
                   loaded, buttons, ready, form, remember, target, shown, nextPath, wentOn, wanted,
                   crossed, tries, fails, reloads, visits, accepted>>

\* PATCH /device, for administrators.
ServePatch ==
    /\ patch # None /\ ~patch.done /\ Granted(patch.request) = LevelOf["admin"]
    /\ passwords' = [passwords EXCEPT !["admin"] = patch.password]
    /\ patch' = [patch EXCEPT !.done = TRUE]
    /\ accepted' = accepted \cup {[user |-> "admin", password |-> patch.password]}
    /\ UNCHANGED <<cookie, skewed, creds, known, level, initial, final, request, queue, loaded,
                   buttons, ready, form, remember, target, shown, nextPath, wentOn, wanted, crossed,
                   tries, fails, changes, reloads, visits>>

\* The administrator's own password is replaced once the answer has come.
PatchAnswered ==
    /\ patch # None /\ patch.done
    /\ creds' = IF creds # None /\ creds.user = "admin"
                THEN [creds EXCEPT !.password = patch.password] ELSE creds
    /\ patch' = None /\ known' = TRUE
    /\ UNCHANGED <<passwords, cookie, skewed, level, initial, final, request, queue, loaded,
                   buttons, ready, form, remember, target, shown, nextPath, wentOn, wanted, crossed,
                   tries, fails, changes, reloads, visits, accepted>>

\* It is refused, or the answer is lost.
PatchFails ==
    /\ patch # None
    /\ \/ ~patch.done /\ Granted(patch.request) # LevelOf["admin"] /\ UNCHANGED fails
       \/ fails < MaxFails /\ fails' = fails + 1
    /\ patch' = None
    /\ UNCHANGED <<passwords, cookie, skewed, creds, known, level, initial, final, request, queue,
                   loaded, buttons, ready, form, remember, target, shown, nextPath, wentOn, wanted,
                   crossed, tries, changes, reloads, visits, accepted>>

PasswordChanged(u, p) ==
    /\ changes < MaxChanges /\ p # passwords[u] /\ (p = Empty => u = "admin")
    /\ passwords' = [passwords EXCEPT ![u] = p] /\ changes' = changes + 1
    /\ UNCHANGED <<page, cookie, skewed, tries, fails, reloads, visits, accepted>>

-----------------------------------------------------------------------------
\* The page is loaded, with the section of its URL (init() of auth.js, navigateInitial()).
Loaded(c, p) ==
    /\ creds' = c /\ known' = FALSE /\ level' = None
    /\ initial' = IF c = None THEN NoLevel ELSE None
    /\ request' = IF c = None THEN None
                  ELSE [by |-> "init", creds |-> c, timed |-> TRUE, stage |-> "asked",
                        level |-> NoLevel]
    /\ final' = None /\ patch' = None /\ queue' = <<>> /\ loaded' = None /\ buttons' = FALSE
    /\ ready' = FALSE /\ form' = "shown" /\ remember' = FALSE /\ shown' = None
    /\ target' = Login /\ nextPath' = IF p = Login THEN None ELSE p
    /\ wentOn' = FALSE /\ wanted' = p /\ crossed' = FALSE

Reload(p) ==
    /\ reloads < MaxReloads /\ reloads' = reloads + 1
    /\ Loaded(cookie, p)
    /\ UNCHANGED <<passwords, cookie, skewed, tries, fails, changes, visits, accepted>>

\* _doLogout(), a second later.
Logout ==
    /\ shown \notin {None, Login} /\ reloads < MaxReloads /\ reloads' = reloads + 1
    /\ cookie' = None
    /\ Loaded(None, Home)
    /\ UNCHANGED <<passwords, skewed, tries, fails, changes, visits, accepted>>

Init ==
    /\ passwords \in {f \in [User -> Password \cup {Empty}] : f["normal"] # Empty}
    /\ cookie \in {None} \cup [user : User, password : Password] /\ skewed \in BOOLEAN
    /\ creds = cookie /\ known = FALSE /\ level = None
    /\ initial = (IF cookie = None THEN NoLevel ELSE None)
    /\ request = (IF cookie = None THEN None
                  ELSE [by |-> "init", creds |-> cookie, timed |-> TRUE, stage |-> "asked",
                        level |-> NoLevel])
    /\ final = None /\ patch = None /\ queue = <<>> /\ loaded = None /\ buttons = FALSE
    /\ ready = FALSE /\ form = "shown" /\ remember = FALSE /\ shown = None
    /\ wanted \in Path /\ target = Login /\ nextPath = wanted
    /\ wentOn = FALSE /\ crossed = FALSE
    /\ tries = 0 /\ fails = 0 /\ changes = 0 /\ reloads = 0 /\ visits = 0
    /\ accepted = IF cookie = None THEN {} ELSE {cookie}

Page == Serve \/ Answered \/ Notify \/ CacheReady \/ RequestFails \/ Show \/ NavigateNext

Next ==
    \/ Page
    \/ \E u \in User, p \in Password \cup {Empty}, rem \in BOOLEAN : TryLogin(u, p, rem)
    \/ \E p \in Path \cup {Login} : Navigate(p)
    \/ \E p \in Password : ChangePassword(p)
    \/ ServePatch \/ PatchAnswered \/ PatchFails
    \/ \E u \in User, p \in Password \cup {Empty} : PasswordChanged(u, p)
    \/ \E p \in Path : Reload(p)
    \/ Logout

Spec == Init /\ [][Next]_avars

-----------------------------------------------------------------------------
(* Properties *)

\* Credentials are kept only once the server has accepted them (LoginForm).
KeptWereAccepted == cookie # None => cookie \in accepted

\* Once the listeners have been called, the cache has been loaded for the level there is, and
\* the sections are those of it (index.js: "Whenever access level changes, reload all required
\* data").
LoadedForLevel ==
    queue = <<>> /\ level # None =>
        (level > NoLevel => loaded = level) /\ buttons = (level >= LevelOf["admin"])

\* One comes to the section asked for last, also when it was before logging in, unless another
\* one was asked for while the cache was being loaded (setNextPath(), navigateNext()).
ComesWhereWanted == wentOn /\ ~crossed => target = wanted

\* The initial level is known, so that the login form can be shown, unless it is still being
\* asked for or its listeners have not been called (fetchInitialAccess()).
InitialComes == request = None /\ queue = <<>> => initial # None

\* Credentials, level and section fit together (the four above).
AccessHolds == KeptWereAccepted /\ LoadedForLevel /\ ComesWhereWanted /\ InitialComes
=============================================================================
