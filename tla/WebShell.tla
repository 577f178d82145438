------------------------------ MODULE WebShell ------------------------------
(***************************************************************************)
(* The hands of the web page: the global keys of app.vue, the command      *)
(* palette, the landing page's field, the reader's tabs, the menus, the    *)
(* preferences and read marks in the browser's storage.  Here calls are    *)
(* answered at once and pages mounted at once (WebMail interleaves those); *)
(* what the server's answers change behind the user's back, the inboxes    *)
(* and the message list, changes at any moment.                            *)
(***************************************************************************)
EXTENDS InboxLink, Integers, FiniteSets

CONSTANTS
  Text,         \* what can be typed
  ServerDomain, \* the instance's domain, as it is configured
  Message,      \* messages, numbered
  WithFiles,    \* those with attachments
  WithLinks,    \* those with links
  Lists,        \* what the message list can become
  Inboxes,      \* what the server's inboxes can become, sequences of
                \*   [inbox, message_count]
  Hits,         \* the commands whose fixed words have a term, in
                \*   [Text -> SUBSET Command]
  ReadMax, ReadKeep,  \* markRead keeps the last ReadKeep of over ReadMax marks
  MaxActs,      \* bound on what the user does
  MaxChanges    \* bound on what changes behind him

Actions == <<"gen", "wait", "clear", "refresh", "auto", "images", "theme", "settings">>
Manage == <<"account", "reserve", "keys">>
Command == Range(Actions) \cup Range(Manage)

ASSUME ShellAssumption ==
  /\ WithFiles \cup WithLinks \subseteq Message /\ Lists \subseteq Seq(Message)
  /\ 0 \notin Message /\ Text \subseteq Seq(Piece) /\ ServerDomain \in Seq(Piece)
  /\ Inboxes \subseteq Seq([inbox : Seq(Piece), message_count : Nat])
  /\ Hits \in [Text -> SUBSET Command]
  /\ ReadMax \in Nat /\ ReadKeep \in 1 .. ReadMax /\ MaxActs \in Nat /\ MaxChanges \in Nat

NoText == <<>>
DefaultDomain == <<"x", "x">>      \* "localhost"
NoMessage == 0
Themes == {"dark", "light"}
Accents == {"neutral", "sky"}      \* the default and one of the colors
Tabs == {"rendered", "text", "headers", "raw", "atts"}
Menus == {"organization", "user", "reader"}

VARIABLES
  place,    \* [path, inbox]: the section, and state.inbox
  mail,     \* [list, current]: state.messages and the message open
  sel,      \* the list position the keys are at, 0 before any
  typed,    \* the landing page's field
  palette,  \* [open, q, active], active from 1
  inboxes,  \* state.inboxes
  domain,   \* state.config.domain
  reader,   \* [tab, extras]
  menus,    \* the menus that are open
  prefs,    \* [theme, accent, images, auto, read], the read marks oldest
            \*   first: stored in the browser with every change
  count,    \* acts and changes so far
  hist      \* history: [promised, opened, quiet]

vars == <<place, mail, sel, typed, palette, inboxes, domain, reader, menus, prefs, count, hist>>

UserActs ==
  /\ count.acts < MaxActs
  /\ count' = [count EXCEPT !.acts = @ + 1]

---------------------------------------------------------------------------
(* Pages *)

(* MessageReader is mounted when a message is opened after none. *)
FreshReader == [tab |-> "rendered", extras |-> FALSE]

(* The other pages: the landing page leaves the inbox, the sections keep it
   and its mail. *)
Goes(path) ==
  /\ place' = [path |-> path, inbox |-> IF path = "landing" THEN NoText ELSE place.inbox]
  /\ mail' = IF path = "landing" THEN [list |-> <<>>, current |-> NoMessage] ELSE mail
  /\ reader' = FreshReader
  /\ typed' = NoText

(* The inbox page, at a path: enterInbox of the address in it, where the inbox
   that is open already keeps its message.  The page fails at a path that it
   cannot decode; going where one is does nothing. *)
Enters(path) ==
  LET failed == Throws(Param(path))
      address == IF failed THEN NoText ELSE Normal(Decode(Param(path)))
      same == place.inbox = address
  IN
  /\ typed' = NoText
  /\ place' = IF failed THEN [place EXCEPT !.path = "failed"]
              ELSE [path |-> "inbox", inbox |-> address]
  /\ mail' = IF failed \/ (same /\ (place.path = "inbox" \/ mail.list # <<>>)) THEN mail
             ELSE [mail EXCEPT !.current = NoMessage]
  /\ reader' = IF same /\ place.path = "inbox" THEN reader ELSE FreshReader

(* openInbox of what is shown as t; what was promised to be opened. *)
Opens(t, shown) ==
  /\ Enters(PathOf(t))
  /\ hist' = [hist EXCEPT !.promised = shown, !.quiet = FALSE]

(* The menus that a key or an answer leaves open: the reader's goes with the
   reader. *)
Kept ==
  IF mail'.current = NoMessage \/ place' # place THEN menus \ {"reader"} ELSE menus

(* generateAddress: some name. *)
Generated == <<"x", "@">> \o domain

(* newAddress of app.vue and of the landing page. *)
newAddress == Opens(Generated, Generated)

(* The watch on the commands: a change of them highlights the first. *)
Highlights(p) == [p EXCEPT !.active = 1]

(* Mutant of Touched: the highlight stays when commands come and go. *)
TouchedNot == palette

(* What the commands depend on has changed: the inbox, the inboxes, the auto,
   images and theme settings, the domain. *)
Touched == Highlights(palette)

---------------------------------------------------------------------------
(* Read marks and preferences *)

(* markRead: the marks, m among them. *)
Marked(read, m) ==
  IF m \in Range(read) THEN read
  ELSE LET all == Append(read, m) IN
       IF Len(all) > ReadMax THEN SubSeq(all, Len(all) - ReadKeep + 1, Len(all)) ELSE all

(* The watch on message.id: another message starts on its rendered text. *)
OpenedReader(m) == IF m = mail.current THEN reader ELSE FreshReader

(* openMessage of the m-th entry of the list. *)
Reads(m) ==
  /\ mail' = [mail EXCEPT !.current = m]
  /\ reader' = OpenedReader(m)
  /\ prefs' = [prefs EXCEPT !.read = Marked(@, m)]
  /\ hist' = [hist EXCEPT !.opened = @ \cup {m}]

---------------------------------------------------------------------------
(* Keys: onKey, with the palette closed and no field focused *)

Keys == UserActs /\ ~palette.open

(* Mutant of Down: the first j starts below the first message. *)
DownFromFirst == IF sel = 0 THEN 2 ELSE sel + 1

Down == sel + 1

(* j and k clamp to the list, Enter does not; nothing opens where nothing is. *)
KeyJ == IF Down < Len(mail.list) THEN Down ELSE Len(mail.list)
KeyK == IF sel > 1 THEN sel - 1 ELSE 1

OpenAt(i) ==
  /\ Keys
  /\ i \in DOMAIN mail.list
  /\ sel' = i
  /\ Reads(mail.list[i])
  /\ UNCHANGED <<place, typed, palette, inboxes, domain, menus>>

PressJ == OpenAt(KeyJ)
PressK == OpenAt(KeyK)
PressEnter == OpenAt(sel)

(* Escape closes the menus, and the message or else the inbox. *)
PressEscape ==
  /\ Keys
  /\ mail.current # NoMessage \/ place.inbox # NoText \/ menus # {}
  /\ menus' = {}
  /\ \/ /\ mail.current # NoMessage
        /\ mail' = [mail EXCEPT !.current = NoMessage]
        /\ reader' = FreshReader
        /\ UNCHANGED <<place, typed>>
     \/ /\ mail.current = NoMessage /\ place.inbox # NoText
        /\ Goes("landing")
     \/ /\ mail.current = NoMessage /\ place.inbox = NoText
        /\ UNCHANGED <<place, mail, reader, typed>>
  /\ hist' = [hist EXCEPT !.quiet = @ /\ place'.inbox = place.inbox]
  /\ UNCHANGED <<sel, palette, inboxes, domain, prefs>>

(* x and Delete, as the reader's menu does, and the list after it. *)
PressX ==
  /\ Keys
  /\ mail.current # NoMessage
  /\ mail' = [list |-> Picked(mail.list, {n \in DOMAIN mail.list : mail.list[n] # mail.current}),
              current |-> NoMessage]
  /\ reader' = FreshReader
  /\ menus' \in {{}, Kept}
  /\ hist' = [hist EXCEPT !.quiet = FALSE]
  /\ UNCHANGED <<place, sel, typed, palette, inboxes, domain, prefs>>

(* The comma, and the sidebar. *)
Section ==
  /\ Keys
  /\ \E path \in {"landing", "section"} :
       /\ place.path # path
       /\ Goes(path)
       /\ hist' = [hist EXCEPT !.quiet = @ /\ place'.inbox = place.inbox]
  /\ menus' \in {{}, Kept}
  /\ UNCHANGED <<sel, palette, inboxes, domain, prefs>>

PressG ==
  /\ Keys
  /\ newAddress
  /\ menus' = Kept
  /\ UNCHANGED <<sel, palette, inboxes, domain, prefs>>

---------------------------------------------------------------------------
(* The mouse and the fields *)

(* The landing page: the text below the field is the address to be opened. *)
TypeAddress(t) ==
  /\ Keys
  /\ place.path = "landing" /\ t # typed
  /\ typed' = t
  /\ UNCHANGED <<place, mail, sel, palette, inboxes, domain, reader, menus, prefs, hist>>

(* The line below an empty field offers a generated address instead. *)
ClickNewAddress ==
  /\ Keys
  /\ place.path = "landing" /\ Qualify(typed, domain) = NoText
  /\ newAddress
  /\ menus' = {}
  /\ UNCHANGED <<sel, palette, inboxes, domain, prefs>>

(* Mutant of OpenTyped: what was typed is opened. *)
OpenTypedRaw ==
  /\ Keys
  /\ place.path = "landing" /\ Qualify(typed, domain) # NoText
  /\ Opens(typed, Qualify(typed, domain))
  /\ menus' \in {{}, Kept}
  /\ UNCHANGED <<sel, palette, inboxes, domain, prefs>>

OpenTyped ==
  /\ Keys
  /\ place.path = "landing" /\ Qualify(typed, domain) # NoText
  /\ Opens(Qualify(typed, domain), Qualify(typed, domain))
  /\ menus' \in {{}, Kept}
  /\ UNCHANGED <<sel, palette, inboxes, domain, prefs>>

(* A click on a message does not move the position of the keys. *)
ClickMessage(m) ==
  /\ Keys
  /\ place.path = "inbox" /\ m \in Range(mail.list)
  /\ Reads(m)
  /\ menus' = {}
  /\ UNCHANGED <<place, sel, typed, palette, inboxes, domain>>

(* The tabs: attachments only where there are any. *)
PickTab(t) ==
  /\ Keys
  /\ place.path = "inbox" /\ mail.current # NoMessage
  /\ t = "atts" => mail.current \in WithFiles
  /\ reader' = [reader EXCEPT !.tab = t]
  /\ menus' = {}
  /\ UNCHANGED <<place, mail, sel, typed, palette, inboxes, domain, prefs, hist>>

ToggleExtras ==
  /\ Keys
  /\ place.path = "inbox" /\ mail.current \in WithLinks
  /\ reader' = [reader EXCEPT !.extras = ~@]
  /\ menus' = {}
  /\ UNCHANGED <<place, mail, sel, typed, palette, inboxes, domain, prefs, hist>>

(* Mutant of ToggleMenu: a click outside is not noticed. *)
ToggleMenuOnly(m) ==
  /\ Keys
  /\ m = "reader" => place.path = "inbox" /\ mail.current # NoMessage
  /\ menus' = IF m \in menus THEN menus \ {m} ELSE menus \cup {m}
  /\ UNCHANGED <<place, mail, sel, typed, palette, inboxes, domain, reader, prefs, hist>>

(* Menu.vue: its trigger toggles it, and is outside of the others. *)
ToggleMenu(m) ==
  /\ Keys
  /\ m = "reader" => place.path = "inbox" /\ mail.current # NoMessage
  /\ menus' = {m} \ menus
  /\ UNCHANGED <<place, mail, sel, typed, palette, inboxes, domain, reader, prefs, hist>>

(* setTheme, setAccent, toggleImages, toggleAuto: the settings page, where all
   of them are; the reader has the images'. *)
ChangeSetting(p) ==
  /\ Keys
  /\ p # prefs
  /\ \/ place.path = "section"
     \/ place.path = "inbox" /\ mail.current # NoMessage /\ p.images # prefs.images
  /\ prefs' = p
  /\ menus' = {}
  /\ UNCHANGED <<place, mail, sel, typed, palette, inboxes, domain, reader, hist>>

Setting ==
  {[prefs EXCEPT !.theme = t] : t \in Themes} \cup {[prefs EXCEPT !.accent = a] : a \in Accents}
  \cup {[prefs EXCEPT !.images = ~@], [prefs EXCEPT !.auto = ~@]}

(* The page is loaded again: init, with what is stored. *)
Reload ==
  /\ UserActs
  /\ mail' = [list |-> <<>>, current |-> NoMessage]
  /\ place' = IF place.path = "inbox" THEN place ELSE [place EXCEPT !.inbox = NoText]
  /\ sel' = 0 /\ typed' = NoText /\ reader' = FreshReader /\ menus' = {}
  /\ palette' = [open |-> FALSE, q |-> NoText, active |-> 1]
  /\ inboxes' = <<>> /\ domain' = DefaultDomain
  /\ hist' = [hist EXCEPT !.quiet = FALSE]
  /\ UNCHANGED prefs

---------------------------------------------------------------------------
(* The palette *)

(* base and inboxCmds: two commands only in an inbox, and every inbox. *)
InboxCommand(n) == <<"inbox", inboxes[n].inbox>>
OpenCommand(t) == <<"open", maybeQualify(t, domain)>>

(* What a command shows besides its fixed words. *)
Shows(c) ==
  CASE c = "gen" -> <<"@">> \o domain
    [] c \in {"wait", "clear"} -> place.inbox
    [] OTHER -> NoText

IsIn(t, u) == \E n \in 0 .. (Len(u) - Len(t)) : SubSeq(u, n + 1, n + Len(t)) = t

Found(cs) ==
  LET term == Normal(palette.q)
      shown(c) == c \in {"wait", "clear"} => place.inbox # NoText
      hit(c) == term = NoText \/ c \in Hits[palette.q] \/ IsIn(term, Lower(Shows(c)))
  IN Picked(cs, {n \in DOMAIN cs : shown(cs[n]) /\ hit(cs[n])})

FoundInboxes ==
  Picked([n \in DOMAIN inboxes |-> InboxCommand(n)],
         {n \in DOMAIN inboxes : IsIn(Normal(palette.q), Lower(inboxes[n].inbox))})

(* filtered, groups and flat: the groups in their order. *)
Group(name, cs) == [n \in DOMAIN cs |-> <<name, cs[n]>>]
flat ==
  LET term == Normal(palette.q) IN
  (IF term # NoText /\ LooksLikeInbox(term) THEN <<OpenCommand(term)>> ELSE <<>>)
  \o Group("run", Found(Actions)) \o Group("go", Found(Manage)) \o FoundInboxes

GenAddress == Opens(Generated, Generated)

(* Ctrl-K, "/" *)
ShowPalette ==
  /\ UserActs
  /\ palette' = [open |-> TRUE, q |-> NoText, active |-> 1]
  /\ UNCHANGED <<place, mail, sel, typed, inboxes, domain, reader, menus, prefs, hist>>

Palette(p) ==
  /\ UserActs
  /\ palette.open
  /\ palette' = p
  /\ UNCHANGED <<place, mail, sel, typed, inboxes, domain, reader, menus, prefs, hist>>

TypeTerm(t) == t # palette.q /\ Palette(Highlights([palette EXCEPT !.q = t]))

(* The arrows wrap around. *)
Move(d) ==
  /\ flat # <<>>
  /\ Palette([palette EXCEPT !.active = 1 + ((palette.active - 1 + d + Len(flat)) % Len(flat))])

Hover(n) == Palette([palette EXCEPT !.active = n])

(* Escape, or a click outside: outside of the menus too. *)
ClosePalette ==
  /\ UserActs
  /\ palette.open
  /\ palette' = [palette EXCEPT !.open = FALSE]
  /\ menus' = {}
  /\ UNCHANGED <<place, mail, sel, typed, inboxes, domain, reader, prefs, hist>>

(* Enter, or a click: the command runs and the palette closes. *)
Run ==
  /\ UserActs
  /\ palette.open /\ palette.active \in DOMAIN flat
  /\ palette' = [Touched EXCEPT !.open = FALSE]
  /\ LET c == flat[palette.active] IN
     \/ /\ c[1] \in {"open", "inbox"} /\ Opens(c[2], c[2])
        /\ UNCHANGED prefs
     \/ /\ c = <<"run", "gen">> /\ GenAddress
        /\ UNCHANGED prefs
     \/ /\ c[1] = "go" \/ c = <<"run", "settings">>
        /\ Goes("section")
        /\ UNCHANGED <<prefs, hist>>
     \/ /\ c[1] = "run" /\ c[2] \in {"theme", "images", "auto"}
        /\ prefs' = CASE c[2] = "theme" ->
                          [prefs EXCEPT !.theme = IF prefs.theme = "dark" THEN "light" ELSE "dark"]
                      [] c[2] = "images" -> [prefs EXCEPT !.images = ~@]
                      [] c[2] = "auto" -> [prefs EXCEPT !.auto = ~@]
        /\ UNCHANGED <<place, mail, reader, typed, hist>>
     \/ /\ c[1] = "run" /\ c[2] \in {"wait", "clear", "refresh"}   \* calls: see below
        /\ UNCHANGED <<place, mail, reader, typed, prefs, hist>>
  /\ menus' \in {{}, Kept}
  /\ UNCHANGED <<sel, inboxes, domain>>

---------------------------------------------------------------------------
(* What changes behind the user's back *)

Changes ==
  /\ count.changes < MaxChanges
  /\ count' = [count EXCEPT !.changes = @ + 1]

(* sameInboxes: the two lists show the same. *)
sameInboxes(a, b) == a = b

(* loadInboxes: assigned, and the commands with it, when they differ. *)
InboxesArrive(new) ==
  /\ Changes
  /\ inboxes' = IF sameInboxes(inboxes, new) THEN inboxes ELSE new
  /\ palette' = IF sameInboxes(inboxes, new) THEN palette ELSE Touched
  /\ UNCHANGED <<place, mail, sel, typed, domain, reader, menus, prefs, hist>>

(* loadConfig is answered, once: the default domain is replaced. *)
ConfigArrives ==
  /\ domain # ServerDomain
  /\ domain' = ServerDomain
  /\ palette' = Touched
  /\ UNCHANGED <<place, mail, sel, typed, inboxes, reader, menus, prefs, count, hist>>

(* loadMessages, search and clearInbox: the position of the keys stays. *)
ListArrives(new) ==
  /\ Changes
  /\ place.inbox # NoText
  /\ mail' = [mail EXCEPT !.list = new]
  /\ hist' = [hist EXCEPT !.quiet = sel = 0 \/ (@ /\ new = mail.list),
                          !.opened = IF sel = 0 THEN {} ELSE @]
  /\ UNCHANGED <<place, sel, typed, palette, inboxes, domain, reader, menus, prefs>>

(* The inboxes that may have been waited for: those listed, and a new one. *)
Waited == {inboxes[n].inbox : n \in DOMAIN inboxes} \cup {Normal(Generated)}

(* waitForNext of an inbox that is not open has its message: it is opened. *)
InboxEntered ==
  /\ Changes
  /\ \E t \in Waited \ {place.inbox} : Opens(t, t)
  /\ palette' = IF place'.inbox = place.inbox THEN palette ELSE Touched
  /\ menus' = Kept
  /\ UNCHANGED <<sel, inboxes, domain, prefs>>

---------------------------------------------------------------------------
Init ==
  /\ \/ place = [path |-> "landing", inbox |-> NoText] /\ mail = [list |-> <<>>, current |-> NoMessage]
     \/ /\ place = [path |-> "inbox", inbox |-> Normal(<<"x", "@">> \o ServerDomain)]
        /\ \E l \in Lists : mail = [list |-> l, current |-> NoMessage]
  /\ sel = 0 /\ typed = NoText /\ reader = FreshReader /\ menus = {}
  /\ palette = [open |-> FALSE, q |-> NoText, active |-> 1]
  /\ inboxes \in Inboxes /\ domain = DefaultDomain
  /\ prefs = [theme |-> "dark", accent |-> "neutral", images |-> FALSE, auto |-> TRUE, read |-> <<>>]
  /\ count = [acts |-> 0, changes |-> 0]
  /\ hist = [promised |-> place.inbox, opened |-> {}, quiet |-> TRUE]

Next ==
  \/ PressJ \/ PressK \/ PressEnter \/ PressEscape \/ PressX \/ PressG \/ Section
  \/ \E t \in Text : TypeAddress(t) \/ TypeTerm(t)
  \/ \E m \in Message : ClickMessage(m)
  \/ \E t \in Tabs : PickTab(t)
  \/ \E m \in Menus : ToggleMenu(m)
  \/ \E p \in Setting : ChangeSetting(p)
  \/ OpenTyped \/ ClickNewAddress \/ ToggleExtras \/ Reload
  \/ ShowPalette \/ Move(1) \/ Move(-1) \/ ClosePalette \/ Run
  \/ \E n \in DOMAIN flat : Hover(n)
  \/ \E new \in Inboxes : InboxesArrive(new)
  \/ \E new \in Lists : ListArrives(new)
  \/ ConfigArrives \/ InboxEntered

Spec == Init /\ [][Next]_vars

---------------------------------------------------------------------------
(* Properties *)

(* The types of the variables, and that what is on the screen fits together: a
   tab and the links that the message has, one menu at a time, the reader's
   only beside a message, and a highlighted command whenever there is one. *)
TypeOK ==
  /\ place.path \in {"landing", "inbox", "section", "failed"}
  /\ mail.current \in Message \cup {NoMessage} /\ mail.list \in Seq(Message)
  /\ sel \in Nat /\ palette.active \in Nat \ {0} /\ palette.q \in Text \cup {NoText}
  /\ reader \in [tab : Tabs, extras : BOOLEAN] /\ menus \subseteq Menus
  /\ prefs \in [theme : Themes, accent : Accents, images : BOOLEAN, auto : BOOLEAN,
                read : Seq(Message)]
  /\ reader.tab = "atts" => mail.current \in WithFiles
  /\ reader.extras => mail.current \in WithLinks
  /\ Cardinality(menus) <= 1
  /\ "reader" \in menus => place.path = "inbox" /\ mail.current # NoMessage
  /\ palette.open /\ flat # <<>> => palette.active \in DOMAIN flat
  /\ Len(prefs.read) <= ReadMax

(* While the user keeps still the highlight stays on its command, or returns
   to the first; it never slips to another, or past the end of the list. *)
HighlightNeverSlips ==
  [][palette.open /\ count'.acts = count.acts =>
       \/ palette'.active = 1
       \/ /\ palette.active \in DOMAIN flat /\ palette'.active \in DOMAIN flat'
          /\ flat'[palette'.active] = flat[palette.active]]_vars

(* The inbox that opens is the one shown when it was asked for: below the
   field, in the palette, in its list; through the path, the router and back,
   but for the letters' case, which a configured domain may have.  An address
   with a percent sign is decoded once too often. *)
OpensWhatItShows ==
  place.path \in {"inbox", "failed"} /\ ~Has(hist.promised, "%")
    => place.inbox = Normal(hist.promised)

(* Going down and up a list that stays as it is, j and k miss no message. *)
KeysMissNothing ==
  hist.quiet => \A i \in 1 .. sel : i \in DOMAIN mail.list /\ mail.list[i] \in hist.opened
=============================================================================
