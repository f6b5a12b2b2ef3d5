-------------------------------- MODULE Menu --------------------------------
(***************************************************************************)
(* com32/menu/menumain.c of syslinux: run_menu, do_hidden_menu, mygetkey,  *)
(* ask_passwd and the loop of main.  The configuration is what readconfig  *)
(* (not in the source tree) has parsed: menus, each with its entries 0 ..  *)
(* n - 1, default entry and timeout; an entry has a command line if its    *)
(* action is MA_CMD or MA_HELP.  Only the initial menu is checked to have  *)
(* entries, so that every menu must have one; an entry that is disabled    *)
(* has no hotkey.                                                          *)
(*                                                                         *)
(* Drawing is left out, and so is what a key does only to the screen:      *)
(* redraws are the key "other".  MAXKEYS bounds the keys that are pressed  *)
(* and the commands that fail to boot.                                     *)
(***************************************************************************)
EXTENDS Integers, Sequences, FiniteSets

CONSTANTS MENU_ROWS, CLK_TCK, MenuConfigs, MAXKEYS

ASSUME MenuAssumption ==
  /\ MENU_ROWS \in Nat \ {0} /\ CLK_TCK \in Nat \ {0} /\ MAXKEYS \in Nat
  /\ \A c \in MenuConfigs :
       /\ c.start \in DOMAIN c.menus /\ c.total \in Nat
       /\ \A m \in DOMAIN c.menus :
            LET last == Len(c.menus[m].entries) - 1 IN
            /\ last \in Nat /\ c.menus[m].defentry \in 0 .. last /\ c.menus[m].timeout \in Nat
            /\ \A k \in DOMAIN c.menus[m].hotkeys :
                 /\ c.menus[m].hotkeys[k] \in 0 .. last
                 /\ c.menus[m].entries[c.menus[m].hotkeys[k] + 1].action # "MA_DISABLED"
            /\ \A i \in 1 .. last + 1 :
                 c.menus[m].entries[i].action \in {"MA_SUBMENU", "MA_GOTO", "MA_EXIT"}
                   => c.menus[m].entries[i].submenu \in DOMAIN c.menus

VARIABLES
  conf,       \* the parsed configuration, chosen when the menu starts
  cm,         \* the current menu
  cur,        \* curentry and curtop of every menu
  run,        \* where run_menu is, and its locals
  totaltimeout, hiddenmenu, shiftkey,
  adv,        \* the label MENU SAVE has stored
  ran,        \* history: the command line run_menu returned, and how it came to it
  picked,     \* history: the entry that the user picked and is being acted on,
              \* whether its password was given, and that picked when adv was stored
  keys        \* keys the user may still press

menuVars == <<conf, cm, cur, run, totaltimeout, hiddenmenu, shiftkey, adv, ran, picked, keys>>

KEY_NONE == "none"
NULL == "NULL"
\* Command lines that are no entry's: none, that of MENU ONTIMEOUT, and that
\* of MENU HIDEKEY.
NOCMD == -1
ONTIMEOUT == -2
HIDEKEY == -3
NoConf == [menus |-> <<>>, start |-> NULL, total |-> 0, hidden |-> FALSE, hidekey |-> FALSE,
           shift |-> FALSE, keys |-> {}]
NotRun == [at |-> "off", entry |-> 0, top |-> 0, key_timeout |-> 0, timeout_left |-> 0,
           hotkey |-> FALSE, by |-> "none", chose |-> FALSE]
NoPick == [menu |-> NULL, entry |-> NOCMD, word |-> FALSE, saved |-> <<NULL, NOCMD>>]
NoneRan == [menu |-> NULL, entry |-> NOCMD, how |-> "none", chose |-> FALSE]

MenuInit ==
  /\ conf = NoConf /\ cm = NULL /\ cur = <<>> /\ run = NotRun
  /\ totaltimeout = 0 /\ hiddenmenu = FALSE /\ shiftkey = FALSE
  /\ adv = NULL /\ ran = NoneRan /\ picked = NoPick /\ keys = MAXKEYS

MinOf(a, b) == IF a < b THEN a ELSE b
MaxOf(a, b) == IF a > b THEN a ELSE b

Entries(m) == conf.menus[m].entries
Nentries(m) == Len(Entries(m))
Entry(m, i) == Entries(m)[i + 1]
IsDisabled(m, i) == Entry(m, i).action = "MA_DISABLED"
Cmdline(m, i) == IF Entry(m, i).action \in {"MA_CMD", "MA_HELP"} THEN i ELSE NOCMD

At(at) == run.at = at
Selected == Entry(cm, run.entry)

-----------------------------------------------------------------------------
TimeIsUp(t) == totaltimeout <= t

\* How long mygetkey waits: until its timeout or the total one, if there is
\* one (0: none).
WaitsFor(timeout) ==
  LET limits == {x \in {timeout, totaltimeout} : x # 0}
  IN IF limits = {} THEN 0 ELSE CHOOSE x \in limits : \A y \in limits : x <= y

\* After t ticks; up is the longjmp to timeout_jump.
After(t, key, left) ==
  LET up == totaltimeout # 0 /\ TimeIsUp(t)
  IN [key |-> key, up |-> up, keys |-> left,
      total |-> IF totaltimeout = 0 \/ up THEN totaltimeout ELSE totaltimeout - t]

\* What mygetkey may come to: a key in time, or KEY_NONE.
GetKey(timeout) ==
  {After(t, k, keys - 1) : t \in 0 .. WaitsFor(timeout), k \in IF keys > 0 THEN conf.keys ELSE {}}
    \cup {After(t, KEY_NONE, keys) : t \in {WaitsFor(timeout)} \ {0}}

Gets(g) == totaltimeout' = g.total /\ keys' = g.keys

\* The user picks an entry of the menu on the screen; it is acted on, or not.
Pick(entry) == picked' = [menu |-> cm, entry |-> entry, word |-> FALSE, saved |-> picked.saved]
Unpick == picked' = [NoPick EXCEPT !.saved = picked.saved]

-----------------------------------------------------------------------------
\* run_menu returns a command line, or none, to main.
Returns(entry, how) ==
  /\ ran' = [menu |-> cm, entry |-> entry, how |-> how, chose |-> run.chose]
  /\ run' = [NotRun EXCEPT !.at = "returned"]

\* The default entry is booted without its password, or ONTIMEOUT.
TimeoutReturns(how) ==
  Returns(IF conf.menus[cm].ontimeout THEN ONTIMEOUT
          ELSE Cmdline(cm, conf.menus[cm].defentry), how)

\* Parsing is done and main calls run_menu.
StartMenu ==
  /\ At("off")
  /\ \E c \in MenuConfigs :
       /\ conf' = c /\ cm' = c.start
       /\ cur' = [m \in DOMAIN c.menus |-> [entry |-> c.menus[m].defentry, top |-> 0]]
       /\ totaltimeout' = c.total /\ hiddenmenu' = c.hidden /\ shiftkey' = c.shift
  /\ run' = [NotRun EXCEPT !.at = "start"]
  /\ UNCHANGED <<adv, ran, picked, keys>>

ShowMenu(key_timeout) ==
  run' = [run EXCEPT !.at = "loop", !.chose = (key_timeout # conf.menus[cm].timeout),
                     !.entry = cur[cm].entry, !.top = cur[cm].top,
                     !.key_timeout = key_timeout, !.timeout_left = conf.menus[cm].timeout]

\* run_menu up to its loop.
RunMenu ==
  /\ At("start")
  /\ \/ /\ shiftkey                              \* and shift is not held
        /\ Returns(Cmdline(cm, conf.menus[cm].defentry), "shift")
        /\ UNCHANGED shiftkey
     \/ /\ shiftkey' = FALSE
        /\ IF hiddenmenu
           THEN run' = [run EXCEPT !.at = "hidden", !.timeout_left = conf.menus[cm].timeout]
           ELSE ShowMenu(conf.menus[cm].timeout)
        /\ UNCHANGED ran
  /\ UNCHANGED <<conf, cm, cur, totaltimeout, hiddenmenu, adv, picked, keys>>

\* do_hidden_menu returned nothing: the menu is shown, without a timeout.
Unhide == hiddenmenu' = FALSE /\ ShowMenu(0) /\ UNCHANGED ran

\* The end of do_hidden_menu at its timeout; a default entry without a
\* command line unhides the menu.
HiddenTimeout(how) ==
  IF conf.menus[cm].ontimeout \/ Cmdline(cm, conf.menus[cm].defentry) # NOCMD
  THEN TimeoutReturns(how) /\ UNCHANGED hiddenmenu ELSE Unhide

\* do_hidden_menu waits in steps of a second.
HiddenWait ==
  /\ At("hidden")
  /\ LET this_timeout == MinOf(run.timeout_left, CLK_TCK)
         Key(k) ==
           IF k # KEY_NONE
           THEN IF conf.hidekey THEN Returns(HIDEKEY, "hidekey") /\ UNCHANGED hiddenmenu
                ELSE Unhide
           ELSE /\ run' = [run EXCEPT !.timeout_left = @ - this_timeout]
                /\ UNCHANGED <<hiddenmenu, ran>>
     IN IF conf.menus[cm].timeout = 0 \/ run.timeout_left # 0
        THEN \E g \in GetKey(this_timeout) :
               Gets(g) /\ IF g.up THEN HiddenTimeout("total") ELSE Key(g.key)
        ELSE HiddenTimeout("timeout") /\ UNCHANGED <<totaltimeout, keys>>
  /\ UNCHANGED <<conf, cm, cur, shiftkey, adv, picked>>

-----------------------------------------------------------------------------
Enabled(m, S) == {i \in S : i \in 0 .. Nentries(m) - 1 /\ ~IsDisabled(m, i)}
Least(S) == CHOOSE x \in S : \A y \in S : x <= y
Most(S) == CHOOSE x \in S : \A y \in S : x >= y

\* Mutant of Normalised: only the beginning of the menu is looked at.
NormalisedUp(m, e) ==
  IF e > 0 THEN MinOf(e, Nentries(m) - 1)
  ELSE Least(Enabled(m, 0 .. Nentries(m)) \cup {Nentries(m) - 1})

\* An entry before the first or after the last one that is enabled becomes
\* that one.
Normalised(m, e) ==
  LET last == Nentries(m) - 1
      up == IF e > 0 THEN e ELSE Least(Enabled(m, 0 .. last) \cup {Nentries(m)})
  IN IF up < last THEN up ELSE Most(Enabled(m, 0 .. last) \cup {0})

\* The window of MENU_ROWS entries from top on is moved to where entry is.
Scrolled(m, e, top) ==
  LET end == MaxOf(0, Nentries(m) - MENU_ROWS) IN
  IF top < 0 \/ top < e - MENU_ROWS + 1 THEN MaxOf(0, e - MENU_ROWS + 1)
  ELSE IF top > e \/ top > end THEN MinOf(e, end)
  ELSE top

\* Mutant of Cancels: the timeout goes on while the user moves about.
CancelsNever(m, e) == FALSE

\* Cursor movement cancels the timeout.
Cancels(m, e) == e # conf.menus[m].defentry

\* The head of the loop.
Draw ==
  /\ At("loop")
  /\ LET e == Normalised(cm, run.entry)
         top == Scrolled(cm, e, run.top)
     IN /\ cur' = [cur EXCEPT ![cm] = [entry |-> e, top |-> top]]
        /\ run' = [run EXCEPT !.entry = e, !.top = top,
                     !.key_timeout = IF Cancels(cm, e) THEN 0 ELSE @,
                     !.chose = @ \/ e # conf.menus[cm].defentry,
                     !.at = IF run.hotkey /\ Entry(cm, e).immediate THEN "enter" ELSE "key",
                     !.hotkey = FALSE]
        /\ IF run'.at = "key" THEN Unpick ELSE UNCHANGED picked
  /\ UNCHANGED <<conf, cm, totaltimeout, hiddenmenu, shiftkey, adv, ran, keys>>

Moved(e, top) ==
  run' = [run EXCEPT !.entry = e, !.top = top, !.at = "loop", !.by = "cursor",
                     !.timeout_left = run.key_timeout]

\* From e by step to the next enabled entry; stop is the end of the menu.
NextEnabled(e, step, stop) ==
  LET ahead == {i \in 0 .. Nentries(cm) - 1 : i * step > e * step}
      hits == Enabled(cm, ahead)
  IN IF ahead = {} THEN e
     ELSE IF hits = {} THEN stop
     ELSE IF step > 0 THEN Least(hits) ELSE Most(hits)

\* Moved from e to f entry by entry, the window turns a page whenever entry
\* leaves it.
PagesUp(top, f) == top - MaxOf(0, (top - f + MENU_ROWS - 1) \div MENU_ROWS) * MENU_ROWS
PagesDown(top, f) == top + MaxOf(0, (f - top) \div MENU_ROWS) * MENU_ROWS

\* While the entry a page was turned to is disabled, it is the next one.
OnUp(e) == IF e > 0 /\ e < Nentries(cm) /\ IsDisabled(cm, e) THEN NextEnabled(e, -1, 0) ELSE e
OnDown(e) == IF e >= 0 /\ e < Nentries(cm) - 1 /\ IsDisabled(cm, e)
             THEN NextEnabled(e, 1, Nentries(cm) - 1) ELSE e

CursorKey(k) ==
  LET e == run.entry  top == run.top  last == Nentries(cm) - 1
      up == NextEnabled(e, -1, 0)  down == NextEnabled(e, 1, last)
      pgup == OnUp(e - MENU_ROWS)  pgdn == OnDown(e + MENU_ROWS)
  IN CASE k = "up"   -> Moved(up, PagesUp(top, up))
       [] k = "down" -> Moved(down, PagesDown(top, down))
       [] k = "pgup" -> Moved(pgup, PagesUp(top - MENU_ROWS, pgup))
       [] k = "pgdn" -> Moved(pgdn, PagesDown(top + MENU_ROWS, pgdn))
       [] k = "-"    -> Moved(up, top - (e - up))
       [] k = "+"    -> Moved(down, top + (down - e))
       [] k = "home" -> Moved(0, 0)
       [] k = "end"  -> Moved(last, MaxOf(0, Nentries(cm) - MENU_ROWS))

Cursor == {"up", "down", "pgup", "pgdn", "-", "+", "home", "end"}

\* A key that stands for no entry: redraw, tab, escape.
OtherKey == run' = [run EXCEPT !.at = "loop", !.timeout_left = run.key_timeout]

\* A hotkey moves to its entry, and picks it if that is immediate.
HotKey(k) ==
  /\ run' = [run EXCEPT !.at = "loop", !.key_timeout = 0, !.hotkey = TRUE,
                        !.by = "hotkey", !.chose = TRUE,
                        !.timeout_left = run.key_timeout,
                        !.entry = conf.menus[cm].hotkeys[k]]
  /\ IF Entry(cm, conf.menus[cm].hotkeys[k]).immediate
     THEN Pick(conf.menus[cm].hotkeys[k]) ELSE UNCHANGED picked

\* KEY_NONE: the rest of the timeout passes, a second at a time.
SecondPasses(this_timeout) ==
  IF run.key_timeout # 0 /\ run.timeout_left <= this_timeout
  THEN TimeoutReturns("timeout")
  ELSE /\ run' = [run EXCEPT !.at = "loop", !.timeout_left =
                    IF run.key_timeout # 0 THEN @ - this_timeout ELSE @]
       /\ UNCHANGED ran

\* The loop waits for a key and acts on it; Enter is for the entry that is shown
\* as the current one.
KeyPressed ==
  /\ At("key")
  /\ LET this_timeout == MinOf(MinOf(run.key_timeout, run.timeout_left), CLK_TCK)
         Key(k) ==
           CASE k = KEY_NONE -> SecondPasses(this_timeout) /\ UNCHANGED picked
             [] k = "enter"  -> /\ run' = [run EXCEPT !.at = "enter", !.chose = TRUE,
                                                      !.timeout_left = run.key_timeout]
                                /\ Pick(cur[cm].entry) /\ UNCHANGED ran
             [] k = "F1" -> /\ run' = [run EXCEPT !.at = "help", !.timeout_left = run.key_timeout]
                            /\ UNCHANGED <<ran, picked>>
             [] k \in Cursor -> CursorKey(k) /\ UNCHANGED <<ran, picked>>
             [] k \in DOMAIN conf.menus[cm].hotkeys -> HotKey(k) /\ UNCHANGED ran
             [] OTHER        -> OtherKey /\ UNCHANGED <<ran, picked>>
     IN \E g \in GetKey(this_timeout) :
          Gets(g) /\ IF g.up THEN TimeoutReturns("total") /\ UNCHANGED picked ELSE Key(g.key)
  /\ UNCHANGED <<conf, cm, cur, hiddenmenu, shiftkey, adv>>

\* The action of the entry, once its password was given.
Act ==
  LET me == Selected IN
  CASE me.action = "MA_CMD" ->
         /\ Returns(Cmdline(cm, run.entry), IF At("passwd") THEN "password" ELSE "enter")
         /\ UNCHANGED cm
    [] me.action = "MA_QUIT" -> Returns(NOCMD, "quit") /\ UNCHANGED cm
    [] me.action \in {"MA_SUBMENU", "MA_GOTO", "MA_EXIT"} ->
         /\ cm' = me.submenu
         /\ run' = [run EXCEPT !.at = "loop", !.key_timeout = 0, !.by = "none",
                               !.entry = cur[me.submenu].entry, !.top = cur[me.submenu].top]
         /\ UNCHANGED ran
    [] me.action = "MA_HELP" ->
         run' = [run EXCEPT !.at = "help", !.key_timeout = 0] /\ UNCHANGED <<cm, ran>>
    [] OTHER -> run' = [run EXCEPT !.at = "loop", !.key_timeout = 0] /\ UNCHANGED <<cm, ran>>

\* MENU SAVE, for an entry without a password that ends the menu.
Save ==
  IF Selected.action \in {"MA_CMD", "MA_QUIT"} /\ ~Selected.passwd /\ Selected.save
  THEN /\ adv' = Selected.label
       /\ picked' = [picked EXCEPT !.saved = <<picked.menu, picked.entry>>]
  ELSE UNCHANGED <<adv, picked>>

NeedsPassword(me) == me.passwd

\* KEY_ENTER: ask for the password, or do what the entry says.
Enter ==
  /\ At("enter")
  /\ IF NeedsPassword(Selected)
     THEN /\ run' = [run EXCEPT !.at = "passwd", !.key_timeout = 0]
          /\ UNCHANGED <<cm, ran, adv, picked>>
     ELSE Act /\ Save
  /\ UNCHANGED <<conf, cur, totaltimeout, hiddenmenu, shiftkey, keys>>

\* ask_passwd: the right word, the wrong one or none; the total timeout may
\* end the menu meanwhile.
AskPasswd ==
  /\ At("passwd")
  /\ LET Key(k) ==
           \/ k = "enter" /\ Act /\ picked' = [picked EXCEPT !.word = TRUE]
           \/ \E at \in IF k = "enter" THEN {"loop"} ELSE {"passwd", "loop"} :
                run' = [run EXCEPT !.at = at] /\ UNCHANGED <<cm, ran, picked>>
     IN \E g \in GetKey(0) :
          Gets(g) /\ IF g.up THEN TimeoutReturns("total") /\ UNCHANGED <<cm, picked>> ELSE Key(g.key)
  /\ UNCHANGED <<conf, cur, hiddenmenu, shiftkey, adv>>

\* show_message_file and show_fkey: until a key that is not for another help.
Help ==
  /\ At("help")
  /\ LET Key(k) == /\ run' = [run EXCEPT !.at = IF k = "F1" THEN "help" ELSE "loop"]
                   /\ UNCHANGED ran
     IN \E g \in GetKey(0) :
          Gets(g) /\ IF g.up THEN TimeoutReturns("total") ELSE Key(g.key)
  /\ UNCHANGED <<conf, cm, cur, hiddenmenu, shiftkey, adv, picked>>

\* main: without a command line the menu ends; execute boots, or it returns
\* and, after ONERROR, run_menu is called again.
Execute ==
  /\ At("returned")
  /\ \/ /\ ran.entry # NOCMD /\ keys > 0 /\ keys' = keys - 1
        /\ run' = [NotRun EXCEPT !.at = "start"]
     \/ run' = [NotRun EXCEPT !.at = "over"] /\ UNCHANGED keys
  /\ UNCHANGED <<conf, cm, cur, totaltimeout, hiddenmenu, shiftkey, adv, ran, picked>>

MenuStep ==
  \/ RunMenu \/ HiddenWait \/ Draw \/ KeyPressed \/ Enter \/ AskPasswd \/ Help \/ Execute

-----------------------------------------------------------------------------
(***************************************************************************)
(* Properties.                                                             *)
(***************************************************************************)
MenuTypeOK ==
  /\ run.at \in {"off", "start", "hidden", "loop", "key", "enter", "passwd", "help",
                 "returned", "over"}
  /\ run.timeout_left >= 0 /\ run.key_timeout >= 0 /\ keys \in 0 .. MAXKEYS
  /\ run.at = "key" /\ run.key_timeout # 0 => run.timeout_left # 0

\* Whatever keys are pressed in whatever menu, the entry that is selected is
\* one of the menu, is on the screen, the menu is scrolled by no more than it
\* is long, and who moves the cursor never ends on a disabled entry while
\* there is another.
SelectedShown ==
  At("key") =>
    /\ run.entry \in 0 .. Nentries(cm) - 1
    /\ run.top \in 0 .. MaxOf(0, Nentries(cm) - MENU_ROWS)
    /\ run.top <= run.entry /\ run.entry < run.top + MENU_ROWS
    /\ run.by = "cursor" /\ Enabled(cm, 0 .. Nentries(cm)) # {} => ~IsDisabled(cm, run.entry)

\* run_menu returns what the user chose.  By Enter or an immediate hotkey that is
\* the very entry that was shown as the current one, or that the hotkey is for,
\* and if it has a password, the right word was given for it.  Otherwise it is
\* the default entry, whose password is not asked for: by the menu's own timeout
\* only as long as the user has not moved off that entry, pressed a hotkey or
\* Enter; by the total timeout if there is one; and at once, in shiftkey mode, if
\* no shift key is held and the menu was never shown.  MENU SAVE stores the label
\* of an entry that was picked, and that has no password.
RunsChosen ==
  /\ At("returned") =>
       /\ ran.how \in {"enter", "password"} =>
            /\ ran.menu = picked.menu /\ ran.entry = picked.entry
            /\ Entry(ran.menu, ran.entry).passwd => picked.word
       /\ ran.how \notin {"enter", "password"} /\ ran.entry \notin {NOCMD, ONTIMEOUT, HIDEKEY} =>
            /\ ran.how \in {"timeout", "total", "shift"}
            /\ ran.entry = conf.menus[ran.menu].defentry
       /\ ran.how = "timeout" => ~ran.chose
       /\ ran.how = "total" => conf.total # 0
       /\ ran.how = "shift" => conf.shift /\ picked = NoPick
  /\ adv # NULL => LET e == Entry(picked.saved[1], picked.saved[2])
                   IN e.label = adv /\ e.save /\ ~e.passwd

\* A limit of the total time is never counted down to 0, which would be none.
TotalLimited == run.at # "off" /\ conf.total # 0 => totaltimeout > 0

=============================================================================
