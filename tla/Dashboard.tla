----------------------------- MODULE Dashboard -----------------------------
(***************************************************************************)
(* The terminal dashboard against the daemon it is a client of: one event  *)
(* loop (Update) takes keys, ticks and the results of commands, and every  *)
(* command (a refresh, a save, a listing of Bots) runs in a goroutine of   *)
(* its own.  Several are in flight at once, they end in any order, and the *)
(* operator selects another Bot, edits and saves in between.               *)
(*                                                                         *)
(* A configuration is a revision and a value per field.  A value names the *)
(* Bot it was written for, so that one Bot's value in another's form or    *)
(* configuration shows.  Tabs, cursors, the peers' filter, status texts and *)
(* the other panels are left out.                                          *)
(***************************************************************************)
EXTENDS Naturals, FiniteSets, BagsExt, Bags

CONSTANTS
  Names,        \* the Bots
  Catalogs,     \* the sets of Bots the daemon may have
  Console,      \* those of role console
  Prefix,       \* a prefix of a Bot's identity, as --bot takes it
  Matches,      \* the Bots whose identity begins with it
  Nobody,       \* no Bot is selected
  Fields,       \* the fields of the configuration form
  AgentOnly,    \* those a console does not have
  Optional,     \* those the daemon omits when they are empty
  Nothing,      \* no snapshot; no field is being edited
  MaxCommands,  \* bound: commands in flight when a key adds one
  MaxEvents     \* bound: listings asked for, saves, requests that fail or lose
                \* their answer and changes by other clients, together

ASSUME DashboardAssumption ==
  /\ Console \subseteq Names /\ Catalogs \subseteq SUBSET Names /\ Matches \subseteq Names
  /\ AgentOnly \cup Optional \subseteq Fields
  /\ {Prefix, Nobody} \cap Names = {} /\ Nothing \notin Fields
  /\ {MaxCommands, MaxEvents} \subseteq Nat

VARIABLES
  config,     \* the daemon: each Bot's revision and values
  listed,     \* the daemon: the Bots it has
  botID, selecting, bots,  \* the selected Bot, the selection page, its list
  scope,      \* selections so far; a result of another scope is not taken
  loading,    \* a refresh is thought to be on its way
  snap,       \* the configuration in the snapshot, and the Bot it is of
  form,       \* cfgState: the form's fields, values and marks
  commands,   \* a bag: the commands in flight
  events      \* how many of the bounded events have happened

daemon == <<config, listed>>
selection == <<botID, selecting, bots, scope>>
screen == <<selection, loading, snap, form>>
dashboardVars == <<daemon, screen, commands, events>>

-----------------------------------------------------------------------------
\* Values, configurations and commands

\* The values of the --bot option.
Selections == Names \cup {Prefix, Nobody}

Value == Selections \X {"first", "typed", "other", "unset"}
Blank == <<Nobody, "unset">>
Configs == [bot : Names, rev : 1..(1 + MaxEvents), vals : [Fields -> Value]]

Refresh(b, n) == [kind |-> "refresh", bot |-> b, scope |-> n, at |-> "sent", got |-> Nothing]
Listing == [kind |-> "list", at |-> "sent", got |-> {}]
SaveCommand == [kind |-> "save", bot |-> botID, scope |-> scope, at |-> "sent", base |-> snap,
                edits |-> [f \in form.changed |-> form.val[f]]]

\* A path under /v2/bots/ names one Bot, and the daemon has it or not.
Found(b) == b \in listed

OfKind(k, stage) == {c \in BagToSet(commands) : c.kind = k /\ c.at = stage}
Add(c) == commands' = BagAdd(commands, c)
Becomes(c, d) == commands' = BagAdd(BagRemove(commands, c), d)
Ends(c) == commands' = BagRemove(commands, c)

RoomForCommand == BagCardinality(commands) < MaxCommands
Event == events < MaxEvents /\ events' = events + 1

-----------------------------------------------------------------------------
\* The form

\* initConfigFields: every field, empty.
InitForm == [shown |-> Fields, val |-> [f \in Fields |-> Blank], changed |-> {},
             editing |-> Nothing, dirty |-> FALSE]

\* syncConfigFields leaves the form alone while a field is edited, and the
\* fields the operator changed; a value the answer omits stays as it was.
Sync(fm, s) ==
  IF s = Nothing \/ fm.editing # Nothing THEN fm
  ELSE LET shown == IF s.bot \in Console THEN fm.shown \ AgentOnly ELSE fm.shown
           told == {f \in shown \ fm.changed : s.vals[f][2] # "unset"}
       IN  [fm EXCEPT !.shown = shown, !.changed = @ \cap shown,
                      !.val = [f \in Fields |-> IF f \in told THEN s.vals[f] ELSE @[f]]]

-----------------------------------------------------------------------------
\* Selecting a Bot

\* Mutant: the scope is not raised.
SelectBotInScope(b, rest) ==
  /\ botID' = b /\ selecting' = FALSE /\ UNCHANGED scope /\ loading' = TRUE
  /\ snap' = Nothing /\ form' = InitForm
  /\ commands' = BagAdd(rest, Refresh(b, scope))

\* selectBot and the refresh its callers start; rest is what is in flight.
SelectBot(b, rest) ==
  /\ botID' = b /\ selecting' = FALSE /\ scope' = scope + 1 /\ loading' = TRUE
  /\ snap' = Nothing /\ form' = InitForm
  /\ commands' = BagAdd(rest, Refresh(b, scope + 1))

\* resolveBotSelection: an exact identity, or a prefix of exactly one.
Resolved(sel, list) ==
  IF sel = Prefix THEN IF Cardinality(list \cap Matches) = 1 THEN list \cap Matches ELSE {}
  ELSE {sel} \cap list

-----------------------------------------------------------------------------
\* The command the program begins with.
FirstCommand(b) == IF b \in Names THEN Refresh(b, 0) ELSE Listing

\* Run: --bot is absent, a whole identity or a prefix of one.
DashboardInit ==
  /\ config = [b \in Names |-> [bot |-> b, rev |-> 1, vals |-> [f \in Fields |->
                 IF b \in Console /\ f \in AgentOnly THEN <<b, "unset">> ELSE <<b, "first">>]]]
  /\ listed \in Catalogs
  /\ botID \in Selections /\ selecting = (botID = Nobody)
  /\ bots = {} /\ scope = 0 /\ loading = TRUE /\ snap = Nothing /\ form = InitForm
  /\ commands = SetToBag({FirstCommand(botID)})
  /\ events = 0

-----------------------------------------------------------------------------
\* Keys and ticks

Browsing == ~selecting /\ form.editing = Nothing

PressRefresh ==
  /\ Browsing /\ RoomForCommand
  /\ loading' = TRUE /\ Add(Refresh(botID, scope))
  /\ UNCHANGED <<daemon, selection, snap, form, events>>

\* "b" opens the list, and "r" asks for it again there.
PressList ==
  /\ selecting \/ Browsing
  /\ RoomForCommand /\ Event
  /\ selecting' = TRUE /\ Add(Listing)
  /\ UNCHANGED <<daemon, botID, bots, scope, loading, snap, form>>

Choose(b) == selecting /\ b \in bots /\ SelectBot(b, commands) /\ UNCHANGED <<daemon, bots, events>>

LeaveList ==
  /\ selecting /\ botID # Nobody /\ selecting' = FALSE
  /\ UNCHANGED <<daemon, botID, bots, scope, loading, snap, form, commands, events>>

StartEdit(f) ==
  /\ Browsing /\ f \in form.shown
  /\ form' = [form EXCEPT !.editing = f]
  /\ UNCHANGED <<daemon, selection, loading, snap, commands, events>>

EndEdit(confirmed) ==
  /\ ~selecting /\ form.editing # Nothing
  /\ form' = IF confirmed
             THEN [form EXCEPT !.val[form.editing] = <<botID, "typed">>, !.dirty = TRUE,
                               !.changed = @ \cup {form.editing}, !.editing = Nothing]
             ELSE [form EXCEPT !.editing = Nothing]
  /\ UNCHANGED <<daemon, selection, loading, snap, commands, events>>

PressSave ==
  /\ Browsing /\ form.dirty /\ RoomForCommand
  /\ Event /\ Add(SaveCommand)
  /\ UNCHANGED <<daemon, screen>>

\* time.Time: a refresh unless one is thought to be on its way.
Tick ==
  /\ ~selecting /\ botID # Nobody /\ ~loading
  /\ loading' = TRUE /\ Add(Refresh(botID, scope))
  /\ UNCHANGED <<daemon, selection, snap, form, events>>

-----------------------------------------------------------------------------
\* Refreshes

\* loadSnapshot asks for the configuration first.
ReadConfig(c) ==
  /\ \/ Found(c.bot) /\ Becomes(c, [c EXCEPT !.at = "read", !.got = config[c.bot]]) /\ UNCHANGED events
     \/ ~Found(c.bot) /\ Becomes(c, [c EXCEPT !.at = "read"]) /\ UNCHANGED events
     \/ Event /\ Becomes(c, [c EXCEPT !.at = "read"])
  /\ UNCHANGED <<daemon, screen>>

\* Mutant: a refresh that failed leaves the dashboard loading.
TakeRefreshOrLoad(c) ==
  /\ Ends(c)
  /\ IF c.scope # scope THEN UNCHANGED <<loading, snap, form>>
     ELSE /\ loading' = (loading /\ c.got = Nothing)
          /\ snap' = IF c.got = Nothing THEN snap ELSE c.got
          /\ form' = Sync(form, c.got)
  /\ UNCHANGED <<daemon, selection, events>>

\* refreshMsg.  A later request may have failed: what was read is taken all
\* the same, and the error is shown.
TakeRefresh(c) ==
  /\ Ends(c)
  /\ IF c.scope # scope THEN UNCHANGED <<loading, snap, form>>
     ELSE /\ loading' = FALSE
          /\ snap' = IF c.got = Nothing THEN snap ELSE c.got
          /\ form' = Sync(form, c.got)
  /\ UNCHANGED <<daemon, selection, events>>

-----------------------------------------------------------------------------
\* Saves

\* buildBotConfigFromFields: the snapshot's configuration with the edits.
Edited(c) == [f \in Fields |-> IF f \in DOMAIN c.edits THEN c.edits[f] ELSE c.base.vals[f]]

\* decodeRequest: the revision must be there, and it is that of the snapshot.
Decodes(c) == c.base # Nothing

\* Mutant: the revision is not compared.
AcceptsAny(c) == Found(c.bot) /\ Decodes(c)

\* Manager.Update: the revision is the stored one.
Accepts(c) == Found(c.bot) /\ Decodes(c) /\ c.base.rev = config[c.bot].rev

UpdateStored(c) ==
  config' = [config EXCEPT ![c.bot].vals = Edited(c), ![c.bot].rev = @ + 1]

\* The PUT reaches the daemon, which stores it or refuses it.  It may refuse
\* for the Bot's state or an invalid value, and the request may be lost.
RunSave(c) ==
  LET answered(r) == IF c.at = "late" THEN Ends(c) ELSE Becomes(c, [c EXCEPT !.at = r])
  IN  /\ \/ /\ Accepts(c)
            /\ UpdateStored(c) /\ answered("stored") /\ UNCHANGED events
         \/ ~Accepts(c) /\ answered("refused") /\ UNCHANGED <<config, events>>
         \/ Event /\ answered("refused") /\ UNCHANGED config
      /\ UNCHANGED <<listed, screen>>

\* The client gives up waiting; the daemon may still take the request.
SaveTimesOut(c) ==
  /\ Event /\ Becomes(c, [c EXCEPT !.at = "late"])
  /\ UNCHANGED <<daemon, screen>>

\* configSaveMsg.  A success clears every mark and starts a refresh.
SaveDone(c) ==
  /\ IF c.scope = scope
     THEN /\ form' = [form EXCEPT !.changed = {}, !.dirty = FALSE]
          /\ Becomes(c, Refresh(botID, scope))
     ELSE Ends(c) /\ UNCHANGED form
  /\ UNCHANGED <<daemon, selection, loading, snap, events>>

\* An error only shows its text; the answer of a save that was stored may be
\* lost as well.
SaveFailed(c) ==
  /\ Ends(c)
  /\ IF c.at = "refused" THEN UNCHANGED events ELSE Event
  /\ UNCHANGED <<daemon, screen>>

-----------------------------------------------------------------------------
\* Listings

RunListing(c) ==
  /\ Becomes(c, [c EXCEPT !.at = "read", !.got = listed])
  /\ UNCHANGED <<daemon, screen, events>>

\* botsMsg.  Off the selection page it settles which Bot is selected, also
\* when the operator has left that page in the meantime.
TakeListing(c) ==
  LET id == Resolved(botID, c.got)
      rest == BagRemove(commands, c)
  IN  /\ bots' = c.got
      /\ IF botID = Nobody \/ selecting
         THEN /\ loading' = FALSE /\ commands' = rest
              /\ UNCHANGED <<botID, selecting, scope, snap, form>>
         ELSE IF id = {}
         THEN /\ loading' = FALSE /\ selecting' = TRUE /\ commands' = rest
              /\ UNCHANGED <<botID, scope, snap, form>>
         ELSE \E b \in id : SelectBot(b, rest)
      /\ UNCHANGED <<daemon, events>>

ListingFails(c) ==
  /\ Event /\ Ends(c) /\ loading' = FALSE
  /\ UNCHANGED <<daemon, selection, snap, form>>

-----------------------------------------------------------------------------
\* Other clients of the daemon

OtherUpdate(b, f, v) ==
  /\ Event /\ b \in listed
  /\ b \in Console => f \notin AgentOnly
  /\ config' = [config EXCEPT ![b].vals[f] = <<b, v>>, ![b].rev = @ + 1]
  /\ UNCHANGED <<listed, screen, commands>>

-----------------------------------------------------------------------------
Keys ==
  \/ PressRefresh \/ PressList \/ LeaveList \/ PressSave
  \/ \E b \in Names : Choose(b)
  \/ \E f \in Fields : StartEdit(f)
  \/ \E confirmed \in BOOLEAN : EndEdit(confirmed)

Refreshes ==
  \/ \E c \in OfKind("refresh", "sent") : ReadConfig(c)
  \/ \E c \in OfKind("refresh", "read") : TakeRefresh(c)
Saves ==
  \/ \E c \in OfKind("save", "sent") \cup OfKind("save", "late") : RunSave(c)
  \/ \E c \in OfKind("save", "sent") : SaveTimesOut(c)
  \/ \E c \in OfKind("save", "stored") : SaveDone(c) \/ SaveFailed(c)
  \/ \E c \in OfKind("save", "refused") : SaveFailed(c)
Listings ==
  \/ \E c \in OfKind("list", "sent") : RunListing(c) \/ ListingFails(c)
  \/ \E c \in OfKind("list", "read") : TakeListing(c)

Others ==
  \/ \E b \in Names, f \in Fields : OtherUpdate(b, f, "other")
  \/ \E b \in Names, f \in Optional : OtherUpdate(b, f, "unset")

DashboardNext == Keys \/ Tick \/ Refreshes \/ Saves \/ Listings \/ Others

\* The event loop delivers every message and re-arms the tick; commands end
\* because their requests have a timeout.  Keys and other clients owe nothing.
DashboardSpec == DashboardInit /\ [][DashboardNext]_dashboardVars
LiveDashboardSpec ==
  /\ DashboardSpec /\ WF_dashboardVars(Tick) /\ WF_dashboardVars(Refreshes)
  /\ WF_dashboardVars(Saves) /\ WF_dashboardVars(Listings)

-----------------------------------------------------------------------------
(* The types of the variables. *)
DashboardTypeOK ==
  /\ config \in [Names -> Configs] /\ listed \subseteq Names
  /\ botID \in Selections /\ selecting \in BOOLEAN /\ bots \subseteq Names
  /\ scope \in Nat /\ loading \in BOOLEAN
  /\ snap \in {Nothing} \cup Configs
  /\ form \in [shown : SUBSET Fields, val : [Fields -> Value], changed : SUBSET Fields,
               editing : Fields \cup {Nothing}, dirty : BOOLEAN]
  /\ IsABag(commands)

(* What is shown and edited is the selected Bot's: no answer of a Bot that
   was selected before reaches the snapshot or the form, no save carries one
   Bot's values to another, and no Bot's configuration ever gets the value of
   another (scope in Update and selectBot; docs/cli.md:168). *)
BotsKeptApart ==
  /\ snap # Nothing => snap.bot = botID
  /\ \A f \in Fields : form.val[f][1] \in {botID, Nobody}
  /\ \A c \in BagToSet(commands) : c.kind = "save" =>
       /\ c.base # Nothing => c.base.bot = c.bot
       /\ \A f \in DOMAIN c.edits : c.edits[f][1] = c.bot
  /\ \A b \in Names, f \in Fields : config[b].vals[f][1] = b

(* A save changes what the operator edited and nothing else: a change that
   another client made since the snapshot is never undone by it, though the
   whole configuration is sent and the snapshot, the form and the daemon's
   copy are of three different moments (the revision in Manager.Update, the
   Changed marks in buildBotConfigFromFields). *)
OthersWorkStays ==
  [][\A b \in Names, f \in Fields :
       config[b].vals[f][2] = "other" /\ config'[b].vals[f] # config[b].vals[f]
         => config'[b].vals[f][2] \in {"typed", "unset"}]_dashboardVars

(* The screen catches up: once nobody changes the configuration, the snapshot
   of a selected Bot the daemon has is and stays the stored one, although
   refreshes fail, overtake each other and are dropped with their scope.  The
   form follows when the operator stops editing, but for the fields marked as
   changed and those the daemon omits. *)
Watching == ~selecting /\ botID \in listed
SnapshotCurrent == Watching => snap = config[botID]
FormCurrent ==
  Watching => \A f \in form.shown \ form.changed :
                config[botID].vals[f][2] # "unset" => form.val[f] = config[botID].vals[f]
EventuallyCurrent ==
  /\ <>[]SnapshotCurrent
  /\ <>[](form.editing = Nothing) => <>[]FormCurrent

(* A field stops being marked as unsaved only when the value in it is stored
   or the operator selects a Bot: "Unsaved changes. Press S to save." and
   "Saved selected Bot configuration." (configView, configSaveMsg).  The code
   does not keep it: the success of a save clears later edits' marks too. *)
UnsavedIsMarked ==
  [][\A f \in Fields :
       f \in form.changed \ form'.changed /\ scope' = scope
         => config[botID].vals[f] = form.val[f]]_dashboardVars
=============================================================================
