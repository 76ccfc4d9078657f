------------------------------ MODULE CreateTask ------------------------------
(***************************************************************************)
(* The dialog that creates tasks, components/CreateTaskDialog.tsx, on one  *)
(* page: the form with its fields and routing, the templates it shares     *)
(* with other tabs through localStorage, the request under way, and the    *)
(* server that validates and routes it (create_task, task_router.py).      *)
(***************************************************************************)
EXTENDS TaskOptions, Sequences, SequencesExt

CONSTANTS
  None,
  Types,         \* the types picked in a run, of TaskTypes
  Targets,       \* the targets typed, of TargetKinds
  Agents,
  CapsOf,        \* what each agent can run; nothing listed means everything
  TagsOf,        \* its tags
  Tags,
  Pages,         \* the pages with the dialog: what each prefills the form with
  Names,         \* names of templates
  MaxTemplates,  \* templates kept
  MaxListed,     \* templates the dialog shows
  MaxRecents,    \* recent targets kept
  MaxEdits,      \* bound: changes of the form
  MaxEvents      \* bound: templates saved, agents going, requests

ASSUME CreateAssumption ==
  /\ Types \subseteq TaskTypes /\ Targets \subseteq TargetKinds
  /\ CapsOf \in [Agents -> SUBSET TaskTypes] /\ TagsOf \in [Agents -> SUBSET Tags]
  /\ MaxTemplates \in Nat /\ MaxListed \in Nat /\ MaxRecents \in Nat
  /\ MaxEdits \in Nat /\ MaxEvents \in Nat

\* What the dialog may open with.
Openings == UNION Pages

\* Nothing, an agent to run on, or a task to run again, with its options.
ASSUME OpeningsAssumption ==
  \A initial \in Openings :
    /\ DOMAIN initial \in {{}, {"mode", "ids"}, {"type", "target", "opts", "mode", "ids"}}
    /\ "mode" \in DOMAIN initial =>
         initial.mode = "agents" /\ initial.ids \in SUBSET Agents
    /\ "type" \in DOMAIN initial =>
         /\ initial.type \in TaskTypes /\ initial.target \in TargetKinds
         /\ OptionsFit(initial.type, initial.opts)

VARIABLES
  active,     \* the server's active agents
  known,      \* those the page knows of
  page,       \* what this page opens the dialog with
  opened,     \* the dialog is open
  form,       \* its fields
  pending,    \* the request under way
  templates,  \* saved templates, newest first, for all tabs
  menu,       \* the dialog's copy of them
  recents,    \* recent targets, newest first
  group,      \* the tasks just created, or the refusal
  edits, events

dialogVars == <<page, active, known, opened, form, pending, templates, menu, recents,
               group, edits, events>>

\* The answer is told apart from what comes after it.
Later == group' = None
Event == events < MaxEvents /\ events' = events + 1 /\ Later
Edit  == opened /\ edits < MaxEdits /\ edits' = edits + 1 /\ Later

\* mutant: any agent can be ticked
OffersAll(a, type) == TRUE

\* The agents the form lets a user tick, and those the server takes.
Offers(a, type) == CapsOf[a] = {} \/ type \in CapsOf[a]
Supports(a, type) == CapsOf[a] # {} => type \in CapsOf[a]

-----------------------------------------------------------------------------
(* The form.                                                               *)

Blank(on) ==
  [type |-> "ping", target |-> "public4", opts |-> <<>>, mode |-> "agents",
   ids |-> on, tags |-> {}, perTag |-> 1]

\* Prefilled values replace the fields they name; those of the mode left out
\* stay, except that agents clear the tags.
Hydrated(f, initial) ==
  Over(initial, IF "mode" \in DOMAIN initial /\ initial.mode = "agents"
                THEN [f EXCEPT !.tags = {}] ELSE f)

\* A template likewise, but it clears nothing.
Applied(f, data) == Over(data, f)

DialogInit ==
  /\ page \in Pages
  /\ active = Agents
  /\ known \in {{}, Agents}
  /\ opened = FALSE
  /\ form \in IF known = {} THEN {Blank({})} ELSE {Blank({a}) : a \in known}
  /\ pending = None
  /\ templates = <<>> /\ menu = <<>>
  /\ recents = <<>>
  /\ group = None
  /\ edits = 0 /\ events = 0

Open(initial) ==
  /\ ~ opened
  /\ opened' = TRUE
  /\ form' = Hydrated(form, initial)
  /\ menu' = templates
  /\ Later
  /\ UNCHANGED <<page, active, known, pending, templates, recents, edits,
                 events>>

Close ==
  /\ opened
  /\ opened' = FALSE
  /\ Later
  /\ UNCHANGED <<page, active, known, form, pending, templates, menu, recents,
                 edits, events>>

Change(f) ==
  /\ Edit
  /\ form' = f
  /\ UNCHANGED <<page, active, known, opened, pending, templates, menu,
                 recents, events>>

\* mutant: the other type's options stay
OnChangeTypeKeeps(type) ==
  Change([form EXCEPT !.type = type, !.target = TargetFor(type, @)])

OnChangeType(type) ==
  Change([form EXCEPT !.type = type, !.opts = <<>>, !.target = TargetFor(type, @)])

SetTarget(t) == Change([form EXCEPT !.target = t])

\* A field of the type.
SetOption(k, v) == Change([form EXCEPT !.opts = Over([x \in {k} |-> v], @)])

\* Only active agents are listed, and those without the capability cannot be
\* ticked, nor unticked.
ToggleAgent(a) ==
  /\ form.mode = "agents"
  /\ a \in known
  /\ Offers(a, form.type)
  /\ Change([form EXCEPT !.ids = (@ \ {a}) \union ({a} \ @)])

SetMode(mode) == mode # form.mode /\ Change([form EXCEPT !.mode = mode])

\* Tags are typed, or taken from those of the agents on offer.
ToggleTag(g) ==
  form.mode = "tags" /\ Change([form EXCEPT !.tags = (@ \ {g}) \union ({g} \ @)])
SetAgentsPerTag(n) == form.mode = "tags" /\ Change([form EXCEPT !.perTag = n])

FieldValues(k) == Fields(form.type, form.opts)[k].try

EditForm ==
  \/ \E type \in Types : OnChangeType(type)
  \/ \E t \in Targets : SetTarget(t)
  \/ \E k \in DOMAIN Fields(form.type, form.opts) :
       \E v \in FieldValues(k) : SetOption(k, v)
  \/ \E a \in Agents : ToggleAgent(a)
  \/ \E mode \in {"agents", "tags"} : SetMode(mode)
  \/ \E g \in Tags : ToggleTag(g)
  \/ \E n \in 1..2 : SetAgentsPerTag(n)

-----------------------------------------------------------------------------
(* Templates.                                                              *)

\* mutant: the options stay behind
DataNoOptions(f) ==
  IF f.mode = "agents"
  THEN [type |-> f.type, target |-> f.target, mode |-> f.mode, ids |-> f.ids]
  ELSE [type |-> f.type, target |-> f.target, mode |-> f.mode,
        tags |-> f.tags, perTag |-> f.perTag]

Data(f) ==
  IF f.mode = "agents"
  THEN [type |-> f.type, target |-> f.target, opts |-> f.opts, mode |-> f.mode,
        ids |-> f.ids]
  ELSE [type |-> f.type, target |-> f.target, opts |-> f.opts, mode |-> f.mode,
        tags |-> f.tags, perTag |-> f.perTag]

\* What a form would ask the server for.
Request(f) ==
  IF f.mode = "agents"
  THEN [type |-> f.type, target |-> f.target, opts |-> f.opts, ids |-> f.ids]
  ELSE [type |-> f.type, target |-> f.target, opts |-> f.opts,
        tags |-> f.tags, perTag |-> f.perTag]

Cut(list, n) == SubSeq(list, 1, IF Len(list) < n THEN Len(list) ELSE n)

\* Kept first, in the place of its name, or cut off at the end.  `asked` is
\* history: the request of the form it was made of.
Saved(list, name, f) ==
  LET at == {i \in DOMAIN list : list[i].name = name}
      entry == [id |-> IF at = {} THEN events ELSE list[CHOOSE i \in at : TRUE].id,
                name |-> name, data |-> Data(f), asked |-> Request(f)]
      all == IF at # {} THEN [i \in DOMAIN list |-> IF i \in at THEN entry ELSE list[i]]
             ELSE <<entry>> \o list
  IN Cut(all, MaxTemplates)

\* Without the one entry that is at `at`, if it is anywhere.
Without(list, at) == IF at = {} THEN list ELSE RemoveAt(list, CHOOSE i \in at : TRUE)

CanSubmit == /\ ValidateTargetFor(form.type, form.target)
             /\ IF form.mode = "agents" THEN form.ids # {} ELSE form.tags # {}

\* The dialog reads the templates again after a change of its own.
OnSaveTemplate(name) ==
  /\ opened
  /\ CanSubmit
  /\ Event
  /\ templates' = Saved(templates, name, form)
  /\ menu' = templates'
  /\ UNCHANGED <<page, active, known, opened, form, pending, recents, edits>>

Listed == {i \in DOMAIN menu : i <= MaxListed}

ApplyTemplate(i) == Change(Applied(form, menu[i].data))

OnDeleteTemplate(i) ==
  /\ opened
  /\ Event
  /\ templates' = Without(templates, {j \in DOMAIN templates : templates[j].id = menu[i].id})
  /\ menu' = templates'
  /\ UNCHANGED <<page, active, known, opened, form, pending, recents, edits>>

\* Another tab saves what its form holds, or deletes.
SavedElsewhere(name, f) ==
  /\ Event
  /\ templates' = Saved(templates, name, f)
  /\ UNCHANGED <<page, active, known, opened, form, pending, menu, recents,
                 edits>>
DeletedElsewhere(i) ==
  /\ Event
  /\ templates' = RemoveAt(templates, i)
  /\ UNCHANGED <<page, active, known, opened, form, pending, menu, recents,
                 edits>>

-----------------------------------------------------------------------------
(* The request.                                                            *)

\* A click on "create" or Enter; an empty target the browser refuses.  History: what the fields showed, what the
\* preview named, and whether the page knew the agents as they are.
OnSubmit ==
  /\ opened
  /\ pending = None
  /\ CanSubmit /\ form.target # "nothing"
  /\ Event
  /\ pending' = [ask |-> Request(form), sure |-> known = active,
                 shown |-> Displayed(form.type, form.opts),
                 previewed |-> Previewed(form.type, form.opts),
                 offered |-> form.mode = "agents" /\ \A a \in form.ids :
                               a \in known /\ Offers(a, form.type)]
  /\ UNCHANGED <<page, active, known, opened, form, templates, menu, recents,
                 edits>>

\* resolve_agents: the agents named, or as many of each tag as are asked for.
Routings(ask) ==
  IF "ids" \in DOMAIN ask THEN {ask.ids}
  ELSE {S \in SUBSET active : \A g \in ask.tags :
          LET all == {a \in active : g \in TagsOf[a]}
          IN all # {} /\ Cardinality(S \intersect all)
                           >= (IF Cardinality(all) < ask.perTag
                               THEN Cardinality(all) ELSE ask.perTag)}
Routable(ask, S) ==
  S # {} /\ \A a \in S : a \in active /\ Supports(a, ask.type)

Accepts(ask, S) ==
  /\ ServerTakesTarget(ask.target)
  /\ OptionsOk(ask.type, ask.opts)
  /\ Routable(ask, S)

\* The target in the form by now becomes the most recent one, wherever it was.
Recents(t) ==
  IF t \in {"nothing", "blank"} THEN recents
  ELSE Cut(<<t>> \o Without(recents, {i \in DOMAIN recents : recents[i] = t}), MaxRecents)

Created(S) ==
  /\ pending # None
  /\ Accepts(pending.ask, S)
  /\ group' = [target |-> Normalised(pending.ask.target), on |-> S,
               opts |-> Taken(pending.ask.type, pending.ask.opts),
               shown |-> pending.shown, previewed |-> pending.previewed,
               ask |-> pending.ask]
  /\ recents' = Recents(form.target)
  /\ opened' = FALSE
  /\ pending' = None
  /\ UNCHANGED <<page, active, known, form, templates, menu, edits, events>>

Refusals == {"limited", "lost", "target", "unresolved", "options", "agents"}

\* Too many requests, an answer that is lost (tasks may have been created), and
\* what is wrong with the request, in the order the server looks.
Refusable(ask, why) ==
  \/ why \in {"limited", "lost"}
  \/ why = "target" /\ ~ ServerTakesTarget(ask.target)
  \/ why = "unresolved" /\ Resolves(ask.target)
  \/ /\ ServerTakesTarget(ask.target)
     /\ \/ why = "options" /\ ~ OptionsOk(ask.type, ask.opts)
        \/ /\ why = "agents" /\ OptionsOk(ask.type, ask.opts)
           /\ \/ Routings(ask) = {}
              \/ \E S \in Routings(ask) : ~ Routable(ask, S)

RefusedTask(why) ==
  /\ pending # None
  /\ Refusable(pending.ask, why)
  /\ group' = [refused |-> why, ask |-> pending.ask,
               sure |-> pending.sure, offered |-> pending.offered]
  /\ pending' = None
  /\ UNCHANGED <<page, active, known, opened, form, templates, menu, recents,
                 edits, events>>

\* An administrator disables or enables an agent; the page refetches.
AgentChanges(a) ==
  /\ Event
  /\ active' = (active \ {a}) \union ({a} \ active)
  /\ pending' = IF pending = None THEN None ELSE [pending EXCEPT !.sure = FALSE]
  /\ UNCHANGED <<page, known, opened, form, templates, menu, recents, edits>>

AgentsFetched ==
  /\ known # active
  /\ known' = active
  /\ Later
  /\ UNCHANGED <<page, active, opened, form, pending, templates, menu, recents,
                 edits, events>>

DialogNext ==
  \/ \E initial \in page : Open(initial)
  \/ Close
  \/ EditForm
  \/ \E name \in Names : OnSaveTemplate(name)
  \/ \E i \in Listed : ApplyTemplate(i) \/ OnDeleteTemplate(i)
  \/ \E name \in Names : SavedElsewhere(name, Blank(Agents))
  \/ \E i \in DOMAIN templates : DeletedElsewhere(i)
  \/ OnSubmit
  \/ pending # None /\ \E S \in Routings(pending.ask) : Created(S)
  \/ \E why \in Refusals : RefusedTask(why)
  \/ \E a \in Agents : AgentChanges(a)
  \/ AgentsFetched

DialogSpec == DialogInit /\ [][DialogNext]_dialogVars

-----------------------------------------------------------------------------
(* Properties.                                                             *)

IsRefusal(g) == g # None /\ "refused" \in DOMAIN g
IsGroup(g)   == g # None /\ ~ IsRefusal(g)

Routed(f) == IF f.mode = "agents" THEN f.ids \in SUBSET Agents
             ELSE f.tags \in SUBSET Tags /\ f.perTag \in 1..20
Asks(f)   == f.type \in TaskTypes /\ f.target \in TargetKinds /\ OptionsFit(f.type, f.opts)

IsForm(f) ==
  /\ DOMAIN f = {"type", "target", "opts", "mode", "ids", "tags", "perTag"}
  /\ Asks(f)
  /\ f.mode \in {"agents", "tags"}
  /\ f.ids \in SUBSET Agents /\ f.tags \in SUBSET Tags /\ f.perTag \in 1..20

IsData(d) ==
  /\ DOMAIN d = {"type", "target", "opts", "mode"} \union
                  (IF d.mode = "agents" THEN {"ids"} ELSE {"tags", "perTag"})
  /\ Asks(d)
  /\ d.mode \in {"agents", "tags"}
  /\ Routed(d)

IsList(list) ==
  /\ list \in Seq(ToSet(list)) /\ Len(list) <= MaxTemplates
  /\ \A i \in DOMAIN list : list[i].name \in Names /\ IsData(list[i].data)
  /\ \A i, j \in DOMAIN list : list[i].name = list[j].name => i = j

(* Every variable has its type: the form offers options the server knows, a *)
(* request is one of a form, no two templates share a name, no recent       *)
(* target comes twice.                                                      *)
DialogTypeOK ==
  /\ page \in Pages /\ active \subseteq Agents /\ known \subseteq Agents
  /\ opened \in BOOLEAN
  /\ IsForm(form)
  /\ pending # None =>
       /\ DOMAIN pending = {"ask", "sure", "shown", "previewed", "offered"}
       /\ Asks(pending.ask) /\ pending.sure \in BOOLEAN /\ pending.offered \in BOOLEAN
  /\ IsList(templates) /\ IsList(menu)
  /\ recents \in Seq(TargetKinds) /\ Len(recents) <= MaxRecents
  /\ \A i, j \in DOMAIN recents : recents[i] = recents[j] => i = j
  /\ edits \in 0..MaxEdits /\ events \in 0..MaxEvents

(* A template, applied to any form, asks for exactly what the form asked    *)
(* for that it was saved from, be it in the storage or still on the menu of *)
(* a dialog that another tab's changes passed by                            *)
(* (CreateTaskDialog.tsx:138-168).                                          *)
TemplatesReproduce ==
  \A list \in {templates, menu} : \A i \in DOMAIN list :
    Request(Applied(form, list[i].data)) = list[i].asked

\* A task run again brings the options it had, those no field shows included.
Rerun(type, k, v) ==
  \E initial \in Openings :
    /\ "type" \in DOMAIN initial /\ initial.type = type
    /\ k \in DOMAIN initial.opts /\ initial.opts[k] = v

(* A task that runs does so with the options its form showed and the ones   *)
(* its preview named when it was submitted, those left at their defaults    *)
(* included, and on the agents ticked: the form's, the preview's and the    *)
(* server's defaults are written down apart (TypeFields.tsx,                *)
(* commandPreview.ts:4-6, task_params.py).  What the form does not show is  *)
(* the server's default or that of a task run again, never a leftover of    *)
(* another type or of a field since gone.  A menu that lacks what a task    *)
(* run again brings shows another entry; the preview does not.  The target  *)
(* is the one typed, but for the capitals of a URL.                         *)
RunsWhatWasShown ==
  IsGroup(group) =>
    LET ask == group.ask IN
    /\ \A k \in DOMAIN group.shown :
         \/ group.opts[k] = group.shown[k]
         \/ /\ k \in Menus /\ group.opts[k] \notin TypeFields[ask.type][k].vals
            /\ Rerun(ask.type, k, group.opts[k])
    /\ \A k \in DOMAIN group.previewed : group.opts[k] = group.previewed[k]
    /\ \A k \in DOMAIN group.opts \ DOMAIN group.shown :
         \/ group.opts[k] = Params(ask.type, ask.opts)[k].def
         \/ Rerun(ask.type, k, group.opts[k])
    /\ group.target = ask.target \/ ask.target = "casedUrl"
    /\ "ids" \in DOMAIN ask => group.on = ask.ids

\* Targets that the browser lets through though the server takes them never.
LetThrough(type) ==
  {"blank", "reserved4", "reserved6"}
    \union (IF type = "dns" THEN {"underscored", "private4"} ELSE {})
    \union (IF type \in {"http_check", "tls_check"} THEN {"longUrl"} ELSE {})

(* What the form offers the server does not refuse, but for what is listed  *)
(* here: a few kinds of target that only the server's check keeps out;      *)
(* texts that are too long, no ports, too many of them, or those the form   *)
(* shows and does not send; agents that were not all on offer or that the   *)
(* page no longer had as they were.  No other option, target or agent is    *)
(* refused (RoutingPicker.tsx:64-92, fields.tsx, targetValidator.ts,        *)
(* against targets.py, task_params.py, task_router.py:26-50).               *)
OfferedIsAccepted ==
  IsRefusal(group) =>
    LET ask == group.ask
        params == Params(ask.type, ask.opts)
        taken == Taken(ask.type, ask.opts)
    IN /\ group.refused = "target" => ask.target \in LetThrough(ask.type)
       /\ group.refused = "options" =>
            \A k \in DOMAIN params :
              \/ taken[k] \in params[k].vals \union Beyond(k)
              \/ k = "ports" /\ k \notin DOMAIN ask.opts
       /\ group.refused = "agents" => ~ (group.sure /\ group.offered)

=============================================================================
