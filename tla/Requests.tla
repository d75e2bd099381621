------------------------------- MODULE Requests -------------------------------
(***************************************************************************)
(* One entity request on its way through dispatch (routes/mod.rs), access   *)
(* control (auth.rs), the write queue and the services, while reloads       *)
(* change the configuration under it.  Every step that looks at the         *)
(* registry takes the one in service at that moment, except that a request  *)
(* keeps the schema it was dispatched with.  What the write then does is    *)
(* RecordTx; how a job reaches a worker, and its retries, are WriteQueue.   *)
(***************************************************************************)
EXTENDS Naturals, Sequences, FiniteSets, TLC

CONSTANTS
  Param,
  Rules,      \* generation -> the rules of rules.json
  Schemas,    \* generation -> the entity: [enabled, table, required]
  Callers,    \* claims: [id, roles]
  Calls,      \* [service, method, path, columns] a client may ask
  QueueOn     \* WRITE_QUEUE_ENABLED

Access == INSTANCE AccessRules

VARIABLES
  gen,        \* generation in service
  call, caller, queued, \* the request; ?isqueue=true
  pc,
  method,     \* method under which it runs
  columns,    \* columns of the body, or of the page
  since,      \* generation in service when it began, or was taken from the queue
  schema,     \* generation of the schema it was dispatched with
  checked,    \* generation of the rules that admitted it
  filter,     \* generation of the rules that restricted its columns
  job         \* it has been through the queue

vars == <<gen, call, caller, queued, pc, method, columns, since, schema, checked, filter, job>>
asked == <<call, caller, queued>>

Generations == DOMAIN Rules
None == 0

Init ==
  /\ gen = 1
  /\ call \in Calls /\ caller \in Callers /\ queued \in BOOLEAN
  /\ queued => QueueOn /\ call.service \notin {"read", "procedure"}
  /\ pc = "new" /\ method = call.method /\ columns = call.columns
  /\ since = 1 /\ schema = None /\ checked = None /\ filter = None /\ job = FALSE

\* A reload swaps in the next configuration.
Reload ==
  /\ gen + 1 \in Generations
  /\ gen' = gen + 1
  /\ UNCHANGED <<asked, pc, method, columns, since, schema, checked, filter, job>>

Ended(answer) == pc' = answer

\* The switch in the schema that each resource looks at.
Switch ==
  CASE call.service = "create" -> "post"
    [] call.service = "update" -> "put"
    [] call.service = "delete" -> "del"
    [] call.service = "procedure" -> "patch"
    [] call.service = "read" -> "get"

Resolve ==
  /\ pc = "new"
  /\ schema' = gen
  /\ IF Switch \in Schemas[gen].enabled THEN pc' = "resolved" ELSE Ended("disabled")
  /\ UNCHANGED <<gen, asked, method, columns, since, checked, filter, job>>

CheckAccess ==
  /\ pc = "resolved"
  /\ IF Access!Permits(Rules[gen], caller, call.path, method)
       THEN pc' = "permitted" /\ checked' = gen
       ELSE Ended("denied") /\ UNCHANGED checked
  /\ UNCHANGED <<gen, asked, method, columns, since, schema, filter, job>>

RestrictedTo == Access!Restrictions(Rules[gen], caller, call.path, method)

Restricts == call.service \in {"create", "update"}

\* Columns that the services add: the actor's id, and the version of If-Match.
Injected == IF call.service = "create" THEN {"created_by_id"}
            ELSE IF call.service = "update" THEN {"__actor_id__"} ELSE {}

\* Mutant: the body is restricted after the columns of the service are in it.
RestrictInjected ==
  /\ pc = "permitted" /\ call.service # "read"
  /\ filter' = gen
  /\ IF Restricts => Access!FieldsPass(RestrictedTo, columns \cup Injected)
       THEN pc' = "entered" ELSE Ended("denied")
  /\ UNCHANGED <<gen, asked, method, columns, since, schema, checked, job>>

\* enforce_allowed_fields, which looks the rules up again.
Restrict ==
  /\ pc = "permitted" /\ call.service # "read"
  /\ filter' = gen
  /\ IF Restricts => Access!FieldsPass(RestrictedTo, columns)
       THEN pc' = "entered" ELSE Ended("denied")
  /\ UNCHANGED <<gen, asked, method, columns, since, schema, checked, job>>

\* A page is projected to the allowed columns; unrestricted ones may be shared.
Show ==
  /\ pc = "permitted" /\ call.service = "read"
  /\ filter' = gen
  /\ columns' = Access!Retained(RestrictedTo, columns)
  /\ IF Schemas[schema].table THEN Ended("done") ELSE Ended("rejected")
  /\ UNCHANGED <<gen, asked, method, since, schema, checked, job>>

Enqueue ==
  /\ pc = "entered" /\ queued /\ ~job
  /\ columns' = columns \cup Injected
  /\ pc' = "queued"
  /\ UNCHANGED <<gen, asked, method, since, schema, checked, filter, job>>

EnqueueFails ==
  /\ pc = "entered" /\ queued /\ ~job
  /\ Ended("failed")
  /\ UNCHANGED <<gen, asked, method, columns, since, schema, checked, filter, job>>

\* Mutant: a job that was authorised when it was accepted runs as it is.
TakeAuthorised ==
  /\ pc = "queued"
  /\ job' = TRUE /\ pc' = "entered"
  /\ since' = gen /\ schema' = gen
  /\ method' = IF call.service = "update" THEN "PUT" ELSE method
  /\ UNCHANGED <<gen, asked, columns, checked, filter>>

\* execute_job: the schema in service, whatever its switches say, and a
\* request made up from the job.  A queued PATCH is a PUT.
Take ==
  /\ pc = "queued"
  /\ job' = TRUE /\ pc' = "resolved"
  /\ since' = gen /\ schema' = gen
  /\ method' = IF call.service = "update" THEN "PUT" ELSE method
  /\ UNCHANGED <<gen, asked, columns, checked, filter>>

\* Keys that the schema does not list are passed over; the columns it marks
\* with *, or that only the body can fill, must be there.
Acceptable(s) ==
  Schemas[s].table /\ (call.service # "delete" => Schemas[s].required[call.service] \subseteq columns)

Perform ==
  /\ pc = "entered" /\ (queued => job)
  /\ IF Acceptable(schema) THEN Ended("done") ELSE Ended("rejected")
  /\ UNCHANGED <<gen, asked, method, columns, since, schema, checked, filter, job>>

PerformFails ==
  /\ pc = "entered" /\ (queued => job)
  /\ Ended("failed")
  /\ UNCHANGED <<gen, asked, method, columns, since, schema, checked, filter, job>>

Next ==
  \/ Reload
  \/ Resolve \/ CheckAccess \/ Restrict \/ Show
  \/ Enqueue \/ EnqueueFails \/ Take
  \/ Perform \/ PerformFails

----------------------------------------------------------------------------
(* Properties *)

\* check_access and the restriction read the registry one after the other.
OneRegistry == checked = filter

\* Whether the rules of a generation let the caller do this with these columns.
Admits(g, verb, cols) ==
  /\ Access!Permits(Rules[g], caller, call.path, verb)
  /\ Restricts \/ call.service = "read" =>
       Access!FieldsPass(Access!Restrictions(Rules[g], caller, call.path, verb), cols)

\* README 8 and 25.4: what a caller wrote or was shown, rules that were in
\* service since the request began, or since its job was taken, admit, with all
\* its columns, unless a reload fell between the two looks at the rules; and it
\* fits a schema of that time.
DoneUnderRules ==
  pc = "done" =>
    /\ OneRegistry => checked >= since /\ Admits(checked, method, columns)
    /\ schema >= since /\ Schemas[schema].table

\* What every configuration in service since the start admits as it was asked is
\* not refused; a queued write may be, when columns that the service added meet
\* a restriction, or a PATCH has become a PUT.
RefusedForCause ==
  pc = "denied" =>
    \/ \E g \in 1..gen : ~Admits(g, call.method, call.columns)
    \/ job /\ (columns # call.columns \/ method # call.method)

===============================================================================
