--------------------------------- MODULE Mcp ---------------------------------
(***************************************************************************)
(* A tool call of the MCP server (mcp/) beside the REST request it stands   *)
(* for, while reloads change the entities and the rules, and the client may *)
(* cancel.  A tool takes the registry three times: to list itself, to find  *)
(* its entity, and, in the service, to look at the rules.  What a service   *)
(* does to a request it admits is Requests, FieldValues and RecordTx.       *)
(***************************************************************************)
EXTENDS Integers, Sequences, FiniteSets

CONSTANTS
  Param,
  Worlds,     \* generation -> [rules, entity: name -> [enabled: set of operations, declared]]
  CoreTables, PublicRoutes,
  ToolCalls,  \* [op, entity, id, data, params, nulls, limit] a client may ask
  Holder,     \* claims of its token: [id, roles]
  MaxRows, Secret, \* MCP_MAX_ROWS, MCP_REDACT_FIELDS
  MaxFound,   \* rows a query finds
  Cut, Unfit  \* ids with a '?' or '#': the part before it; and ids no URI can hold

Access == INSTANCE AccessRules

VARIABLES
  world,                          \* generation in service
  transport, requireAuth, writeTools,
  token,                          \* good, or ended: expired or revoked
  offered,                        \* what list_entities said last: [world, ops]
  tool, opened, taken, ruled,     \* the call; generations when it came, found its entity, met the rules
  at,                             \* where it is
  used, ignored,                  \* parameters handed to the service, and not
  effect, stale,                  \* what it did (unsure: its COMMIT was not answered); pages from
                                  \* before it are still served
  reply, given                    \* the answer, and its rows

fixed == <<transport, requireAuth, writeTools>>
vars == <<world, fixed, token, offered, tool, opened, taken, ruled, at, used, ignored, effect, stale, reply, given>>

Ops == {"read", "create", "update", "patch", "delete", "run_procedure", "validate"}
Writes == Ops \ {"read", "validate"}
NoRows == [count |-> 0, truncated |-> FALSE, columns |-> {}]
NotOffered == [world |-> 0, ops |-> {}]

\* A literal segment of a rule is no {id}: that would be a parameter.
McpAssumption ==
  /\ DOMAIN Worlds \subseteq Nat \ {0} /\ 1 \in DOMAIN Worlds /\ MaxRows \in Nat \ {0}
  /\ \A t \in ToolCalls : t.op \in Ops
  /\ \A g \in DOMAIN Worlds : \A i \in DOMAIN Worlds[g].rules : \A j \in 1..Len(Worlds[g].rules[i].match) :
       Worlds[g].rules[i].match[j] # "{id}"

\* Mutant: an update is authorised as PATCH.
MethodOfUpdate(op) ==
  CASE op \in {"read", "validate"} -> "GET"
    [] op = "create" -> "POST"
    [] op \in {"update", "patch", "run_procedure"} -> "PATCH"
    [] op = "delete" -> "DELETE"

\* Op::method and Op::path.
MethodOf(op) ==
  CASE op \in {"read", "validate"} -> "GET"
    [] op = "create" -> "POST"
    [] op = "update" -> "PUT"
    [] op \in {"patch", "run_procedure"} -> "PATCH"
    [] op = "delete" -> "DELETE"

PathOf(op, entity, id) ==
  CASE op \in {"read", "create", "run_procedure"} -> <<entity>>
    [] op \in {"update", "patch", "delete"} -> <<entity, id>>
    [] op = "validate" -> <<"validate", entity>>

\* PATCH of a record is registered with PUT.
Enabled(g, e, op) ==
  (IF op = "patch" THEN "update" ELSE op) \in Worlds[g].entity[e].enabled \cup {"validate"}

Exposed(g) == {e \in DOMAIN Worlds[g].entity : requireAuth \/ e \notin CoreTables}

\* tool_definitions: a tool no entity enables is not there.
Listed(g) ==
  {op \in Ops : \/ op = "validate"
                \/ (op \in Writes => writeTools) /\ \E e \in Exposed(g) : Enabled(g, e, op)}

Guarded(e) == requireAuth /\ e \notin PublicRoutes

\* TestRequest::uri: the id goes into the path as it is.
Segment(id) == IF id \in DOMAIN Cut THEN Cut[id] ELSE id

Allows(g, op, e, id) ==
  Guarded(e) => Access!Permits(Worlds[g].rules, Holder, PathOf(op, e, id), MethodOf(op))

\* caller_may asks with {id} for the id: no literal of a rule is that.
Allowed(g) ==
  {it \in Ops \X Exposed(g) : Enabled(g, it[2], it[1]) /\ Allows(g, it[1], it[2], "{id}")}

----------------------------------------------------------------------------
Init ==
  /\ world = 1
  /\ transport \in {"http", "stdio"} /\ requireAuth \in BOOLEAN /\ writeTools \in BOOLEAN
  /\ token = "good"
  /\ offered = NotOffered
  /\ tool \in ToolCalls /\ opened = 0 /\ taken = 0 /\ ruled = 0
  /\ at = "start" /\ used = {} /\ ignored = {}
  /\ effect = "none" /\ stale = FALSE /\ reply = "none" /\ given = NoRows

Answered(what) == at' = "answered" /\ reply' = what

ReloadWorld ==
  /\ world + 1 \in DOMAIN Worlds /\ at # "answered"
  /\ world' = world + 1
  /\ UNCHANGED <<fixed, token, offered, tool, opened, taken, ruled, at, used, ignored, effect, stale, reply, given>>

EndToken ==
  /\ token = "good" /\ at # "answered"
  /\ token' = "ended"
  /\ UNCHANGED <<world, fixed, offered, tool, opened, taken, ruled, at, used, ignored, effect, stale, reply, given>>

\* CallerIdentity: of every request over HTTP, of the session over stdio.
Identifies(now) == transport = "http" \/ now = "start"

Lets(now) == ~requireAuth \/ token = "good" \/ ~Identifies(now)

Connect ==
  /\ at = "start"
  /\ IF Lets(at) THEN at' = "ready" /\ UNCHANGED reply ELSE Answered("unauthorized")
  /\ UNCHANGED <<world, fixed, token, offered, tool, opened, taken, ruled, used, ignored, effect, stale, given>>

\* list_entities, and the resource flexurio://entities.
ListEntities ==
  /\ at = "ready" /\ offered = NotOffered /\ Lets(at)
  /\ offered' = [world |-> world, ops |-> Allowed(world)]
  /\ UNCHANGED <<world, fixed, token, tool, opened, taken, ruled, at, used, ignored, effect, stale, reply, given>>

Arrive ==
  /\ at = "ready"
  /\ opened' = world
  /\ IF Lets(at) THEN at' = "arrived" /\ UNCHANGED reply ELSE Answered("unauthorized")
  /\ UNCHANGED <<world, fixed, token, offered, tool, taken, ruled, used, ignored, effect, stale, given>>

Known ==
  /\ at = "arrived"
  /\ IF tool.op \in Listed(world) THEN at' = "known" /\ UNCHANGED reply ELSE Answered("unknown")
  /\ UNCHANGED <<world, fixed, token, offered, tool, opened, taken, ruled, used, ignored, effect, stale, given>>

\* What each tool takes beside the entity; unknown arguments are refused.
Arguments(op) ==
  CASE op \in {"read", "run_procedure"} -> {"params"}
    [] op = "create" -> {"data"}
    [] op \in {"update", "patch"} -> {"id", "data"}
    [] op = "delete" -> {"id"}
    [] op = "validate" -> {}

\* as_path_segment, and `data` that must not be empty.
WellFormed ==
  /\ tool.id # "" <=> "id" \in Arguments(tool.op)
  /\ tool.params # {} => "params" \in Arguments(tool.op)
  /\ "data" \in Arguments(tool.op) => tool.data # {}

Declared(g) == Worlds[g].entity[tool.entity].declared

\* A query hands on what the entity declares, a procedure all; the rest is reported.
Accepted(g) == IF tool.op = "read" THEN Declared(g) ELSE tool.params

\* to_query_object: a JSON null becomes no parameter.
Sent(params) == params \ tool.nulls

\* resolve_entity, require_op, and the parameters of the request that is made up.
Resolve ==
  /\ at = "known"
  /\ taken' = world
  /\ IF tool.entity \in Exposed(world) /\ Enabled(world, tool.entity, tool.op) /\ WellFormed
       THEN /\ at' = "resolved" /\ UNCHANGED reply
            /\ used' = Sent(tool.params \cap Accepted(world))
            /\ ignored' = tool.params \ Accepted(world)
       ELSE Answered("error") /\ UNCHANGED <<used, ignored>>
  /\ UNCHANGED <<world, fixed, token, offered, tool, opened, ruled, effect, stale, given>>

\* ServiceRequest::build panics on an id that is no part of a URI.
Build ==
  /\ at = "resolved" /\ tool.id \in Unfit
  /\ Answered("failed")
  /\ UNCHANGED <<world, fixed, token, offered, tool, opened, taken, ruled, used, ignored, effect, stale, given>>

\* check_access of the service, on the request made up for it.
Enter ==
  /\ at = "resolved" /\ tool.id \notin Unfit
  /\ ruled' = world
  /\ IF Allows(world, tool.op, tool.entity, Segment(tool.id))
       THEN at' = "entered" /\ UNCHANGED reply ELSE Answered("error")
  /\ UNCHANGED <<world, fixed, token, offered, tool, opened, taken, used, ignored, effect, stale, given>>

\* The service refuses the request for its data, or a statement fails.
Fail ==
  /\ at = "entered"
  /\ Answered("failed")
  /\ UNCHANGED <<world, fixed, token, offered, tool, opened, taken, ruled, used, ignored, effect, stale, given>>

\* The write takes effect, and the call ends before it learns so: the answer of
\* COMMIT is lost, or the procedure fails after what it did.  No page is invalidated.
Unanswered(how) ==
  /\ at = "entered" /\ tool.op \in Writes
  /\ effect' = "unsure" /\ stale' = TRUE /\ Answered(how)
  /\ UNCHANGED <<world, fixed, token, offered, tool, opened, taken, ruled, used, ignored, given>>

FailLate == Unanswered("failed")
CancelLate == Unanswered("cancelled")

Redacted(columns) == columns \ Secret

\* The limit is capped, where it is declared; whatever comes is cut and masked.
Query ==
  /\ at = "entered" /\ tool.op \notin Writes
  /\ \E n \in 0..MaxFound :
       /\ ("limit" \in used /\ tool.limit # 0) => n <= tool.limit /\ n <= MaxRows
       /\ given' = [count |-> IF n > MaxRows THEN MaxRows ELSE n, truncated |-> n > MaxRows,
                    columns |-> Redacted(tool.data)]
  /\ Answered("ok")
  /\ UNCHANGED <<world, fixed, token, offered, tool, opened, taken, ruled, used, ignored, effect, stale>>

Commit ==
  /\ at = "entered" /\ tool.op \in Writes
  /\ effect' = "whole" /\ stale' = TRUE /\ at' = "committed"
  /\ UNCHANGED <<world, fixed, token, offered, tool, opened, taken, ruled, used, ignored, reply, given>>

\* invalidate_route, which no procedure calls; and write_output.
Finish ==
  /\ at = "committed"
  /\ stale' = (tool.op = "run_procedure")
  /\ given' = [count |-> 1, truncated |-> FALSE, columns |-> Redacted(tool.data)]
  /\ Answered("ok")
  /\ UNCHANGED <<world, fixed, token, offered, tool, opened, taken, ruled, used, ignored, effect>>

\* The task is dropped where it waits; what it had committed stays.
Cancel ==
  /\ at \in {"arrived", "known", "resolved", "entered", "committed"}
  /\ Answered("cancelled")
  /\ UNCHANGED <<world, fixed, token, offered, tool, opened, taken, ruled, used, ignored, effect, stale, given>>

Next ==
  \/ ReloadWorld \/ EndToken
  \/ Connect \/ ListEntities \/ Arrive \/ Known \/ Resolve \/ Enter
  \/ Build \/ Fail \/ FailLate \/ Query \/ Commit \/ Finish \/ Cancel \/ CancelLate

----------------------------------------------------------------------------
(* The REST request a tool stands for (routes/mod.rs) *)

Served(g) ==
  /\ tool.entity \in DOMAIN Worlds[g].entity
  /\ requireAuth \/ tool.entity \notin CoreTables
  /\ CASE tool.op = "read" -> "read" \in Worlds[g].entity[tool.entity].enabled
       [] tool.op = "create" -> "create" \in Worlds[g].entity[tool.entity].enabled
       [] tool.op \in {"update", "patch"} -> "update" \in Worlds[g].entity[tool.entity].enabled
       [] tool.op = "delete" -> "delete" \in Worlds[g].entity[tool.entity].enabled
       [] tool.op = "run_procedure" -> "run_procedure" \in Worlds[g].entity[tool.entity].enabled
       [] tool.op = "validate" -> TRUE

RestPath ==
  CASE tool.op = "validate" -> <<"validate", tool.entity>>
    [] tool.op \in {"update", "patch", "delete"} -> <<tool.entity, tool.id>>
    [] OTHER -> <<tool.entity>>
RestMethod ==
  CASE tool.op \in {"read", "validate"} -> "GET"
    [] tool.op = "create" -> "POST"
    [] tool.op = "update" -> "PUT"
    [] tool.op \in {"patch", "run_procedure"} -> "PATCH"
    [] tool.op = "delete" -> "DELETE"

Admitted(g) ==
  (requireAuth /\ tool.entity \notin PublicRoutes) =>
    Access!Permits(Worlds[g].rules, Holder, RestPath, RestMethod)

\* A rule names a record of the entity: what {id} was told says nothing of it.
RuleNamesId(g) ==
  \E i \in DOMAIN Worlds[g].rules :
    LET pattern == Worlds[g].rules[i].match IN Len(pattern) = 2 /\ pattern[2] = tool.id

\* Another record than the rules were asked about.
Cuts == tool.id \in DOMAIN Cut

During == opened..world

----------------------------------------------------------------------------
(* Properties *)

\* README 18 ("exactly like the equivalent REST method + path ... There is no
\* MCP-only bypass"): what a tool did, REST would have let the caller do in the
\* configurations of the time, answered or not; what it refused, one of them refuses,
\* or the tool does not take it.  What it knows to be committed is announced, and
\* later pages show it, unless the client cancelled (or no write of the kind
\* invalidates).  A query uses or reports each argument but the nulls.  And
\* list_entities told as much, unless the rules were reloaded or name the record.
\* Excepted: writes that the service does not know to be committed (`unsure`),
\* whose pages stay, and ids that the URI cuts, for which the rules are asked about
\* another record (`Cuts`).
McpLikeRest ==
  /\ at = "answered" /\ (reply = "ok" \/ effect # "none") =>
       \E g \in During : Served(g) /\ (Cuts \/ \E h \in g..world : Admitted(h))
  /\ reply = "ok" => tool.params \ tool.nulls \subseteq used \cup ignored /\ given.count <= MaxRows
  /\ reply = "error" =>
       ~WellFormed \/ Cuts \/ \E g \in During : ~Served(g) \/ ~Admitted(g)
  /\ reply = "unknown" =>
       (tool.op \in Writes /\ ~writeTools) \/ \E g \in During : ~Served(g)
  /\ at = "answered" /\ effect = "whole" => reply \in {"ok", "cancelled"}
  /\ at = "answered" /\ stale => reply = "cancelled" \/ tool.op = "run_procedure" \/ effect = "unsure"
  /\ (ruled # 0 /\ ~Cuts /\ ruled = offered.world /\ taken = ruled /\ ~RuleNamesId(ruled)) =>
       (<<tool.op, tool.entity>> \in offered.ops <=> Admitted(ruled))

===============================================================================
