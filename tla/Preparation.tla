----------------------------- MODULE Preparation -----------------------------
(***************************************************************************)
(* What POST /v1/responses does before CreateResponse (post_responses in   *)
(* api/routes/responses.py): resolve a prompt template, retrieve knowledge,*)
(* discover the tools of MCP servers, fit the context.  It reads tables    *)
(* that other calls write meanwhile: POST /v1/prompts (a new version),     *)
(* POST /v1/mcp_servers and POST /v1/semantic_chunks; POST                 *)
(* /v1/organizations is their like.  Every database statement and every    *)
(* call to an embedding provider or an MCP server is a step, and each of   *)
(* them may fail.                                                          *)
(***************************************************************************)
EXTENDS Context, Routing

CONSTANTS
    Workloads,    \* bound: the calls that arrive, as functions on their names
    Catalog,      \* DEFAULT_MODEL_CATALOG: the provider of a model
    Fallbacks,    \* DEFAULT_FAILOVER_CATALOG: the candidates after a model
    Windows,      \* DEFAULT_MODEL_CONTEXT_WINDOWS
    ToolTokens,   \* the size of a tool definition
    ToolLists,    \* bound: the tools an MCP server may list, by name
    NoPrompt,     \* the request carries messages
    Inline        \* the source of a tool that the client declared

Roles == {"system", "user", "assistant", "tool"}
Kinds == {"response", "prompt", "server", "chunk", "organization"}
Names == Seq(STRING)   \* of servers and tools: the parts between the dots

(* The fields that a call must have, and what the domain types demand of   *)
(* them: a prompt or at least one message, tool calls only on assistant    *)
(* messages, at least one message in a template, a positive topK, and      *)
(* max_input_tokens a number, if it is given.                              *)
ASSUME PreparationAssumption ==
    /\ ToolLists \subseteq Seq(Names)
    /\ ToolTokens \in Nat
    /\ Fallbacks \in [DOMAIN Catalog -> Seq(DOMAIN Catalog)]
    /\ \A m \in DOMAIN Windows : Windows[m] \in Nat
    /\ \A w \in Workloads : \A c \in DOMAIN w :
        /\ w[c].kind \in Kinds
        /\ w[c].kind = "response" =>
            /\ w[c].model \in DOMAIN Catalog
            /\ w[c].messages \in Seq([role : Roles, size : Nat, calls : BOOLEAN, from : {<<>>}])
            /\ \A n \in 1..Len(w[c].messages) :
                w[c].messages[n].calls => w[c].messages[n].role = "assistant"
            /\ IF w[c].prompt = NoPrompt THEN w[c].messages # <<>>
               ELSE \A v \in DOMAIN w[c].prompt.values : w[c].prompt.values[v] \in Nat
            /\ w[c].rag.topK \in Nat \ {0}
            /\ w[c].servers \in Seq(Names)
            /\ w[c].tools \in Seq(Names)
            /\ w[c].maxOutput \in Nat
            /\ w[c].context.caps \in SUBSET Nat
        /\ w[c].kind = "prompt" =>
            /\ w[c].template \in Seq([role : Roles, literal : Nat, vars : SUBSET STRING])
            /\ w[c].template # <<>>
            /\ \A n \in 1..Len(w[c].template) : IsFiniteSet(w[c].template[n].vars)

VARIABLES
    call,         \* what each call asks for
    failover,     \* provider_failover_enabled
    embedding,    \* an embedding provider is configured
    prompts,      \* table prompt_templates
    servers,      \* table mcp_servers
    chunks,       \* table semantic_chunks
    organizations,\* table organizations
    at,           \* the step each call stands at
    latest,       \* create_version: the highest version read
    messages,     \* post_responses: the messages so far
    tools,        \* post_responses: the tools so far
    todo,         \* post_responses: the servers still to ask
    answer,       \* how each call was answered
    prepared,     \* the messages of the command handed to CreateResponse
    acked,        \* history: the rows answered with 201
    known         \* history: the rows acknowledged when the call arrived

inputs == <<call, failover, embedding>>
tables == <<prompts, servers, chunks, organizations>>
work == <<latest, messages, tools, todo>>
vars == <<inputs, tables, at, work, answer, prepared, acked, known>>

Calls == DOMAIN call
Pending == "pending"

(* register_exception_handlers: the status of each exception.              *)
Refusals ==
    [UnsupportedModelError         |-> 400,
     PromptNotFoundError           |-> 404,
     McpServerNotFoundError        |-> 404,
     PromptVersionConflictError    |-> 409,
     McpServerNameConflictError    |-> 409,
     OrganizationSlugConflictError |-> 409,
     DomainValidationError         |-> 422,
     ContextLimitExceededError     |-> 422,
     ProviderError                 |-> 502,
     McpError                      |-> 502,
     ProviderNotRegisteredError    |-> 503,
     Exception                     |-> 500]
Status(a) == IF a = "Created" THEN 201 ELSE Refusals[a]

-----------------------------------------------------------------------------
(* The order of the steps of post_responses; those not asked for are left  *)
(* out.                                                                    *)
AfterRetrieval(c) == IF todo[c] # <<>> THEN "find" ELSE "assemble"
AfterPrompt(c) == IF call[c].rag.enabled THEN "embed" ELSE AfterRetrieval(c)
FirstStep(c) ==
    CASE call[c].kind = "prompt"   -> "latest"
      [] call[c].kind = "server"   -> "insert"
      [] call[c].kind = "chunk"    -> "embed"
      [] call[c].kind = "organization" -> "slug"
      [] call[c].kind = "response" ->
           IF call[c].prompt # NoPrompt THEN "resolve" ELSE AfterPrompt(c)

NeedsContextCheck(c) ==
    \/ call[c].prompt # NoPrompt
    \/ call[c].context.given
    \/ call[c].rag.enabled
    \/ call[c].servers # <<>>
    \/ call[c].tools # <<>>

Init ==
    /\ call \in Workloads
    /\ failover \in BOOLEAN
    /\ embedding \in BOOLEAN
    /\ prompts = {} /\ servers = {} /\ chunks = {} /\ organizations = {}
    /\ at = [c \in Calls |-> "arrive"]
    /\ latest = [c \in Calls |-> 0]
    /\ messages = [c \in Calls |-> IF call[c].kind = "response" THEN call[c].messages ELSE <<>>]
    /\ tools = [c \in Calls |->
                   IF call[c].kind # "response" THEN <<>>
                   ELSE [n \in 1..Len(call[c].tools) |->
                           [name |-> call[c].tools[n], source |-> Inline]]]
    /\ todo = [c \in Calls |-> IF call[c].kind = "response" THEN call[c].servers ELSE <<>>]
    /\ answer = [c \in Calls |-> Pending]
    /\ prepared = [c \in Calls |-> <<>>]
    /\ acked = {}
    /\ known = [c \in Calls |-> {}]

-----------------------------------------------------------------------------
Go(c, step) ==
    /\ at' = [at EXCEPT ![c] = step]
    /\ UNCHANGED <<inputs, answer, prepared, acked, known>>

Finish(c, a) ==
    /\ at' = [at EXCEPT ![c] = "done"]
    /\ answer' = [answer EXCEPT ![c] = a]
    /\ UNCHANGED <<inputs, prepared, known>>

Refuse(c, a) ==
    /\ Finish(c, a)
    /\ UNCHANGED <<tables, work, acked>>

(* The call is authenticated and its body is valid.                        *)
Arrive(c) ==
    /\ at[c] = "arrive"
    /\ at' = [at EXCEPT ![c] = FirstStep(c)]
    /\ known' = [known EXCEPT ![c] = acked]
    /\ UNCHANGED <<inputs, tables, work, answer, prepared, acked>>

(* A statement fails before anything is written.                           *)
StatementFails(c) ==
    /\ at[c] \in {"latest", "slug", "insert", "resolve", "search", "find"}
    /\ Refuse(c, "Exception")

-----------------------------------------------------------------------------
(* Rows.  A row carries the name of the call that wrote it, which stands   *)
(* for the content it was given.                                           *)
VersionsOf(org, name) == {row \in prompts : row.org = org /\ row.name = name}

PromptRow(c) == [table |-> "prompts", org |-> call[c].org, name |-> call[c].name,
                 version |-> latest[c] + 1, by |-> c]
ServerRow(c) == [table |-> "servers", org |-> call[c].org, name |-> call[c].name, by |-> c]
ChunkRow(c) == [table |-> "chunks", org |-> call[c].org, distance |-> call[c].distance, by |-> c]

(* The commit is done; the session learns of it, or loses its connection.  *)
Commit(c, row) ==
    /\ \/ Finish(c, "Created") /\ acked' = acked \cup {row}
       \/ Finish(c, "Exception") /\ UNCHANGED acked
    /\ UNCHANGED work

(* create_version: read the highest version, then insert the next one.     *)
ReadLatest(c) ==
    /\ at[c] = "latest"
    /\ latest' = [latest EXCEPT ![c] =
                     Max({0} \cup {row.version : row \in VersionsOf(call[c].org, call[c].name)})]
    /\ Go(c, "insert")
    /\ UNCHANGED <<tables, messages, tools, todo>>

\* Variant: no unique constraint over organization, name and version.
InsertVersionAnyway(c) ==
    /\ at[c] = "insert" /\ call[c].kind = "prompt"
    /\ prompts' = prompts \cup {PromptRow(c)}
    /\ Commit(c, PromptRow(c))
    /\ UNCHANGED <<servers, chunks, organizations>>

InsertVersion(c) ==
    /\ at[c] = "insert" /\ call[c].kind = "prompt"
    /\ \A row \in VersionsOf(call[c].org, call[c].name) : row.version # latest[c] + 1
    /\ prompts' = prompts \cup {PromptRow(c)}
    /\ Commit(c, PromptRow(c))
    /\ UNCHANGED <<servers, chunks, organizations>>

VersionConflict(c) ==
    /\ at[c] = "insert" /\ call[c].kind = "prompt"
    /\ \E row \in VersionsOf(call[c].org, call[c].name) : row.version = latest[c] + 1
    /\ Refuse(c, "PromptVersionConflictError")

ServersNamed(org, name) == {row \in servers : row.org = org /\ row.name = name}

Register(c) ==
    /\ at[c] = "insert" /\ call[c].kind = "server"
    /\ ServersNamed(call[c].org, call[c].name) = {}
    /\ servers' = servers \cup {ServerRow(c)}
    /\ Commit(c, ServerRow(c))
    /\ UNCHANGED <<prompts, chunks, organizations>>

\* Variant: a name that is taken is answered as if it had been registered.
NameTaken(c) ==
    /\ at[c] = "insert" /\ call[c].kind = "server"
    /\ ServersNamed(call[c].org, call[c].name) # {}
    /\ Refuse(c, "Created")

NameConflict(c) ==
    /\ at[c] = "insert" /\ call[c].kind = "server"
    /\ ServersNamed(call[c].org, call[c].name) # {}
    /\ Refuse(c, "McpServerNameConflictError")

(* CreateOrganization: the slug is looked up, then the constraint decides. *)
OrganizationRow(c) == [table |-> "organizations", org |-> call[c].org, name |-> call[c].name,
                       by |-> c]
WithSlug(slug) == {row \in organizations : row.name = slug}

SlugFree(c) ==
    /\ at[c] = "slug"
    /\ WithSlug(call[c].name) = {}
    /\ Go(c, "insert")
    /\ UNCHANGED <<tables, work>>

CreateOrganization(c) ==
    /\ at[c] = "insert" /\ call[c].kind = "organization"
    /\ WithSlug(call[c].name) = {}
    /\ organizations' = organizations \cup {OrganizationRow(c)}
    /\ Commit(c, OrganizationRow(c))
    /\ UNCHANGED <<prompts, servers, chunks>>

SlugConflict(c) ==
    /\ at[c] \in {"slug", "insert"} /\ call[c].kind = "organization"
    /\ WithSlug(call[c].name) # {}
    /\ Refuse(c, "OrganizationSlugConflictError")

(* IndexSemanticChunk: the organization of the key is there, none is ever  *)
(* deleted; then the row.                                                  *)
StoreChunk(c) ==
    /\ at[c] = "insert" /\ call[c].kind = "chunk"
    /\ chunks' = chunks \cup {ChunkRow(c)}
    /\ Commit(c, ChunkRow(c))
    /\ UNCHANGED <<prompts, servers, organizations>>

-----------------------------------------------------------------------------
(* ResolvePrompt.  A variable's value is its size, 0 for a blank one.      *)
Placeholders(template) == UNION {template[n].vars : n \in 1..Len(template)}
RenderedSize(part, values) == part.literal + MapThenSumSet(LAMBDA v : values[v], part.vars)

Render(template, values, by) ==
    [n \in 1..Len(template) |->
        [role |-> template[n].role, calls |-> FALSE,
         size |-> RenderedSize(template[n], values), from |-> <<by>>]]

\* Variant: the order is ascending.
SelectedFirst(c) ==
    {row \in VersionsOf(call[c].org, call[c].prompt.name) :
        \A other \in VersionsOf(call[c].org, call[c].prompt.name) : row.version <= other.version}

(* get: the version asked for, or the highest one.                         *)
Selected(c) ==
    LET versions == VersionsOf(call[c].org, call[c].prompt.name)
    IN  IF call[c].prompt.version # {}
        THEN {row \in versions : row.version \in call[c].prompt.version}
        ELSE {row \in versions : \A other \in versions : other.version <= row.version}

(* The names given are those of the template, and no rendered message is   *)
(* blank.                                                                  *)
Renders(c, row) ==
    LET template == call[row.by].template
        values == call[c].prompt.values
    IN  /\ DOMAIN values = Placeholders(template)
        /\ \A n \in 1..Len(template) : RenderedSize(template[n], values) > 0

PromptMissing(c) ==
    /\ at[c] = "resolve"
    /\ Selected(c) = {}
    /\ Refuse(c, "PromptNotFoundError")

PromptMismatch(c) ==
    /\ at[c] = "resolve"
    /\ \E row \in Selected(c) : ~Renders(c, row)
    /\ Refuse(c, "DomainValidationError")

Resolve(c) ==
    /\ at[c] = "resolve"
    /\ \E row \in Selected(c) :
        /\ Renders(c, row)
        /\ messages' = [messages EXCEPT ![c] =
                           Render(call[row.by].template, call[c].prompt.values, row.by)]
    /\ Go(c, AfterPrompt(c))
    /\ UNCHANGED <<tables, latest, tools, todo>>

-----------------------------------------------------------------------------
(* AugmentMessagesWithRag, and the embedding step of IngestSemanticChunk.  *)
HasQuery(c) ==
    call[c].kind = "response" =>
        \/ call[c].rag.query
        \/ \E n \in 1..Len(messages[c]) : messages[c][n].role = "user"
EmbeddingModelListed(c) ==
    IF call[c].kind = "chunk" THEN call[c].listed ELSE call[c].rag.listed

EmbedRefused(c) ==
    /\ at[c] = "embed"
    /\ \/ ~HasQuery(c) /\ Refuse(c, "DomainValidationError")
       \/ HasQuery(c) /\ ~EmbeddingModelListed(c) /\ Refuse(c, "UnsupportedModelError")
       \/ /\ HasQuery(c) /\ EmbeddingModelListed(c) /\ ~embedding
          /\ Refuse(c, "ProviderNotRegisteredError")

MayEmbed(c) == at[c] = "embed" /\ HasQuery(c) /\ EmbeddingModelListed(c) /\ embedding

Embed(c) ==
    /\ MayEmbed(c)
    /\ Go(c, IF call[c].kind = "chunk" THEN "insert" ELSE "search")
    /\ UNCHANGED <<tables, work>>

(* An HTTP error or an unusable body; a vector that has not the dimensions *)
(* of the column is found out only by the domain types.                    *)
EmbedFails(c) ==
    /\ MayEmbed(c)
    /\ \E a \in {"ProviderError", "DomainValidationError"} : Refuse(c, a)

(* search: the limit nearest rows of the organization, ties in any order.  *)
\* Variant: the organization is not part of the query.
NearestOfAll(org, limit) ==
    {hits \in [1..Min({limit, Cardinality(chunks)}) -> chunks] :
        /\ IsInjective(hits)
        /\ \A m, n \in DOMAIN hits : m < n => hits[m].distance <= hits[n].distance
        /\ \A row \in chunks \ Range(hits), n \in DOMAIN hits : hits[n].distance <= row.distance}

Nearest(org, limit) ==
    LET own == {row \in chunks : row.org = org}
    IN  {hits \in [1..Min({limit, Cardinality(own)}) -> own] :
            /\ IsInjective(hits)
            /\ \A m, n \in DOMAIN hits : m < n => hits[m].distance <= hits[n].distance
            /\ \A row \in own \ Range(hits), n \in DOMAIN hits : hits[n].distance <= row.distance}

ContextMessage(hits) ==
    [role |-> "system", calls |-> FALSE, size |-> 1 + Len(hits),
     from |-> [n \in 1..Len(hits) |-> hits[n].by]]

Search(c) ==
    /\ at[c] = "search"
    /\ \E hits \in Nearest(call[c].org, call[c].rag.topK) :
        messages' = [messages EXCEPT ![c] =
                        IF hits = <<>> THEN @ ELSE <<ContextMessage(hits)>> \o @]
    /\ Go(c, AfterRetrieval(c))
    /\ UNCHANGED <<tables, latest, tools, todo>>

-----------------------------------------------------------------------------
(* ResolveToolsForGeneration: one server after the other.                  *)
FindServer(c) ==
    /\ at[c] = "find"
    /\ ServersNamed(call[c].org, Head(todo[c])) # {}
    /\ Go(c, "list")
    /\ UNCHANGED <<tables, work>>

ServerMissing(c) ==
    /\ at[c] = "find"
    /\ ServersNamed(call[c].org, Head(todo[c])) = {}
    /\ Refuse(c, "McpServerNotFoundError")

(* The server does not answer, answers with something that is no list of   *)
(* tools, or names a tool with a blank, a space or a slash.                *)
ListFails(c) ==
    /\ at[c] = "list"
    /\ \E a \in {"McpError", "DomainValidationError"} : Refuse(c, a)

Discovered(c, list) ==
    [n \in 1..Len(list) |->
        [name |-> Head(todo[c]) \o list[n],
         source |-> (CHOOSE row \in ServersNamed(call[c].org, Head(todo[c])) : TRUE).by]]

\* Variant: the names discovered are not remembered.
CollidesInline(c, found) ==
    \E n \in 1..Len(found), m \in 1..Len(call[c].tools) : found[n].name = call[c].tools[m]

Collides(c, found) ==
    \E n \in 1..Len(found) :
        \/ \E m \in 1..Len(tools[c]) : tools[c][m].name = found[n].name
        \/ \E m \in 1..(n - 1) : found[m].name = found[n].name

ListTools(c) ==
    /\ at[c] = "list"
    /\ \E list \in ToolLists :
        /\ ~Collides(c, Discovered(c, list))
        /\ tools' = [tools EXCEPT ![c] = @ \o Discovered(c, list)]
    /\ todo' = [todo EXCEPT ![c] = Tail(@)]
    /\ Go(c, IF Len(todo[c]) = 1 THEN "assemble" ELSE "find")
    /\ UNCHANGED <<tables, latest, messages>>

ToolsCollide(c) ==
    /\ at[c] = "list"
    /\ \E list \in ToolLists : Collides(c, Discovered(c, list))
    /\ Refuse(c, "DomainValidationError")

-----------------------------------------------------------------------------
(* The context check, and the command of CreateResponse.                   *)
Candidates(c) == IF failover THEN Fallbacks[call[c].model] ELSE <<>>

Fitted(c) ==
    IF NeedsContextCheck(c)
    THEN BuildContext(messages[c], ToolTokens * Len(tools[c]),
                      Budget(call[c].model, Candidates(c), Windows, call[c].maxOutput,
                             call[c].context.caps),
                      call[c].context.truncate)
    ELSE messages[c]

UsesTools(c) ==
    \/ tools[c] # <<>>
    \/ \E n \in 1..Len(Fitted(c)) : Fitted(c)[n].role = "tool" \/ Fitted(c)[n].calls

Overflows(c) ==
    /\ at[c] = "assemble"
    /\ Fitted(c) = <<>>
    /\ Refuse(c, "ContextLimitExceededError")

StreamRefused(c) ==
    /\ at[c] = "assemble"
    /\ Fitted(c) # <<>>
    /\ call[c].stream /\ (UsesTools(c) \/ call[c].cache)
    /\ Refuse(c, "DomainValidationError")

Assemble(c) ==
    /\ at[c] = "assemble"
    /\ Fitted(c) # <<>>
    /\ call[c].stream => ~UsesTools(c) /\ ~call[c].cache
    /\ prepared' = [prepared EXCEPT ![c] = Fitted(c)]
    /\ at' = [at EXCEPT ![c] = "done"]
    /\ answer' = [answer EXCEPT ![c] = "Prepared"]
    /\ UNCHANGED <<inputs, tables, work, acked, known>>

-----------------------------------------------------------------------------
Step(c) ==
    \/ Arrive(c) \/ StatementFails(c)
    \/ ReadLatest(c) \/ InsertVersion(c) \/ VersionConflict(c)
    \/ Register(c) \/ NameConflict(c) \/ StoreChunk(c)
    \/ SlugFree(c) \/ CreateOrganization(c) \/ SlugConflict(c)
    \/ PromptMissing(c) \/ PromptMismatch(c) \/ Resolve(c)
    \/ EmbedRefused(c) \/ Embed(c) \/ EmbedFails(c) \/ Search(c)
    \/ FindServer(c) \/ ServerMissing(c) \/ ListFails(c) \/ ListTools(c) \/ ToolsCollide(c)
    \/ Overflows(c) \/ StreamRefused(c) \/ Assemble(c)

Idle == (\A c \in Calls : at[c] = "done") /\ UNCHANGED vars
Next == Idle \/ \E c \in Calls : Step(c)

Spec == Init /\ [][Next]_vars

-----------------------------------------------------------------------------
(* Properties.                                                             *)
Rows == prompts \cup servers \cup chunks \cup organizations
RowsBy(c) == {row \in Rows : row.by = c}
KnownRows(c, table) == {row \in known[c] : row.table = table /\ row.org = call[c].org}

TypeOK ==
    /\ failover \in BOOLEAN /\ embedding \in BOOLEAN
    /\ \A row \in prompts : row.by \in Calls /\ row.version \in Nat \ {0}
    /\ \A row \in servers \cup chunks \cup organizations : row.by \in Calls
    /\ at \in [Calls -> {"arrive", "latest", "slug", "insert", "resolve", "embed", "search",
                         "find", "list", "assemble", "done"}]
    /\ latest \in [Calls -> Nat]
    /\ \A c \in Calls :
        /\ \A n \in 1..Len(messages[c]) : messages[c][n].role \in Roles
        /\ at[c] \in {"find", "list"} => todo[c] # <<>>
        /\ at[c] = "done" <=> answer[c] # Pending
        /\ prepared[c] # <<>> <=> answer[c] = "Prepared"
    /\ acked \subseteq Rows
    /\ \A c \in Calls : known[c] \subseteq acked

(* The versions of a prompt are 1..n, each written by one call, however    *)
(* many calls created versions at the same time (create_version).          *)
VersionsAreDense ==
    \A row \in prompts :
        LET versions == VersionsOf(row.org, row.name)
        IN  {other.version : other \in versions} = 1..Cardinality(versions)

(* Another call has taken what c was to create.  A slug is taken for all   *)
(* organizations.                                                          *)
Taken(c) ==
    \/ /\ call[c].kind = "prompt"
       /\ \E row \in VersionsOf(call[c].org, call[c].name) :
            row.by # c /\ row.version = latest[c] + 1
    \/ /\ call[c].kind = "server"
       /\ \E row \in ServersNamed(call[c].org, call[c].name) : row.by # c
    \/ /\ call[c].kind = "organization"
       /\ \E row \in WithSlug(call[c].name) : row.by # c

(* A creation answered with 201 has written its row, one answered with 4xx *)
(* has written nothing, and a 409 means that another call has taken the    *)
(* version, name or slug.                                                  *)
AnswersAreTrue ==
    \A c \in Calls : answer[c] \notin {Pending, "Prepared"} =>
        /\ Status(answer[c]) = 201 => RowsBy(c) # {}
        /\ Status(answer[c]) \in 400..499 => RowsBy(c) = {}
        /\ Status(answer[c]) = 409 => Taken(c)

(* A request that arrives after a creation was acknowledged finds it: its  *)
(* prompt and its servers are not missing, the latest version is at least  *)
(* as recent, and the chunk is retrieved unless topK others are as near.   *)
ReadsWhatWasAcknowledged ==
    \A c \in Calls : call[c].kind = "response" =>
        /\ answer[c] = "PromptNotFoundError" =>
            \A row \in KnownRows(c, "prompts") :
                row.name = call[c].prompt.name => call[c].prompt.version \notin {{}, {row.version}}
        /\ answer[c] = "McpServerNotFoundError" =>
            \A row \in KnownRows(c, "servers") : row.name # Head(todo[c])
        /\ answer[c] = "Prepared" /\ call[c].prompt # NoPrompt =>
            \E row \in prompts :
                /\ <<row.by>> = Last(messages[c]).from
                /\ IF call[c].prompt.version # {} THEN row.version \in call[c].prompt.version
                   ELSE \A older \in KnownRows(c, "prompts") :
                            older.name = row.name => older.version <= row.version
        /\ answer[c] = "Prepared" /\ call[c].rag.enabled =>
            \A row \in KnownRows(c, "chunks") :
                \/ row.by \in Range(Head(messages[c]).from)
                \/ /\ Len(Head(messages[c]).from) = call[c].rag.topK
                   /\ \A by \in Range(Head(messages[c]).from) :
                        call[by].distance <= row.distance

(* Nothing of another organization gets into the messages or the tools of  *)
(* a request: not its prompts, its chunks or its servers.                  *)
OrganizationsAreApart ==
    \A c \in Calls :
        /\ \A n \in 1..Len(messages[c]) : \A by \in Range(messages[c][n].from) :
            call[by].org = call[c].org
        /\ \A n \in 1..Len(tools[c]) :
            tools[c][n].source # Inline => call[tools[c][n].source].org = call[c].org

(* A request whose context was checked fits, with its tools and its output,*)
(* each model that the executor may try for it.                            *)
FitsEveryRoute ==
    \A c \in Calls :
        answer[c] = "Prepared" /\ NeedsContextCheck(c) /\ Supported(call[c].model, Catalog) =>
            LET chain == RouteChain(call[c].model, Catalog, Candidates(c))
            IN  \A n \in 1..Len(chain) : chain[n].model \in DOMAIN Windows =>
                    CountMessages(prepared[c]) + ToolTokens * Len(tools[c]) + call[c].maxOutput
                        <= Windows[chain[n].model]

(* Truncation drops whole turns, the oldest first and no more than needed, *)
(* keeps every system message and the last turn, and a request is refused  *)
(* only if that much does not fit.                                         *)
TruncationIsExact ==
    \A c \in Calls : at[c] = "done" /\ call[c].kind = "response" /\ NeedsContextCheck(c) =>
        LET all == messages[c]
            budget == Budget(call[c].model, Candidates(c), Windows, call[c].maxOutput,
                             call[c].context.caps)
            Fits(kept) == budget = Unbounded
                          \/ ToolTokens * Len(tools[c]) + CountMessages(kept) <= budget
        IN  /\ answer[c] = "Prepared" =>
                \/ prepared[c] = all /\ Fits(all)
                \/ /\ ~Fits(all) /\ call[c].context.truncate
                   /\ \E k \in Turns(all) :
                        /\ prepared[c] = From(all, k) /\ Fits(From(all, k))
                        /\ \A j \in Turns(all) : j < k => ~Fits(From(all, j))
            /\ answer[c] = "ContextLimitExceededError" =>
                /\ ~Fits(all)
                /\ call[c].context.truncate => \A k \in Turns(all) : ~Fits(From(all, k))

(* The tools handed to the model have different names, so a tool call      *)
(* tells which tool of which server is meant; only the client itself can   *)
(* name two of its own tools alike.  A stream has no tools.                *)
ToolNamesAreDistinct ==
    \A c \in Calls : answer[c] = "Prepared" =>
        /\ \A m, n \in 1..Len(tools[c]) :
            m < n /\ tools[c][m].name = tools[c][n].name => tools[c][n].source = Inline
        /\ call[c].stream => tools[c] = <<>>
=============================================================================
