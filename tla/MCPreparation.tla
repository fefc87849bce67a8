---------------------------- MODULE MCPreparation ----------------------------
(* The workloads: every short conversation against every small budget, one *)
(* request at a time; and requests that use prompts, chunks and servers    *)
(* while other calls create them, in two organizations.                    *)
EXTENDS Preparation

MCCatalog == [m |-> "p", s |-> "q", u |-> NoProvider]
MCFallbacks == [m |-> <<"s">>, s |-> <<>>, u |-> <<"s">>]
MCWindows == [m |-> 18, s |-> 14]
MCToolLists == {<<>>, << <<"a">> >>, << <<"t", "a">>, <<"b">> >>, << <<"a">>, <<"a">> >>}

Client(role, size, calls) == [role |-> role, size |-> size, calls |-> calls, from |-> <<>>]
Parts == {Client("system", 1, FALSE), Client("user", 1, FALSE), Client("user", 3, FALSE),
          Client("assistant", 1, FALSE), Client("assistant", 1, TRUE), Client("tool", 1, FALSE)}

NoRag == [enabled |-> FALSE, query |-> FALSE, listed |-> TRUE, topK |-> 1]
NoContext == [given |-> FALSE, caps |-> {}, truncate |-> FALSE]
Body == [kind |-> "response", org |-> "x", model |-> "m", prompt |-> NoPrompt,
         messages |-> <<Client("user", 1, FALSE)>>, rag |-> NoRag, servers |-> <<>>,
         tools |-> <<>>, context |-> NoContext, maxOutput |-> 0, stream |-> FALSE, cache |-> FALSE]

OfSizeOne == {part \in Parts : part.size = 1}
Conversations == UNION {[1..n -> Parts] : n \in 1..3}
                 \cup {c \in [1..4 -> OfSizeOne] : c[4].role \in {"user", "tool"}}
Alone ==
    {[c1 |-> [Body EXCEPT !.model = model, !.messages = conversation, !.maxOutput = output,
                          !.context = [given |-> TRUE, caps |-> caps, truncate |-> truncate],
                          !.stream = output # 0]] :
        model \in {"m", "u"}, conversation \in Conversations, output \in {0, 4},
        caps \in {{}, {6}, {11}}, truncate \in BOOLEAN}

Template == << [role |-> "system", literal |-> 1, vars |-> {}],
               [role |-> "user", literal |-> 0, vars |-> {"v"}] >>
NewPrompt(org) == [kind |-> "prompt", org |-> org, name |-> "n", template |-> Template]
NewServer(org, name) == [kind |-> "server", org |-> org, name |-> name]
NewOrganization(slug) == [kind |-> "organization", org |-> "operator", name |-> slug]
NewChunk(org, distance, listed) ==
    [kind |-> "chunk", org |-> org, distance |-> distance, listed |-> listed]

Prompted(version, values) ==
    [Body EXCEPT !.prompt = [name |-> "n", version |-> version, values |-> values],
                 !.messages = <<>>]
Retrieving(conversation, query, listed, topK) ==
    [Body EXCEPT !.messages = conversation,
                 !.rag = [enabled |-> TRUE, query |-> query, listed |-> listed, topK |-> topK]]
Discovering(names, inline, stream) ==
    [Body EXCEPT !.servers = names, !.tools = inline, !.stream = stream]

Ask == <<Client("user", 1, FALSE)>>
Together ==
    {[c1 |-> NewPrompt("x"), c2 |-> NewPrompt(org), c3 |-> NewPrompt("x"),
      c4 |-> Prompted(use[1], use[2])] :
        org \in {"x", "y"},
        use \in {<<{}, [v |-> 1]>>, <<{1}, [v |-> 1]>>, <<{2}, [v |-> 1]>>,
                 <<{1}, [v |-> 0]>>, <<{1}, [w |-> 1]>>}}
    \cup
    {[c1 |-> NewChunk("x", 1, TRUE), c2 |-> NewChunk("y", 1, TRUE), c3 |-> NewChunk("x", 2, listed),
      c4 |-> Retrieving(conversation, query, listed, topK)] :
        listed \in BOOLEAN, conversation \in {Ask, <<Client("system", 1, FALSE)>>},
        query \in BOOLEAN, topK \in {1, 2}}
    \cup
    {[c1 |-> NewServer("x", <<"s">>), c2 |-> NewServer("x", name), c3 |-> NewServer("y", <<"s">>),
      c4 |-> Discovering(names, inline, stream)] :
        name \in {<<"s">>, <<"s", "t">>},
        names \in {<< <<"s">> >>, << <<"s">>, <<"s", "t">> >>},
        inline \in {<<>>, << <<"s", "a">> >>, << <<"b">>, <<"b">> >>}, stream \in BOOLEAN}
    \cup
    {[c1 |-> NewOrganization("s"), c2 |-> NewOrganization(slug), c3 |-> NewOrganization("s")] :
        slug \in {"s", "t"}}
    \cup
    {[c1 |-> NewPrompt("x"), c2 |-> NewChunk("x", 1, TRUE), c3 |-> NewServer("x", <<"s">>),
      c4 |-> [Prompted({}, [v |-> 1]) EXCEPT
                !.rag = [enabled |-> TRUE, query |-> FALSE, listed |-> TRUE, topK |-> 1],
                !.servers = << <<"s">> >>, !.stream = TRUE, !.cache = cache]] :
        cache \in BOOLEAN}

MCWorkloads == Alone \cup Together
=============================================================================
