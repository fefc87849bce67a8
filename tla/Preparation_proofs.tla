-------------------------- MODULE Preparation_proofs --------------------------
(***************************************************************************)
(* Theorems about Preparation, for any calls, organizations and tables:    *)
(* prompt versions are dense under every race, nothing of one organization *)
(* reaches the requests of another, discovered tools are told apart, what  *)
(* was acknowledged is read, and a context is fitted exactly.              *)
(***************************************************************************)
EXTENDS Preparation, TLAPS, FiniteSetTheorems, WellFoundedInduction

(* What a call has asked for does not change, and what is kept for a call  *)
(* is a function on the calls.                                             *)
InputInv ==
    /\ call \in Workloads
    /\ DOMAIN messages = Calls /\ DOMAIN tools = Calls /\ DOMAIN todo = Calls
    /\ DOMAIN answer = Calls /\ DOMAIN prepared = Calls /\ DOMAIN known = Calls
    /\ \A c \in Calls : todo[c] \in Seq(Names)

OwnCalls(c) == {d \in Calls : call[d].org = call[c].org}

(* Who wrote a row, and for whom.                                          *)
RowInv ==
    /\ \A row \in prompts \cup servers \cup chunks :
        row.by \in Calls /\ call[row.by].org = row.org
    /\ \A row \in organizations : row.by \in Calls
    /\ \A row \in prompts : call[row.by].kind = "prompt"
    /\ IsFiniteSet(prompts) /\ IsFiniteSet(chunks)

(* The versions of a name are 1..n without repetition, and a call that is  *)
(* about to insert has read 0 or one of them, which may be out of date.    *)
VersionInv ==
    /\ \A row \in prompts : row.version \in Nat \ {0}
    /\ \A row, other \in prompts :
        row.org = other.org /\ row.name = other.name /\ row.version = other.version => row = other
    /\ VersionsAreDense
    /\ \A c \in Calls : at[c] = "insert" /\ call[c].kind = "prompt" =>
        latest[c] \in {0} \cup {row.version : row \in VersionsOf(call[c].org, call[c].name)}

(* A call resolves, retrieves and discovers only if it asks for a response,*)
(* and a server it asks for its tools has been found.                      *)
PlaceInv ==
    \A c \in Calls :
        /\ at[c] \in {"resolve", "search", "find", "list", "assemble"}
           => call[c].kind = "response"
        /\ at[c] = "embed" => call[c].kind \in {"chunk", "response"}
        /\ at[c] = "slug" => call[c].kind = "organization"
        /\ at[c] = "list" => ServersNamed(call[c].org, Head(todo[c])) # {}

(* Where the texts and the tools of a request come from.                   *)
ToolsOf(c) == [name : Names, source : {Inline} \cup OwnCalls(c)]
SourceInv ==
    \A c \in Calls :
        /\ messages[c] \in Seq(Range(messages[c]))
        /\ \A message \in Range(messages[c]) :
            message.role \in Roles /\ message.from \in Seq(OwnCalls(c))
        /\ tools[c] \in Seq(ToolsOf(c))

(* A tool that was discovered has a name that no tool before it has.       *)
NameInv ==
    \A c \in Calls : \A m, n \in 1..Len(tools[c]) :
        m < n /\ tools[c][m].name = tools[c][n].name => tools[c][n].source = Inline

IInv == InputInv /\ RowInv /\ VersionInv /\ PlaceInv /\ SourceInv /\ NameInv /\ TypeOK
             /\ ToolNamesAreDistinct

-----------------------------------------------------------------------------
(* The actions by what they change: a refusal only answers, a pause only   *)
(* moves on, an insertion writes one row.                                  *)
Refusal(c) ==
    \/ StatementFails(c) \/ VersionConflict(c) \/ NameConflict(c) \/ SlugConflict(c)
    \/ PromptMissing(c) \/ PromptMismatch(c) \/ EmbedRefused(c) \/ EmbedFails(c)
    \/ ServerMissing(c) \/ ListFails(c) \/ ToolsCollide(c) \/ Overflows(c) \/ StreamRefused(c)
Pause(c) == Embed(c) \/ FindServer(c) \/ SlugFree(c)
Insertion(c) == InsertVersion(c) \/ Register(c) \/ StoreChunk(c) \/ CreateOrganization(c)

LEMMA StepsByEffect ==
    ASSUME NEW c \in Calls, Step(c)
    PROVE  \/ Refusal(c) \/ Pause(c) \/ Insertion(c) \/ Arrive(c)
           \/ ReadLatest(c) \/ Resolve(c) \/ Search(c) \/ ListTools(c) \/ Assemble(c)
  BY DEF Step, Refusal, Pause, Insertion

(* A refusal is an error, and leaves everything else as it was.            *)
LEMMA RefusalsRefuse ==
    ASSUME NEW c \in Calls, Refusal(c)
    PROVE  /\ at[c] # "done"
           /\ \E a : a \notin {Pending, "Prepared"} /\ Refuse(c, a)
  BY DEF Refusal, StatementFails, VersionConflict, NameConflict, SlugConflict,
         PromptMissing, PromptMismatch, EmbedRefused, EmbedFails, MayEmbed, ServerMissing,
         ListFails, ToolsCollide, Overflows, StreamRefused, Pending

-----------------------------------------------------------------------------
LEMMA InputStep ==
    ASSUME IInv, NEW c \in Calls, Step(c)
    PROVE  InputInv'
<1> USE DEF IInv, InputInv, Calls
<1>1. CASE Refusal(c)
  BY <1>1, RefusalsRefuse DEF Refuse, Finish, inputs, work
<1>2. CASE Pause(c)
  BY <1>2 DEF Pause, Embed, FindServer, SlugFree, Go, inputs, work
<1>3. CASE Insertion(c)
  BY <1>3 DEF Insertion, InsertVersion, Register, StoreChunk, CreateOrganization, Commit,
              Finish, inputs, work
<1>4. CASE Arrive(c)
  BY <1>4 DEF Arrive, inputs, work
<1>5. CASE ReadLatest(c) \/ Resolve(c) \/ Search(c)
  BY <1>5 DEF ReadLatest, Resolve, Search, Go, inputs
<1>6. CASE ListTools(c)
  <2>1. todo[c] # <<>>
    BY <1>6 DEF ListTools, TypeOK
  <2>2. Tail(todo[c]) \in Seq(Names)
    BY <2>1
  <2> QED
    BY <1>6, <2>2 DEF ListTools, Go, inputs
<1>7. CASE Assemble(c)
  BY <1>7 DEF Assemble, inputs, work
<1> QED
  BY <1>1, <1>3, <1>5, <1>7, <1>2, <1>4, <1>6, StepsByEffect

LEMMA RowStep ==
    ASSUME IInv, NEW c \in Calls, Step(c)
    PROVE  RowInv'
<1> USE DEF IInv, InputInv, RowInv, Calls
<1>1. CASE Refusal(c)
  BY <1>1, RefusalsRefuse DEF Refuse, Finish, inputs, tables
<1>2. CASE Pause(c)
  BY <1>2 DEF Pause, Embed, FindServer, SlugFree, Go, inputs, tables
<1>3. CASE InsertVersion(c)
  <2>1. IsFiniteSet(prompts')
    BY <1>3, FS_AddElement DEF InsertVersion
  <2> QED
    BY <1>3, <2>1 DEF InsertVersion, PromptRow, Commit, Finish, inputs
<1>4. CASE Register(c)
  BY <1>4 DEF Register, ServerRow, Commit, Finish, inputs
<1>5. CASE StoreChunk(c)
  <2>1. IsFiniteSet(chunks')
    BY <1>5, FS_AddElement DEF StoreChunk
  <2> QED
    BY <1>5, <2>1 DEF StoreChunk, ChunkRow, Commit, Finish, inputs
<1>6. CASE CreateOrganization(c)
  BY <1>6 DEF CreateOrganization, OrganizationRow, Commit, Finish, inputs
<1>7. CASE Arrive(c) \/ ReadLatest(c) \/ Resolve(c) \/ Search(c) \/ ListTools(c) \/ Assemble(c)
  BY <1>7 DEF Arrive, ReadLatest, Resolve, Search, ListTools, Assemble, Go, inputs, tables
<1> QED
  BY <1>1, <1>3, <1>5, <1>7, <1>2, <1>4, <1>6, StepsByEffect DEF Insertion

-----------------------------------------------------------------------------
(* Prompt versions.                                                        *)
VersionNumbers(org, name) == {row.version : row \in VersionsOf(org, name)}

(* Density, also of names that have no version yet.                        *)
LEMMA DenseNumbers ==
    ASSUME RowInv, VersionsAreDense, NEW org, NEW name
    PROVE  /\ IsFiniteSet(VersionsOf(org, name))
           /\ Cardinality(VersionsOf(org, name)) \in Nat
           /\ VersionNumbers(org, name) = 1..Cardinality(VersionsOf(org, name))
<1>1. IsFiniteSet(VersionsOf(org, name))
  BY FS_Subset DEF RowInv, VersionsOf
<1>2. Cardinality(VersionsOf(org, name)) \in Nat
  BY <1>1, FS_CardinalityType
<1>3. CASE VersionsOf(org, name) = {}
  BY <1>1, <1>3, FS_EmptySet DEF VersionNumbers
<1>4. CASE VersionsOf(org, name) # {}
  <2>1. PICK row \in prompts : row.org = org /\ row.name = name
    BY <1>4 DEF VersionsOf
  <2>2. {other.version : other \in VersionsOf(row.org, row.name)}
        = 1..Cardinality(VersionsOf(row.org, row.name))
    BY <2>1 DEF VersionsAreDense
  <2> QED
    BY <1>1, <1>2, <2>1, <2>2 DEF VersionNumbers
<1> QED
  BY <1>1, <1>3, <1>2, <1>4

(* What create_version reads is 0 or a version that is there.              *)
LEMMA HighestNumber ==
    ASSUME RowInv, VersionsAreDense, NEW org, NEW name
    PROVE  Max({0} \cup VersionNumbers(org, name)) \in {0} \cup VersionNumbers(org, name)
<1> DEFINE n == Cardinality(VersionsOf(org, name))
           numbers == {0} \cup VersionNumbers(org, name)
<1>1. n \in Nat /\ numbers = 0..n
  BY DenseNumbers
<1>2. n \in numbers /\ \A k \in numbers : n >= k
  BY <1>1
<1> QED
  BY <1>2 DEF Max

(* The unique constraint makes the version inserted the next one.          *)
LEMMA InsertsNext ==
    ASSUME IInv, NEW c \in Calls, InsertVersion(c)
    PROVE  latest[c] + 1 = Cardinality(VersionsOf(call[c].org, call[c].name)) + 1
<1> DEFINE n == Cardinality(VersionsOf(call[c].org, call[c].name))
<1>1. n \in Nat /\ VersionNumbers(call[c].org, call[c].name) = 1..n
  BY DenseNumbers DEF IInv, VersionInv
<1>2. latest[c] \in 0..n
  BY <1>1 DEF IInv, VersionInv, InsertVersion, VersionNumbers
<1>3. latest[c] + 1 \notin 1..n
  BY <1>1 DEF InsertVersion, VersionNumbers
<1> QED
  BY <1>1, <1>2, <1>3

LEMMA InsertKeepsDense ==
    ASSUME IInv, NEW c \in Calls, InsertVersion(c)
    PROVE  VersionsAreDense'
<1> DEFINE org == call[c].org
           name == call[c].name
           old == VersionsOf(org, name)
           new == PromptRow(c)
<1>1. /\ prompts' = prompts \cup {new}
      /\ new.org = org /\ new.name = name /\ new.version = latest[c] + 1
      /\ new \notin old
  BY DEF InsertVersion, PromptRow
<1>2. Cardinality(old) \in Nat /\ IsFiniteSet(old)
      /\ {other.version : other \in old} = 1..Cardinality(old)
  BY DenseNumbers DEF IInv, VersionInv, VersionNumbers
<1>3. SUFFICES ASSUME NEW row \in prompts'
               PROVE  {other.version : other \in VersionsOf(row.org, row.name)'}
                      = 1..Cardinality(VersionsOf(row.org, row.name)')
  BY DEF VersionsAreDense, VersionsOf
<1>4. CASE row.org = org /\ row.name = name
  <2>1. VersionsOf(row.org, row.name)' = old \cup {new}
    BY <1>1, <1>4 DEF VersionsOf
  <2>2. Cardinality(old \cup {new}) = Cardinality(old) + 1
    BY <1>1, <1>2, FS_AddElement
  <2>3. new.version = Cardinality(old) + 1
    BY <1>1, InsertsNext
  <2>4. {other.version : other \in old \cup {new}} = {other.version : other \in old} \cup {new.version}
    OBVIOUS
  <2>5. 1..(Cardinality(old) + 1) = 1..Cardinality(old) \cup {Cardinality(old) + 1}
    BY <1>2
  <2> HIDE DEF old, new
  <2> QED
    BY <1>2, <2>1, <2>3, <2>2, <2>5, <2>4
<1>5. CASE ~(row.org = org /\ row.name = name)
  <2>1. VersionsOf(row.org, row.name)' = VersionsOf(row.org, row.name)
    BY <1>1, <1>5 DEF VersionsOf
  <2>2. row \in prompts
    BY <1>1, <1>5
  <2> QED
    BY <2>1, <2>2 DEF IInv, VersionInv, VersionsAreDense
<1> QED
  BY <1>4, <1>5

LEMMA VersionStep ==
    ASSUME IInv, NEW c \in Calls, Step(c)
    PROVE  VersionInv'
<1> USE DEF IInv, InputInv, Calls
<1>1. CASE UNCHANGED <<call, prompts, latest>> /\ at' = [at EXCEPT ![c] = at'[c]]
           /\ ~(at'[c] = "insert" /\ call[c].kind = "prompt")
  <2>1. \A org, name : VersionsOf(org, name)' = VersionsOf(org, name)
    BY <1>1 DEF VersionsOf
  <2>2. VersionsAreDense'
    BY <1>1, <2>1 DEF VersionInv, VersionsAreDense
  <2>3. \A d \in Calls : at'[d] = "insert" /\ call[d].kind = "prompt" => at[d] = "insert"
    BY <1>1 DEF TypeOK
  <2> QED
    BY <1>1, <2>1, <2>2, <2>3 DEF VersionInv
<1>2. CASE Refusal(c)
  BY <1>1, <1>2, RefusalsRefuse DEF Refuse, Finish, inputs, tables, work, TypeOK
<1>3. CASE ReadLatest(c)
  <2>1. latest'[c] \in {0} \cup {row.version : row \in VersionsOf(call[c].org, call[c].name)}
    BY <1>3, HighestNumber DEF ReadLatest, VersionInv, VersionNumbers, TypeOK
  <2>2. \A d \in Calls : d # c => latest'[d] = latest[d] /\ at'[d] = at[d]
    BY <1>3 DEF ReadLatest, Go, TypeOK
  <2>3. \A org, name : VersionsOf(org, name)' = VersionsOf(org, name)
    BY <1>3 DEF ReadLatest, tables, VersionsOf
  <2>4. VersionsAreDense'
    BY <1>3, <2>3 DEF ReadLatest, tables, VersionInv, VersionsAreDense
  <2> QED
    BY <1>3, <2>1, <2>3, <2>4, <2>2 DEF ReadLatest, Go, inputs, tables, VersionInv
<1>4. CASE InsertVersion(c)
  <2>1. VersionsAreDense'
    BY <1>4, InsertKeepsDense
  <2>2. \A row \in prompts' : row.version \in Nat \ {0}
    BY <1>4 DEF InsertVersion, PromptRow, VersionInv, TypeOK
  <2>3. \A row, other \in prompts' :
          row.org = other.org /\ row.name = other.name /\ row.version = other.version
          => row = other
    BY <1>4 DEF InsertVersion, PromptRow, VersionInv, VersionsOf
  <2>4. \A d \in Calls : at'[d] = "insert" => d # c /\ at[d] = "insert" /\ latest'[d] = latest[d]
    BY <1>4 DEF InsertVersion, Commit, Finish, work, TypeOK
  <2>5. \A d \in Calls : VersionsOf(call[d].org, call[d].name)
                          \subseteq VersionsOf(call[d].org, call[d].name)'
    BY <1>4 DEF InsertVersion, Commit, Finish, inputs, VersionsOf
  <2>6. call' = call
    BY <1>4 DEF InsertVersion, Commit, Finish, inputs
  <2>7. \A d \in Calls : at'[d] = "insert" /\ call[d].kind = "prompt" =>
          latest'[d] \in {0} \cup {row.version : row \in VersionsOf(call[d].org, call[d].name)'}
    <3>1. TAKE d \in Calls
    <3>2. HAVE at'[d] = "insert" /\ call[d].kind = "prompt"
    <3>3. latest[d] \in {0} \cup {row.version : row \in VersionsOf(call[d].org, call[d].name)}
      BY <2>4, <3>2 DEF VersionInv
    <3>4. VersionsOf(call[d].org, call[d].name) \subseteq VersionsOf(call[d].org, call[d].name)'
      BY <2>5
    <3>5. latest'[d] = latest[d]
      BY <2>4, <3>2
    <3> QED
      BY <3>3, <3>4, <3>5
  <2> QED
    BY <2>6, <2>7, <2>1, <2>2, <2>3 DEF VersionInv
<1>5. CASE Register(c) \/ StoreChunk(c) \/ CreateOrganization(c)
  BY <1>1, <1>5 DEF Register, StoreChunk, CreateOrganization, Commit, Finish, inputs, work, TypeOK
<1>6. CASE Arrive(c)
  <2>1. ~(FirstStep(c) = "insert" /\ call[c].kind = "prompt")
    BY DEF FirstStep
  <2> QED
    BY <1>1, <1>6, <2>1 DEF Arrive, inputs, tables, work, TypeOK
<1>7. CASE Pause(c)
  BY <1>1, <1>7 DEF Pause, Embed, MayEmbed, FindServer, SlugFree, Go, inputs, tables, work,
                    TypeOK, PlaceInv
<1>8. CASE Resolve(c) \/ Search(c) \/ ListTools(c)
  BY <1>1, <1>8 DEF Resolve, Search, ListTools, AfterPrompt, AfterRetrieval, Go, inputs, tables, TypeOK
<1>9. CASE Assemble(c)
  BY <1>1, <1>9 DEF Assemble, inputs, tables, work, TypeOK
<1> QED
  BY <1>2, <1>4, <1>6, <1>8, <1>3, <1>5, <1>7, <1>9, StepsByEffect DEF Insertion

-----------------------------------------------------------------------------
(* The first step that a call takes is one of its kind.                    *)
LEMMA FirstStepOfKind ==
    ASSUME IInv, NEW c \in Calls
    PROVE  /\ call[c].kind = "response" =>
               FirstStep(c) \in {"resolve", "embed", "find", "assemble"}
           /\ call[c].kind # "response" =>
               \/ FirstStep(c) \in {"latest", "insert"}
               \/ FirstStep(c) = "embed" /\ call[c].kind = "chunk"
               \/ FirstStep(c) = "slug" /\ call[c].kind = "organization"
           /\ FirstStep(c) = "find" => todo[c] # <<>>
<1>1. call[c].kind \in Kinds
  BY PreparationAssumption DEF IInv, InputInv, Calls
<1> QED
  BY <1>1 DEF FirstStep, AfterPrompt, AfterRetrieval, Kinds

LEMMA PlaceStep ==
    ASSUME IInv, NEW c \in Calls, Step(c)
    PROVE  PlaceInv'
<1> USE DEF IInv, InputInv, Calls
<1> DEFINE Placed(d) ==
      /\ at'[d] \in {"resolve", "search", "find", "list", "assemble"} => call[d].kind = "response"
      /\ at'[d] = "embed" => call[d].kind \in {"chunk", "response"}
      /\ at'[d] = "slug" => call[d].kind = "organization"
<1>1. CASE UNCHANGED <<call, servers>> /\ at' = [at EXCEPT ![c] = at'[c]] /\ Placed(c)
           /\ at'[c] # "list" /\ \A d \in Calls : d # c => todo'[d] = todo[d]
  <2>1. \A d \in Calls : d # c => at'[d] = at[d] /\ todo'[d] = todo[d]
    BY <1>1 DEF TypeOK
  <2>2. \A d \in Calls : Placed(d)
    BY <1>1, <2>1 DEF PlaceInv
  <2>3. \A d \in Calls : at'[d] = "list" => ServersNamed(call[d].org, Head(todo'[d])) # {}
    BY <1>1, <2>1 DEF PlaceInv
  <2> QED
    BY <1>1, <2>2, <2>3 DEF PlaceInv, ServersNamed
<1>2. CASE Refusal(c)
  BY <1>1, <1>2, RefusalsRefuse DEF Refuse, Finish, inputs, tables, work, TypeOK
<1>3. CASE Arrive(c)
  BY <1>1, <1>3, FirstStepOfKind DEF Arrive, inputs, tables, work, TypeOK
<1>4. CASE ReadLatest(c) \/ Embed(c) \/ SlugFree(c)
  BY <1>1, <1>4 DEF ReadLatest, Embed, MayEmbed, SlugFree, Go, inputs, tables, work, TypeOK, PlaceInv
<1>5. CASE InsertVersion(c) \/ StoreChunk(c) \/ CreateOrganization(c)
  BY <1>1, <1>5 DEF InsertVersion, StoreChunk, CreateOrganization, Commit, Finish, inputs, work, TypeOK
<1>6. CASE Register(c)
  <2>1. servers \subseteq servers' /\ UNCHANGED <<call, todo>>
    BY <1>6 DEF Register, Commit, Finish, inputs, work
  <2>2. \A d \in Calls : at'[d] \in {at[d], "done"}
    BY <1>6 DEF Register, Commit, Finish, TypeOK
  <2> QED
    BY <2>1, <2>2 DEF PlaceInv, ServersNamed
<1>7. CASE Resolve(c)
  BY <1>1, <1>7 DEF Resolve, AfterPrompt, AfterRetrieval, Go, inputs, tables, TypeOK, PlaceInv
<1>8. CASE Search(c) \/ ListTools(c) \/ Assemble(c)
  BY <1>1, <1>8 DEF Search, ListTools, Assemble, AfterRetrieval, Go, inputs, tables, work,
                    TypeOK, PlaceInv
<1>9. CASE FindServer(c)
  <2>1. UNCHANGED <<call, servers, todo>>
    BY <1>9 DEF FindServer, Go, inputs, tables, work
  <2>2. \A d \in Calls : at'[d] = IF d = c THEN "list" ELSE at[d]
    BY <1>9 DEF FindServer, Go, TypeOK
  <2>3. call[c].kind = "response" /\ ServersNamed(call[c].org, Head(todo[c])) # {}
    BY <1>9 DEF FindServer, PlaceInv
  <2> QED
    BY <2>1, <2>2, <2>3 DEF PlaceInv, ServersNamed
<1> QED
  BY <1>2, <1>4, <1>6, <1>8, <1>3, <1>5, <1>7, <1>9, StepsByEffect DEF Insertion, Pause

-----------------------------------------------------------------------------
(* Texts and tools, and where they are from.                               *)
LEMMA SequenceOf ==
    ASSUME NEW T, NEW k \in Nat, NEW f \in [1..k -> T]
    PROVE  f \in Seq(T) /\ Len(f) = k
  OBVIOUS

LEMMA ElementOfSequence ==
    ASSUME NEW T, NEW s \in Seq(T)
    PROVE  \A n \in 1..Len(s) : s[n] \in T
  OBVIOUS

LEMMA SequenceOfRange ==
    ASSUME NEW S, NEW s \in Seq(S)
    PROVE  s \in Seq(Range(s))
<1>1. s \in [1..Len(s) -> Range(s)] /\ Len(s) \in Nat
  BY DEF Range
<1> QED
  BY <1>1, SequenceOf

LEMMA RangeOfConcatenation ==
    ASSUME NEW S, NEW s \in Seq(S), NEW x
    PROVE  /\ <<x>> \o s \in Seq(Range(<<x>> \o s))
           /\ Range(<<x>> \o s) = {x} \cup Range(s)
<1>1. /\ Len(<<x>> \o s) = Len(s) + 1
      /\ (<<x>> \o s)[1] = x
      /\ \A n \in 1..Len(s) : (<<x>> \o s)[n + 1] = s[n]
  OBVIOUS
<1>2. <<x>> \o s \in Seq({x} \cup S)
  OBVIOUS
<1>3. Range(<<x>> \o s) = {x} \cup Range(s)
  <2>1. \A y \in Range(<<x>> \o s) : y \in {x} \cup Range(s)
    <3>1. TAKE y \in Range(<<x>> \o s)
    <3>2. PICK n \in 1..(Len(s) + 1) : y = (<<x>> \o s)[n]
      BY <1>1, <1>2 DEF Range
    <3>3. n = 1 \/ n - 1 \in 1..Len(s)
      BY <3>2
    <3> QED
      BY <1>1, <3>2, <3>3 DEF Range
  <2>2. x \in Range(<<x>> \o s)
    BY <1>1, <1>2 DEF Range
  <2>3. \A n \in 1..Len(s) : s[n] \in Range(<<x>> \o s)
    <3>1. TAKE n \in 1..Len(s)
    <3>2. n + 1 \in DOMAIN (<<x>> \o s)
      BY <1>1, <1>2
    <3> QED
      BY <1>1, <3>2 DEF Range
  <2>4. \A y \in Range(s) : y \in Range(<<x>> \o s)
    BY <2>3 DEF Range
  <2> QED
    BY <2>1, <2>2, <2>4
<1>4. <<x>> \o s \in Seq(Range(<<x>> \o s))
  BY <1>2, SequenceOfRange
<1> QED
  BY <1>3, <1>4

(* ResolvePrompt: the messages are those of a template of the same         *)
(* organization.                                                           *)
LEMMA RenderedFromOwn ==
    ASSUME IInv, NEW c \in Calls, NEW row \in Selected(c), NEW values
    PROVE  LET rendered == Render(call[row.by].template, values, row.by)
           IN  /\ rendered \in Seq(Range(rendered))
               /\ \A message \in Range(rendered) :
                   message.role \in Roles /\ message.from \in Seq(OwnCalls(c))
<1> DEFINE template == call[row.by].template
           rendered == Render(template, values, row.by)
<1>1. row \in prompts /\ row.org = call[c].org
  BY DEF Selected, VersionsOf
<1>2. row.by \in OwnCalls(c) /\ call[row.by].kind = "prompt"
  BY <1>1 DEF IInv, RowInv, OwnCalls
<1>3. template \in Seq([role : Roles, literal : Nat, vars : SUBSET STRING])
  BY <1>2, PreparationAssumption DEF IInv, InputInv, Calls, OwnCalls
<1>4. Len(template) \in Nat /\ DOMAIN rendered = 1..Len(template)
  BY <1>3 DEF Render
<1>5. \A n \in 1..Len(template) :
        rendered[n].role \in Roles /\ rendered[n].from \in Seq(OwnCalls(c))
  <2>1. TAKE n \in 1..Len(template)
  <2>2. rendered[n].role = template[n].role /\ rendered[n].from = <<row.by>>
    BY DEF Render
  <2>3. template[n] \in [role : Roles, literal : Nat, vars : SUBSET STRING]
    BY <1>3, ElementOfSequence
  <2> QED
    BY <1>2, <2>2, <2>3
<1>6. rendered = [n \in 1..Len(template) |-> rendered[n]]
  BY DEF Render
<1> HIDE DEF rendered
<1>7. rendered \in [1..Len(template) -> Range(rendered)]
  BY <1>4, <1>6 DEF Range
<1>8. rendered \in Seq(Range(rendered))
  BY <1>4, <1>7, SequenceOf
<1> QED
  BY <1>4, <1>5, <1>8 DEF Range, rendered

(* search: what the context message lists are chunks of the organization.  *)
LEMMA RetrievedFromOwn ==
    ASSUME IInv, NEW c \in Calls, call[c].kind = "response",
           NEW hits \in Nearest(call[c].org, call[c].rag.topK)
    PROVE  /\ ContextMessage(hits).role \in Roles
           /\ ContextMessage(hits).from \in Seq(OwnCalls(c))
<1> DEFINE own == {row \in chunks : row.org = call[c].org}
           limit == Min({call[c].rag.topK, Cardinality(own)})
<1>1. call[c].rag.topK \in Nat
  BY PreparationAssumption DEF IInv, InputInv, Calls
<1>2. Cardinality(own) \in Nat
  BY FS_Subset, FS_CardinalityType DEF IInv, RowInv
<1>3. limit \in Nat
  <2> HIDE DEF own
  <2>1. \E least \in {call[c].rag.topK, Cardinality(own)} :
          \A other \in {call[c].rag.topK, Cardinality(own)} : least =< other
    BY <1>1, <1>2
  <2> QED
    BY <1>1, <1>2, <2>1 DEF Min
<1>4. hits \in [1..limit -> own]
  BY DEF Nearest
<1>5. Len(hits) = limit
  <2> HIDE DEF own, limit
  <2> QED
    BY <1>3, <1>4, SequenceOf
<1>6. \A n \in 1..limit : hits[n].by \in OwnCalls(c)
  BY <1>4 DEF IInv, RowInv, OwnCalls
<1>7. [n \in 1..limit |-> hits[n].by] \in Seq(OwnCalls(c))
  <2> HIDE DEF own, limit
  <2> QED
    BY <1>3, <1>6, SequenceOf
<1> QED
  BY <1>5, <1>7 DEF ContextMessage, Roles

(* ResolveToolsForGeneration: what a server lists becomes tools that the   *)
(* organization registered.                                                *)
LEMMA DiscoveredAreOwn ==
    ASSUME IInv, NEW c \in Calls, at[c] = "list", NEW list \in ToolLists
    PROVE  /\ Discovered(c, list) \in Seq(ToolsOf(c))
           /\ Len(Discovered(c, list)) = Len(list)
<1> DEFINE server == CHOOSE row \in ServersNamed(call[c].org, Head(todo[c])) : TRUE
<1>1. list \in Seq(Names)
  BY PreparationAssumption
<1>2. Head(todo[c]) \in Names
  BY DEF IInv, InputInv, TypeOK
<1>3. server \in ServersNamed(call[c].org, Head(todo[c]))
  BY DEF IInv, PlaceInv
<1>4. server.by \in OwnCalls(c)
  BY <1>3 DEF IInv, RowInv, ServersNamed, OwnCalls
<1>5. \A n \in 1..Len(list) : Head(todo[c]) \o list[n] \in Names
  BY <1>1, <1>2 DEF Names
<1>6. Discovered(c, list) \in [1..Len(list) -> ToolsOf(c)]
  BY <1>4, <1>5 DEF Discovered, ToolsOf
<1> QED
  BY <1>1, <1>6, SequenceOf

LEMMA SourceStep ==
    ASSUME IInv, NEW c \in Calls, Step(c)
    PROVE  SourceInv'
<1>0. SourceInv
  BY DEF IInv
<1>1. CASE UNCHANGED <<call, messages, tools>>
  <2>1. Calls' = Calls /\ \A c1 : OwnCalls(c1)' = OwnCalls(c1)
    BY <1>1 DEF Calls, OwnCalls
  <2>2. \A c1 : ToolsOf(c1)' = ToolsOf(c1)
    BY <2>1 DEF ToolsOf
  <2> QED
    BY <1>0, <1>1, <2>1, <2>2 DEF SourceInv
<1> USE DEF IInv, InputInv, Calls
<1>2. CASE Refusal(c)
  BY <1>1, <1>2, RefusalsRefuse DEF Refuse, Finish, inputs, work
<1>3. CASE Pause(c)
  BY <1>1, <1>3 DEF Pause, Embed, FindServer, SlugFree, Go, inputs, work
<1>4. CASE Insertion(c)
  BY <1>1, <1>4 DEF Insertion, InsertVersion, Register, StoreChunk, CreateOrganization, Commit,
              Finish, inputs, work
<1>5. CASE Arrive(c) \/ ReadLatest(c) \/ Assemble(c)
  BY <1>1, <1>5 DEF Arrive, ReadLatest, Assemble, Go, inputs, work
<1>6. CASE Resolve(c)
  <2>1. PICK row \in Selected(c) : messages' = [messages EXCEPT ![c] =
            Render(call[row.by].template, call[c].prompt.values, row.by)]
    BY <1>6 DEF Resolve
  <2>2. UNCHANGED <<call, tools>>
    BY <1>6 DEF Resolve, Go, inputs
  <2>3. \A d \in Calls : OwnCalls(d)' = OwnCalls(d) /\ ToolsOf(d)' = ToolsOf(d)
    BY <2>2 DEF OwnCalls, ToolsOf
  <2>4. /\ messages'[c] \in Seq(Range(messages'[c]))
        /\ \A message \in Range(messages'[c]) :
            message.role \in Roles /\ message.from \in Seq(OwnCalls(c))
    BY <2>1, RenderedFromOwn
  <2>5. \A d \in Calls : d # c => messages'[d] = messages[d]
    BY <2>1
  <2> QED
    BY <1>0, <2>3, <2>5, <2>2, <2>4 DEF SourceInv
<1>7. CASE Search(c)
  <2>1. PICK hits \in Nearest(call[c].org, call[c].rag.topK) :
          messages' = [messages EXCEPT ![c] =
                          IF hits = <<>> THEN @ ELSE <<ContextMessage(hits)>> \o @]
    BY <1>7 DEF Search
  <2>2. UNCHANGED <<call, tools>>
    BY <1>7 DEF Search, Go, inputs
  <2>3. call[c].kind = "response"
    BY <1>7 DEF Search, PlaceInv
  <2>4. LET all == <<ContextMessage(hits)>> \o messages[c]
        IN  /\ all \in Seq(Range(all))
            /\ Range(all) = {ContextMessage(hits)} \cup Range(messages[c])
    BY RangeOfConcatenation DEF SourceInv
  <2>5. /\ ContextMessage(hits).role \in Roles
        /\ ContextMessage(hits).from \in Seq(OwnCalls(c))
    BY <2>3, RetrievedFromOwn
  <2>6. \A d \in Calls : OwnCalls(d)' = OwnCalls(d) /\ ToolsOf(d)' = ToolsOf(d)
    BY <2>2 DEF OwnCalls, ToolsOf
  <2>7. \A d \in Calls :
          /\ messages'[d] \in Seq(Range(messages'[d]))
          /\ \A message \in Range(messages'[d]) :
              message.role \in Roles /\ message.from \in Seq(OwnCalls(d))
          /\ tools'[d] \in Seq(ToolsOf(d))
    <3>1. TAKE d \in Calls
    <3>2. CASE d # c \/ hits = <<>>
      <4>1. messages'[d] = messages[d] /\ tools'[d] = tools[d]
        BY <2>1, <2>2, <3>2
      <4> QED
        BY <4>1 DEF SourceInv
    <3>3. CASE d = c /\ hits # <<>>
      <4>1. messages'[d] = <<ContextMessage(hits)>> \o messages[c] /\ tools'[d] = tools[d]
        BY <2>1, <2>2, <3>3
      <4> QED
        BY <2>4, <2>5, <3>3, <4>1 DEF SourceInv
    <3> QED
      BY <3>2, <3>3
  <2> QED
    BY <2>2, <2>6, <2>7 DEF SourceInv
<1>8. CASE ListTools(c)
  <2>1. PICK list \in ToolLists : tools' = [tools EXCEPT ![c] = @ \o Discovered(c, list)]
    BY <1>8 DEF ListTools
  <2>2. UNCHANGED <<call, messages>>
    BY <1>8 DEF ListTools, Go, inputs
  <2>3. tools'[c] \in Seq(ToolsOf(c))
    BY <1>8, <2>1, DiscoveredAreOwn DEF ListTools, SourceInv
  <2>4. \A d \in Calls : OwnCalls(d)' = OwnCalls(d) /\ ToolsOf(d)' = ToolsOf(d)
    BY <2>2 DEF OwnCalls, ToolsOf
  <2>5. \A d \in Calls : d # c => tools'[d] = tools[d]
    BY <2>1
  <2> QED
    BY <1>0, <2>3, <2>5, <2>2, <2>4 DEF SourceInv
<1> QED
  BY <1>2, <1>4, <1>6, <1>8, <1>3, <1>5, <1>7, StepsByEffect

-----------------------------------------------------------------------------
(* Names of tools: what ListTools adds does not collide.                   *)
LEMMA NamesStayApart ==
    ASSUME IInv, NEW c \in Calls, at[c] = "list",
           NEW list \in ToolLists, ~Collides(c, Discovered(c, list))
    PROVE  LET all == tools[c] \o Discovered(c, list)
           IN  \A m, n \in 1..Len(all) :
                   m < n /\ all[m].name = all[n].name => all[n].source = Inline
<1> DEFINE old == tools[c]
           found == Discovered(c, list)
           all == old \o found
<1>1. old \in Seq(ToolsOf(c)) /\ found \in Seq(ToolsOf(c))
  BY DiscoveredAreOwn DEF IInv, SourceInv
<1>2. \A m, n \in 1..Len(old) :
        m < n /\ old[m].name = old[n].name => old[n].source = Inline
  BY DEF IInv, NameInv
<1>3. \A n \in 1..Len(found) :
        /\ \A m \in 1..Len(old) : old[m].name # found[n].name
        /\ \A m \in 1..(n - 1) : found[m].name # found[n].name
  BY DEF Collides
<1> SUFFICES ASSUME NEW m \in 1..Len(all), NEW n \in 1..Len(all), m < n,
                    all[m].name = all[n].name
             PROVE  all[n].source = Inline
  OBVIOUS
<1> HIDE DEF old, found
<1>4. /\ Len(all) = Len(old) + Len(found) /\ Len(old) \in Nat /\ Len(found) \in Nat
      /\ \A k \in 1..Len(all) : all[k] = IF k <= Len(old) THEN old[k] ELSE found[k - Len(old)]
  BY <1>1
<1> HIDE DEF all
<1>5. CASE n <= Len(old)
  BY <1>2, <1>4, <1>5
<1>6. CASE n > Len(old) /\ m <= Len(old)
  BY <1>3, <1>4, <1>6
<1>7. CASE m > Len(old)
  <2>1. n - Len(old) \in 1..Len(found) /\ m - Len(old) \in 1..(n - Len(old) - 1)
    BY <1>4, <1>7
  <2>2. all[n] = found[n - Len(old)] /\ all[m] = found[m - Len(old)]
    BY <1>4, <1>7
  <2> QED
    BY <1>3, <2>1, <2>2
<1> QED
  BY <1>4, <1>6, <1>5, <1>7

LEMMA NameStep ==
    ASSUME IInv, NEW c \in Calls, Step(c)
    PROVE  NameInv'
<1> USE DEF IInv, InputInv, Calls
<1>1. CASE UNCHANGED <<call, tools>>
  BY <1>1 DEF NameInv
<1>2. CASE Refusal(c)
  BY <1>1, <1>2, RefusalsRefuse DEF Refuse, Finish, inputs, work
<1>3. CASE Pause(c)
  BY <1>1, <1>3 DEF Pause, Embed, FindServer, SlugFree, Go, inputs, work
<1>4. CASE Insertion(c)
  BY <1>1, <1>4 DEF Insertion, InsertVersion, Register, StoreChunk, CreateOrganization, Commit,
              Finish, inputs, work
<1>5. CASE Arrive(c) \/ ReadLatest(c) \/ Assemble(c) \/ Resolve(c) \/ Search(c)
  BY <1>1, <1>5 DEF Arrive, ReadLatest, Assemble, Resolve, Search, Go, inputs, work
<1>6. CASE ListTools(c)
  <2>1. PICK list \in ToolLists : /\ ~Collides(c, Discovered(c, list))
                                  /\ tools' = [tools EXCEPT ![c] = @ \o Discovered(c, list)]
    BY <1>6 DEF ListTools
  <2>2. call' = call
    BY <1>6 DEF ListTools, Go, inputs
  <2>3. LET all == tools[c] \o Discovered(c, list)
        IN  \A m, n \in 1..Len(all) :
                m < n /\ all[m].name = all[n].name => all[n].source = Inline
    BY <1>6, <2>1, NamesStayApart DEF ListTools
  <2>4. \A d \in Calls : \A m, n \in 1..Len(tools'[d]) :
          m < n /\ tools'[d][m].name = tools'[d][n].name => tools'[d][n].source = Inline
    <3>1. TAKE d \in Calls
    <3>2. CASE d = c
      <4>1. tools'[d] = tools[c] \o Discovered(c, list)
        BY <2>1, <3>2
      <4> QED
        BY <2>3, <4>1
    <3>3. CASE d # c
      <4>1. tools'[d] = tools[d]
        BY <2>1, <3>3
      <4> QED
        BY <4>1 DEF NameInv
    <3> QED
      BY <3>2, <3>3
  <2> QED
    BY <2>2, <2>4 DEF NameInv
<1> QED
  BY <1>2, <1>4, <1>6, <1>3, <1>5, StepsByEffect

(* Only Assemble prepares a command, and only ListTools adds tools.        *)
LEMMA OnlyTheseChange ==
    ASSUME IInv, NEW c \in Calls, Step(c)
    PROVE  /\ call' = call
           /\ tools' = tools \/ (at[c] = "list" /\ \E new : tools' = [tools EXCEPT ![c] = new])
           /\ \A d \in Calls : answer'[d] = "Prepared" /\ answer[d] # "Prepared" =>
                d = c /\ Assemble(c)
<1> USE DEF IInv, InputInv, Calls
<1>1. CASE UNCHANGED <<call, tools, answer>>
  BY <1>1
<1>2. CASE UNCHANGED <<call, tools>> /\ \E a : a # "Prepared" /\ Finish(c, a)
  BY <1>2 DEF Finish
<1>3. CASE Refusal(c)
  BY <1>2, <1>3, RefusalsRefuse DEF Refuse, Finish, inputs, work
<1>4. CASE Pause(c)
  BY <1>1, <1>4 DEF Pause, Embed, FindServer, SlugFree, Go, inputs, work
<1>5. CASE Insertion(c)
  <2>1. \E a \in {"Created", "Exception"} : Finish(c, a)
    BY <1>5 DEF Insertion, InsertVersion, Register, StoreChunk, CreateOrganization, Commit
  <2>2. UNCHANGED <<call, tools>>
    BY <1>5 DEF Insertion, InsertVersion, Register, StoreChunk, CreateOrganization, Commit,
                Finish, inputs, work
  <2> QED
    BY <1>2, <2>1, <2>2
<1>6. CASE Arrive(c) \/ ReadLatest(c) \/ Resolve(c) \/ Search(c)
  BY <1>1, <1>6 DEF Arrive, ReadLatest, Resolve, Search, Go, inputs, work
<1>7. CASE ListTools(c)
  <2>1. UNCHANGED <<call, answer>> /\ at[c] = "list"
    BY <1>7 DEF ListTools, Go, inputs
  <2>2. \E new : tools' = [tools EXCEPT ![c] = new]
    BY <1>7 DEF ListTools
  <2> QED
    BY <2>1, <2>2
<1>8. CASE Assemble(c)
  <2>1. UNCHANGED <<call, tools>> /\ answer' = [answer EXCEPT ![c] = "Prepared"]
    BY <1>8 DEF Assemble, inputs, work
  <2> QED
    BY <1>8, <2>1
<1> QED
  BY <1>3, <1>5, <1>7, <1>4, <1>6, <1>8, StepsByEffect

(* A stream is refused if it has tools, and gets none after that.          *)
LEMMA DistinctStep ==
    ASSUME IInv, NEW c \in Calls, Step(c)
    PROVE  ToolNamesAreDistinct'
<1> USE DEF IInv, InputInv, Calls
<1>1. SUFFICES ASSUME NEW d \in Calls, answer'[d] = "Prepared", call[d].stream
               PROVE  tools'[d] = <<>>
  BY OnlyTheseChange, NameStep DEF NameInv, ToolNamesAreDistinct
<1>2. CASE answer[d] = "Prepared"
  <2>1. tools[d] = <<>> /\ at[d] = "done"
    BY <1>1, <1>2 DEF ToolNamesAreDistinct, TypeOK, Pending
  <2> QED
    BY <2>1, OnlyTheseChange
<1>3. CASE answer[d] # "Prepared"
  <2>1. d = c /\ Assemble(c)
    BY <1>1, <1>3, OnlyTheseChange
  <2> QED
    BY <1>1, <2>1 DEF Assemble, UsesTools, work
<1> QED
  BY <1>2, <1>3

-----------------------------------------------------------------------------
(* The answers, the rows and the histories of TypeOK.                      *)
AnswerInv ==
    \A c \in Calls :
        /\ at[c] \in {"find", "list"} => todo[c] # <<>>
        /\ at[c] = "done" <=> answer[c] # Pending
        /\ prepared[c] # <<>> <=> answer[c] = "Prepared"
HistoryInv == acked \subseteq Rows /\ \A c \in Calls : known[c] \subseteq acked
Places == {"arrive", "latest", "slug", "insert", "resolve", "embed", "search", "find", "list",
           "assemble", "done"}

LEMMA AnswerStep ==
    ASSUME IInv, NEW c \in Calls, Step(c)
    PROVE  AnswerInv' /\ at' \in [Calls -> Places]
<1> USE DEF IInv, InputInv, Calls, Places
<1>1. call' = call
  BY OnlyTheseChange
<1>2. CASE Refusal(c)
  <2>1. PICK a : a \notin {Pending, "Prepared"} /\ Refuse(c, a)
    BY <1>2, RefusalsRefuse
  <2>2. UNCHANGED <<todo, prepared>> /\ at' = [at EXCEPT ![c] = "done"]
        /\ answer' = [answer EXCEPT ![c] = a]
    BY <2>1 DEF Refuse, Finish, work
  <2>3. prepared[c] = <<>>
    BY <1>2, RefusalsRefuse DEF TypeOK, Pending
  <2> QED
    BY <1>1, <2>1, <2>2, <2>3 DEF AnswerInv, TypeOK
<1>3. CASE Pause(c)
  BY <1>1, <1>3 DEF Pause, Embed, MayEmbed, FindServer, SlugFree, Go, inputs, work, AnswerInv,
                    TypeOK
<1>4. CASE Insertion(c)
  <2>1. \E a \in {"Created", "Exception"} : Finish(c, a)
    BY <1>4 DEF Insertion, InsertVersion, Register, StoreChunk, CreateOrganization, Commit
  <2>2. UNCHANGED todo /\ at[c] = "insert"
    BY <1>4 DEF Insertion, InsertVersion, Register, StoreChunk, CreateOrganization, Commit, work
  <2> QED
    BY <1>1, <2>1, <2>2 DEF Finish, AnswerInv, TypeOK, Pending
<1>5. CASE Arrive(c)
  <2>1. FirstStep(c) \in Places \ {"list", "done"} /\ (FirstStep(c) = "find" => todo[c] # <<>>)
    BY FirstStepOfKind
  <2> QED
    BY <1>1, <1>5, <2>1 DEF Arrive, work, AnswerInv, TypeOK
<1>6. CASE ReadLatest(c)
  BY <1>1, <1>6 DEF ReadLatest, Go, AnswerInv, TypeOK
<1>7. CASE Resolve(c) \/ Search(c)
  BY <1>1, <1>7 DEF Resolve, Search, AfterPrompt, AfterRetrieval, Go, AnswerInv, TypeOK
<1>8. CASE ListTools(c)
  <2>1. Len(todo[c]) # 1 => Tail(todo[c]) # <<>>
    <3>1. todo[c] \in Seq(Names) /\ todo[c] # <<>>
      BY <1>8 DEF ListTools, TypeOK
    <3>2. Len(todo[c]) \in Nat /\ Len(todo[c]) # 0 /\ Len(Tail(todo[c])) = Len(todo[c]) - 1
      BY <3>1
    <3>3. Len(todo[c]) # 1 => Len(Tail(todo[c])) # 0
      BY <3>2
    <3>4. Len(<<>>) = 0
      OBVIOUS
    <3> QED
      BY <3>3, <3>4
  <2> QED
    BY <1>1, <1>8, <2>1 DEF ListTools, Go, AnswerInv, TypeOK
<1>9. CASE Assemble(c)
  BY <1>1, <1>9 DEF Assemble, work, AnswerInv, TypeOK, Pending
<1> QED
  BY <1>2, <1>4, <1>6, <1>8, <1>3, <1>5, <1>7, <1>9, StepsByEffect

LEMMA HistoryStep ==
    ASSUME IInv, NEW c \in Calls, Step(c)
    PROVE  HistoryInv'
<1> USE DEF IInv, InputInv, Calls, Rows
<1>1. CASE Refusal(c)
  BY <1>1, RefusalsRefuse DEF Refuse, Finish, inputs, tables, HistoryInv, TypeOK
<1>2. CASE Insertion(c)
  <2>1. call' = call /\ known' = known
    BY <1>2 DEF Insertion, InsertVersion, Register, StoreChunk, CreateOrganization, Commit,
                Finish, inputs
  <2>2. acked \subseteq acked' /\ acked' \subseteq Rows'
    BY <1>2 DEF Insertion, InsertVersion, Register, StoreChunk, CreateOrganization, Commit,
                Finish, TypeOK
  <2> QED
    BY <2>1, <2>2 DEF HistoryInv, TypeOK
<1>3. CASE Arrive(c)
  BY <1>3 DEF Arrive, inputs, tables, HistoryInv, TypeOK
<1>4. CASE Pause(c)
  BY <1>4 DEF Pause, Embed, FindServer, SlugFree, Go, inputs, tables, HistoryInv, TypeOK
<1>5. CASE ReadLatest(c) \/ Resolve(c) \/ Search(c) \/ ListTools(c) \/ Assemble(c)
  BY <1>5 DEF ReadLatest, Resolve, Search, ListTools, Assemble, Go, inputs, tables, HistoryInv,
              TypeOK
<1> QED
  BY <1>1, <1>3, <1>5, <1>2, <1>4, StepsByEffect

LEMMA TypeStep ==
    ASSUME IInv, NEW c \in Calls, Step(c)
    PROVE  TypeOK'
<1>1. /\ failover' \in BOOLEAN /\ embedding' \in BOOLEAN /\ call' = call
      /\ latest' \in [Calls -> Nat]
  <2> USE DEF IInv, InputInv, Calls, TypeOK
  <2>1. CASE Refusal(c)
    BY <2>1, RefusalsRefuse DEF Refuse, Finish, inputs, work
  <2>2. CASE Pause(c)
    BY <2>2 DEF Pause, Embed, FindServer, SlugFree, Go, inputs, work
  <2>3. CASE Insertion(c)
    BY <2>3 DEF Insertion, InsertVersion, Register, StoreChunk, CreateOrganization, Commit,
                Finish, inputs, work
  <2>4. CASE ReadLatest(c)
    <3>1. Max({0} \cup VersionNumbers(call[c].org, call[c].name)) \in Nat
      <4>1. \A k \in {0} \cup VersionNumbers(call[c].org, call[c].name) : k \in Nat
        BY DEF VersionInv, VersionNumbers, VersionsOf
      <4>2. RowInv /\ VersionsAreDense
        BY DEF VersionInv
      <4> QED
        BY <4>1, <4>2, HighestNumber
    <3> QED
      BY <2>4, <3>1 DEF ReadLatest, Go, inputs, VersionNumbers
  <2>5. CASE Arrive(c) \/ Resolve(c) \/ Search(c) \/ ListTools(c) \/ Assemble(c)
    BY <2>5 DEF Arrive, Resolve, Search, ListTools, Assemble, Go, inputs, work
  <2> QED
    BY <2>1, <2>3, <2>4, <2>5, <2>2, StepsByEffect
<1>2. \A row \in prompts' : row.by \in Calls' /\ row.version \in Nat \ {0}
  BY RowStep, VersionStep DEF RowInv, VersionInv
<1>3. \A row \in servers' \cup chunks' \cup organizations' : row.by \in Calls'
  BY RowStep DEF RowInv
<1>4. \A d \in Calls' : \A n \in 1..Len(messages'[d]) : messages'[d][n].role \in Roles
  <2>1. TAKE d \in Calls'
  <2>2. TAKE n \in 1..Len(messages'[d])
  <2>3. messages'[d] \in Seq(Range(messages'[d]))
    BY SourceStep DEF SourceInv
  <2>4. messages'[d][n] \in Range(messages'[d])
    BY <2>3, ElementOfSequence
  <2> QED
    BY <2>4, SourceStep DEF SourceInv
<1>5. AnswerInv' /\ HistoryInv' /\ at' \in [Calls' -> Places]
  BY <1>1, AnswerStep, HistoryStep DEF Calls
<1> QED
  BY <1>1, <1>3, <1>5, <1>2, <1>4 DEF TypeOK, AnswerInv, HistoryInv, Places, Calls

LEMMA InitHasInv == Init => IInv
<1> SUFFICES ASSUME Init
             PROVE  IInv
  OBVIOUS
<1> USE DEF Init, Calls
<1>1. \A c \in Calls : call[c].kind \in Kinds
  BY PreparationAssumption
<1>2. InputInv
  <2>1. \A c \in Calls : todo[c] \in Seq(Names)
    BY PreparationAssumption
  <2> QED
    BY <2>1 DEF InputInv
<1>3. RowInv
  BY FS_EmptySet DEF RowInv
<1>4. VersionInv
  BY DEF VersionInv, VersionsAreDense
<1>5. PlaceInv
  BY DEF PlaceInv
<1>6. SourceInv
  <2>1. SUFFICES ASSUME NEW c \in Calls
                 PROVE  /\ messages[c] \in Seq(Range(messages[c]))
                        /\ \A message \in Range(messages[c]) :
                            message.role \in Roles /\ message.from \in Seq(OwnCalls(c))
                        /\ tools[c] \in Seq(ToolsOf(c))
    BY DEF SourceInv
  <2>2. CASE call[c].kind # "response"
    <3>1. messages[c] = <<>> /\ tools[c] = <<>>
      BY <2>2
    <3>2. Range(<<>>) = {}
      BY DEF Range
    <3>3. \A S : <<>> \in Seq(S)
      OBVIOUS
    <3> QED
      BY <3>1, <3>2, <3>3
  <2>3. CASE call[c].kind = "response"
    <3> DEFINE M == [role : Roles, size : Nat, calls : BOOLEAN, from : {<<>>}]
    <3>1. messages[c] \in Seq(M)
      BY <2>3, PreparationAssumption
    <3>2. \A message \in M : message.role \in Roles /\ message.from \in Seq(OwnCalls(c))
      <4>1. <<>> \in Seq(OwnCalls(c))
        OBVIOUS
      <4>2. \A message \in M : message.role \in Roles /\ message.from = <<>>
        OBVIOUS
      <4> QED
        BY <4>1, <4>2
    <3> HIDE DEF M
    <3>3. messages[c] \in Seq(Range(messages[c]))
      BY <3>1, SequenceOfRange
    <3>4. \A message \in Range(messages[c]) : message \in M
      BY <3>1 DEF Range
    <3>5. call[c].tools \in Seq(Names)
      BY <2>3, PreparationAssumption
    <3>6. tools[c] = [n \in 1..Len(call[c].tools) |->
                        [name |-> call[c].tools[n], source |-> Inline]]
      BY <2>3
    <3>7. tools[c] \in [1..Len(call[c].tools) -> ToolsOf(c)]
      BY <3>5, <3>6 DEF ToolsOf
    <3>8. Len(call[c].tools) \in Nat
      BY <3>5
    <3>9. tools[c] \in Seq(ToolsOf(c))
      BY <3>7, <3>8, SequenceOf
    <3> QED
      BY <3>2, <3>3, <3>4, <3>9
  <2> QED
    BY <2>2, <2>3
<1>7. NameInv
  <2>1. SUFFICES ASSUME NEW c \in Calls, NEW n \in 1..Len(tools[c])
                 PROVE  tools[c][n].source = Inline
    BY DEF NameInv
  <2>2. CASE call[c].kind # "response"
    BY <2>2
  <2>3. CASE call[c].kind = "response"
    <3>1. call[c].tools \in Seq(Names)
      BY <2>3, PreparationAssumption
    <3>2. Len(tools[c]) = Len(call[c].tools)
      BY <2>3, <3>1
    <3> QED
      BY <2>3, <3>1, <3>2
  <2> QED
    BY <2>2, <2>3
<1>8. ToolNamesAreDistinct
  BY DEF ToolNamesAreDistinct, Pending
<1>9. TypeOK
  <2>1. \A c \in Calls : \A n \in 1..Len(messages[c]) : messages[c][n].role \in Roles
    BY <1>6, ElementOfSequence DEF SourceInv
  <2> QED
    BY <2>1 DEF TypeOK, Rows, Pending
<1> QED
  BY <1>2, <1>4, <1>6, <1>8, <1>3, <1>5, <1>7, <1>9 DEF IInv

LEMMA StutterKeepsInv ==
    ASSUME IInv, UNCHANGED vars
    PROVE  IInv'
<1> USE DEF vars, inputs, tables, work, IInv, Calls
<1>1. InputInv' /\ RowInv' /\ PlaceInv'
  BY DEF InputInv, RowInv, PlaceInv, ServersNamed
<1>2. VersionInv'
  BY DEF VersionInv, VersionsAreDense, VersionsOf
<1>3. SourceInv'
  <2>1. \A c : OwnCalls(c)' = OwnCalls(c) /\ ToolsOf(c)' = ToolsOf(c)
    BY DEF OwnCalls, ToolsOf
  <2> QED
    BY <2>1 DEF SourceInv
<1>4. NameInv' /\ ToolNamesAreDistinct'
  BY DEF NameInv, ToolNamesAreDistinct
<1>5. TypeOK'
  BY DEF TypeOK, Rows
<1> QED
  BY <1>1, <1>3, <1>5, <1>2, <1>4

-----------------------------------------------------------------------------
(* The inductive invariant, from which the properties follow.              *)
THEOREM PreparationInvariance == Spec => []IInv
<1>1. Init => IInv
  BY InitHasInv
<1>2. IInv /\ [Next]_vars => IInv'
  <2>1. ASSUME IInv, NEW c \in Calls, Step(c)
        PROVE  IInv'
    BY <2>1, InputStep, RowStep, VersionStep, PlaceStep, SourceStep, NameStep, TypeStep,
       DistinctStep DEF IInv
  <2> QED
    BY <2>1, StutterKeepsInv DEF Next, Idle
<1> QED
  BY <1>1, <1>2, PTL DEF Spec

(* Every reachable state of the calls and tables is well typed.            *)
THEOREM PreparationTypeCorrect == Spec => []TypeOK
<1>1. IInv => TypeOK
  BY DEF IInv
<1> QED
  BY <1>1, PreparationInvariance, PTL

(* create_version: reading the highest version and inserting the next one  *)
(* leaves no gap and repeats no number, whoever runs between the two.      *)
THEOREM VersionsAlwaysDense == Spec => []VersionsAreDense
<1>1. IInv => VersionsAreDense
  BY DEF IInv, VersionInv
<1> QED
  BY <1>1, PreparationInvariance, PTL

(* post_responses: prompts, chunks and servers of one organization never   *)
(* reach the messages or tools of another.                                 *)
THEOREM OrganizationsAlwaysApart == Spec => []OrganizationsAreApart
<1>1. IInv => OrganizationsAreApart
  <2> SUFFICES ASSUME IInv, NEW c \in Calls
               PROVE  /\ \A n \in 1..Len(messages[c]) : \A by \in Range(messages[c][n].from) :
                          call[by].org = call[c].org
                      /\ \A n \in 1..Len(tools[c]) :
                          tools[c][n].source # Inline => call[tools[c][n].source].org = call[c].org
    BY DEF OrganizationsAreApart
  <2>1. ASSUME NEW n \in 1..Len(messages[c]), NEW by \in Range(messages[c][n].from)
        PROVE  call[by].org = call[c].org
    <3>1. messages[c][n] \in Range(messages[c])
      BY ElementOfSequence DEF IInv, SourceInv
    <3>2. messages[c][n].from \in Seq(OwnCalls(c))
      BY <3>1 DEF IInv, SourceInv
    <3>3. by \in OwnCalls(c)
      BY <3>2 DEF Range
    <3> QED
      BY <3>3 DEF OwnCalls
  <2>2. ASSUME NEW n \in 1..Len(tools[c]), tools[c][n].source # Inline
        PROVE  call[tools[c][n].source].org = call[c].org
    <3>1. tools[c][n] \in ToolsOf(c)
      BY ElementOfSequence DEF IInv, SourceInv
    <3> QED
      BY <2>2, <3>1 DEF ToolsOf, OwnCalls
  <2> QED
    BY <2>1, <2>2
<1> QED
  BY <1>1, PreparationInvariance, PTL

(* ResolveToolsForGeneration: a name discovered tells the tool of one      *)
(* server, and a stream is prepared without tools.                         *)
THEOREM ToolNamesAlwaysDistinct == Spec => []ToolNamesAreDistinct
<1>1. IInv => ToolNamesAreDistinct
  BY DEF IInv
<1> QED
  BY <1>1, PreparationInvariance, PTL

-----------------------------------------------------------------------------
(* What an answer says of the rows.  A row is written with the answer, so  *)
(* a call that goes on has none, and what made a conflict stays.           *)
Conflicts ==
    {"PromptVersionConflictError", "McpServerNameConflictError", "OrganizationSlugConflictError"}
TruthInv ==
    \A c \in Calls :
        /\ answer[c] \in {Pending, "Prepared", "Created"} \cup DOMAIN Refusals
        /\ answer[c] = "Created" => RowsBy(c) # {}
        /\ RowsBy(c) # {} => answer[c] \in {"Created", "Exception"}
        /\ answer[c] \in Conflicts => Taken(c)

LEMMA StatusOfAnswer ==
    ASSUME NEW a \in {"Created"} \cup DOMAIN Refusals
    PROVE  /\ Status(a) = 201 => a = "Created"
           /\ Status(a) = 409 => a \in Conflicts
           /\ Status(a) \in 400..499 => a \notin {"Created", "Exception"}
<1> USE DEF Status, Refusals, Conflicts
<1>1. CASE a = "Created"
  BY <1>1
<1>2. CASE a \in Conflicts
  BY <1>2
<1>3. CASE a # "Created" /\ a \notin Conflicts
  BY <1>3
<1> QED
  BY <1>1, <1>3, <1>2

(* A refusal with a conflict has seen what is taken.                       *)
LEMMA ConflictsAreTaken ==
    ASSUME IInv, TruthInv, NEW c \in Calls, Refusal(c)
    PROVE  \E a \in DOMAIN Refusals : Refuse(c, a) /\ (a \in Conflicts => Taken(c))
<1> USE DEF IInv, InputInv, Refusals, Conflicts
<1>1. \A row \in Rows : row.by # c
  <2>1. answer[c] = Pending
    BY RefusalsRefuse DEF TypeOK
  <2> QED
    BY <2>1 DEF TruthInv, Pending, RowsBy
<1>2. CASE VersionConflict(c)
  BY <1>1, <1>2 DEF VersionConflict, Taken, Rows, VersionsOf
<1>3. CASE NameConflict(c)
  BY <1>1, <1>3 DEF NameConflict, Taken, Rows, ServersNamed
<1>4. CASE SlugConflict(c)
  BY <1>1, <1>4 DEF SlugConflict, Taken, Rows, WithSlug
<1>5. CASE StatementFails(c) \/ PromptMissing(c) \/ PromptMismatch(c) \/ EmbedRefused(c)
           \/ EmbedFails(c) \/ ServerMissing(c)
  BY <1>5 DEF StatementFails, PromptMissing, PromptMismatch, EmbedRefused, EmbedFails,
              ServerMissing
<1>6. CASE ListFails(c) \/ ToolsCollide(c) \/ Overflows(c) \/ StreamRefused(c)
  BY <1>6 DEF ListFails, ToolsCollide, Overflows, StreamRefused
<1> QED
  BY <1>2, <1>4, <1>6, <1>3, <1>5 DEF Refusal

(* No row is removed, and a call that is done keeps what it has read.      *)
LEMMA RowsStay ==
    ASSUME IInv, NEW c \in Calls, Step(c)
    PROVE  /\ call' = call
           /\ prompts \subseteq prompts' /\ servers \subseteq servers'
           /\ organizations \subseteq organizations'
           /\ \A d \in Calls : answer[d] # Pending => latest'[d] = latest[d]
<1> USE DEF IInv, InputInv, Calls
<1>1. CASE Refusal(c)
  BY <1>1, RefusalsRefuse DEF Refuse, Finish, inputs, tables, work
<1>2. CASE Pause(c)
  BY <1>2 DEF Pause, Embed, FindServer, SlugFree, Go, inputs, tables, work
<1>3. CASE Insertion(c)
  BY <1>3 DEF Insertion, InsertVersion, Register, StoreChunk, CreateOrganization, Commit,
              Finish, inputs, work
<1>4. CASE ReadLatest(c)
  <2>1. answer[c] = Pending
    BY <1>4 DEF ReadLatest, TypeOK
  <2> QED
    BY <1>4, <2>1 DEF ReadLatest, Go, inputs, tables, TypeOK
<1>5. CASE Arrive(c) \/ Resolve(c) \/ Search(c) \/ ListTools(c) \/ Assemble(c)
  BY <1>5 DEF Arrive, Resolve, Search, ListTools, Assemble, Go, inputs, tables, work
<1> QED
  BY <1>1, <1>3, <1>5, <1>2, <1>4, StepsByEffect

LEMMA TakenStays ==
    ASSUME IInv, NEW c \in Calls, Step(c), NEW d \in Calls, answer[d] # Pending, Taken(d)
    PROVE  Taken(d)'
  BY RowsStay DEF Taken, VersionsOf, ServersNamed, WithSlug

(* What an insertion writes is the row of its call.                        *)
LEMMA InsertionWrites ==
    ASSUME IInv, NEW c \in Calls, Insertion(c)
    PROVE  /\ at[c] = "insert"
           /\ \E row : row.by = c /\ Rows' = Rows \cup {row}
           /\ \E a \in {"Created", "Exception"} : Finish(c, a)
<1>1. CASE InsertVersion(c)
  <2>1. PromptRow(c).by = c /\ Rows' = Rows \cup {PromptRow(c)}
    BY <1>1 DEF InsertVersion, PromptRow, Rows
  <2> QED
    BY <1>1, <2>1 DEF InsertVersion, Commit
<1>2. CASE Register(c)
  BY <1>2 DEF Register, ServerRow, Commit, Rows
<1>3. CASE StoreChunk(c)
  BY <1>3 DEF StoreChunk, ChunkRow, Commit, Rows
<1>4. CASE CreateOrganization(c)
  BY <1>4 DEF CreateOrganization, OrganizationRow, Commit, Rows
<1> QED
  BY <1>1, <1>3, <1>2, <1>4 DEF Insertion

LEMMA TruthStep ==
    ASSUME IInv, TruthInv, NEW c \in Calls, Step(c)
    PROVE  TruthInv'
<1> USE DEF IInv, InputInv, Calls
<1>1. call' = call
  BY RowsStay
<1>2. \A d \in Calls : answer[d] # Pending /\ Taken(d) => Taken(d)'
  BY TakenStays
<1>3. CASE UNCHANGED <<tables, answer>>
  <2>1. \A d \in Calls : RowsBy(d)' = RowsBy(d)
    BY <1>3 DEF tables, RowsBy, Rows
  <2> QED
    BY <1>1, <1>2, <1>3, <2>1 DEF TruthInv, Conflicts, Pending
<1>4. CASE Refusal(c)
  <2>1. PICK a \in DOMAIN Refusals : Refuse(c, a) /\ (a \in Conflicts => Taken(c))
    BY <1>4, ConflictsAreTaken
  <2>2. \A d \in Calls : RowsBy(d)' = RowsBy(d) /\ Taken(d)' = Taken(d)
    BY <2>1 DEF Refuse, Finish, inputs, tables, work, RowsBy, Rows, Taken, VersionsOf,
                ServersNamed, WithSlug
  <2>3. answer' = [answer EXCEPT ![c] = a]
    BY <2>1 DEF Refuse, Finish
  <2>4. RowsBy(c) = {}
    BY <1>4, RefusalsRefuse DEF TypeOK, TruthInv, Pending
  <2>5. a # "Created"
    BY <2>1 DEF Refusals
  <2> QED
    BY <1>1, <2>2, <2>4, <2>1, <2>3, <2>5 DEF TruthInv
<1>5. CASE Insertion(c)
  <2>1. PICK a \in {"Created", "Exception"} : Finish(c, a)
    BY <1>5, InsertionWrites
  <2>2. PICK row : row.by = c /\ Rows' = Rows \cup {row}
    BY <1>5, InsertionWrites
  <2>3. RowsBy(c)' # {} /\ \A d \in Calls : d # c => RowsBy(d)' = RowsBy(d)
    BY <2>2 DEF RowsBy
  <2>4. answer' = [answer EXCEPT ![c] = a] /\ a \in DOMAIN Refusals \cup {"Created"}
        /\ a \notin Conflicts
    BY <2>1 DEF Finish, Refusals, Conflicts
  <2>5. \A d \in Calls : answer[d] \in Conflicts => answer[d] # Pending
    BY DEF Conflicts, Pending
  <2> QED
    BY <1>1, <1>2, <2>1, <2>3, <2>4, <2>5 DEF TruthInv
<1>6. CASE Assemble(c)
  <2>1. answer' = [answer EXCEPT ![c] = "Prepared"] /\ answer[c] = Pending
    BY <1>6 DEF Assemble, TypeOK
  <2>2. \A d \in Calls : RowsBy(d)' = RowsBy(d)
    BY <1>6 DEF Assemble, tables, RowsBy, Rows
  <2> QED
    BY <1>1, <1>2, <2>1, <2>2 DEF TruthInv, Conflicts, Pending
<1>7. CASE Arrive(c) \/ Pause(c)
  BY <1>3, <1>7 DEF Arrive, Pause, Embed, FindServer, SlugFree, Go
<1>8. CASE ReadLatest(c) \/ Resolve(c) \/ Search(c) \/ ListTools(c)
  BY <1>3, <1>8 DEF ReadLatest, Resolve, Search, ListTools, Go
<1> QED
  BY <1>4, <1>6, <1>8, <1>5, <1>7, StepsByEffect

(* The creation routes: 201 has written its row, 4xx has written none, and *)
(* 409 is due to the row of another call, whatever runs in between.        *)
THEOREM AnswersAlwaysTrue == Spec => []AnswersAreTrue
<1>1. Init => TruthInv
  BY DEF Init, TruthInv, RowsBy, Rows, Conflicts, Pending
<1>2. IInv /\ TruthInv /\ [Next]_vars => TruthInv'
  <2>1. ASSUME IInv, TruthInv, UNCHANGED vars
        PROVE  TruthInv'
    BY <2>1 DEF TruthInv, vars, inputs, tables, work, RowsBy, Rows, Taken, VersionsOf,
                ServersNamed, WithSlug, Calls
  <2> QED
    BY <2>1, TruthStep DEF Next, Idle
<1>3. TruthInv => AnswersAreTrue
  <2> SUFFICES ASSUME TruthInv, NEW c \in Calls, answer[c] \notin {Pending, "Prepared"}
               PROVE  /\ Status(answer[c]) = 201 => RowsBy(c) # {}
                      /\ Status(answer[c]) \in 400..499 => RowsBy(c) = {}
                      /\ Status(answer[c]) = 409 => Taken(c)
    BY DEF AnswersAreTrue
  <2>1. /\ answer[c] \in {"Created"} \cup DOMAIN Refusals
        /\ answer[c] = "Created" => RowsBy(c) # {}
        /\ RowsBy(c) # {} => answer[c] \in {"Created", "Exception"}
        /\ answer[c] \in Conflicts => Taken(c)
    BY DEF TruthInv
  <2>2. PICK a \in {"Created"} \cup DOMAIN Refusals : a = answer[c]
    BY <2>1
  <2>3. /\ Status(a) = 201 => a = "Created"
        /\ Status(a) = 409 => a \in Conflicts
        /\ Status(a) \in 400..499 => a \notin {"Created", "Exception"}
    BY StatusOfAnswer
  <2> QED
    BY <2>1, <2>2, <2>3
<1> QED
  BY <1>1, <1>2, <1>3, PreparationInvariance, PTL DEF Spec

-----------------------------------------------------------------------------
(* What was acknowledged is read: the rows of a table carry its name, and  *)
(* a call that has looked for its prompt, its servers or its chunks looked *)
(* after it knew of the rows in known.                                     *)
TableInv ==
    /\ \A row \in prompts : row.table = "prompts"
    /\ \A row \in servers : row.table = "servers"
    /\ \A row \in chunks : row.table = "chunks" /\ row.distance = call[row.by].distance
    /\ \A row \in organizations : row.table = "organizations"

PromptMissed(c) ==
    \A row \in KnownRows(c, "prompts") :
        row.name = call[c].prompt.name => call[c].prompt.version \notin {{}, {row.version}}
ServerMissed(c) == \A row \in KnownRows(c, "servers") : row.name # Head(todo[c])

(* The prompt that was read is in the last message, and none known is of a *)
(* later version; the chunks are in the first.                             *)
IsRecent(c, row) ==
    IF call[c].prompt.version # {} THEN row.version \in call[c].prompt.version
    ELSE \A older \in KnownRows(c, "prompts") :
             older.name = row.name => older.version <= row.version
PromptRead(c) ==
    /\ messages[c] # <<>>
    /\ \E row \in prompts : <<row.by>> = Last(messages[c]).from /\ IsRecent(c, row)
ChunksRead(c) ==
    \A row \in KnownRows(c, "chunks") :
        \/ row.by \in Range(Head(messages[c]).from)
        \/ /\ Len(Head(messages[c]).from) = call[c].rag.topK
           /\ \A by \in Range(Head(messages[c]).from) : call[by].distance <= row.distance

Gathered(c) == at[c] \in {"find", "list", "assemble"} \/ answer[c] = "Prepared"
ReadInv ==
    \A c \in Calls : call[c].kind = "response" =>
        /\ answer[c] = "PromptNotFoundError" => PromptMissed(c)
        /\ answer[c] = "McpServerNotFoundError" => ServerMissed(c)
        /\ call[c].prompt # NoPrompt /\ (at[c] \in {"embed", "search"} \/ Gathered(c)) =>
             PromptRead(c)
        /\ call[c].rag.enabled /\ Gathered(c) => ChunksRead(c)

LEMMA TableStep ==
    ASSUME IInv, TableInv, NEW c \in Calls, Step(c)
    PROVE  TableInv'
<1> USE DEF TableInv
<1>1. call' = call
  BY RowsStay
<1>2. CASE UNCHANGED tables
  BY <1>1, <1>2 DEF tables
<1>3. CASE Refusal(c)
  BY <1>2, <1>3, RefusalsRefuse DEF Refuse
<1>4. CASE Insertion(c)
  BY <1>1, <1>4 DEF Insertion, InsertVersion, Register, StoreChunk, CreateOrganization, PromptRow,
                    ServerRow, ChunkRow, OrganizationRow
<1>5. CASE Arrive(c) \/ Pause(c)
  BY <1>2, <1>5 DEF Arrive, Pause, Embed, FindServer, SlugFree
<1>6. CASE ReadLatest(c) \/ Resolve(c) \/ Search(c) \/ ListTools(c) \/ Assemble(c)
  BY <1>2, <1>6 DEF ReadLatest, Resolve, Search, ListTools, Assemble
<1> QED
  BY <1>3, <1>5, <1>4, <1>6, StepsByEffect

(* A step of a call leaves what the others have gathered.                  *)
LEMMA OthersStay ==
    ASSUME IInv, NEW c \in Calls, Step(c), NEW d \in Calls, d # c
    PROVE  /\ at'[d] = at[d] /\ answer'[d] = answer[d] /\ messages'[d] = messages[d]
           /\ todo'[d] = todo[d] /\ known'[d] = known[d] /\ prepared'[d] = prepared[d]
           /\ tools'[d] = tools[d]
<1> USE DEF IInv, InputInv, Calls, TypeOK
<1>1. CASE Refusal(c)
  BY <1>1, RefusalsRefuse DEF Refuse, Finish, inputs, tables, work
<1>2. CASE Pause(c)
  BY <1>2 DEF Pause, Embed, FindServer, SlugFree, Go, inputs, tables, work
<1>3. CASE Insertion(c)
  BY <1>3 DEF Insertion, InsertVersion, Register, StoreChunk, CreateOrganization, Commit,
              Finish, inputs, work
<1>4. CASE Arrive(c) \/ ReadLatest(c) \/ Resolve(c) \/ Search(c) \/ ListTools(c) \/ Assemble(c)
  BY <1>4 DEF Arrive, ReadLatest, Resolve, Search, ListTools, Assemble, Go, inputs, tables, work
<1> QED
  BY <1>1, <1>3, <1>2, <1>4, StepsByEffect

(* What is known was acknowledged, so it is in its table.                  *)
LEMMA KnownIsThere ==
    ASSUME IInv, TableInv, NEW c \in Calls
    PROVE  /\ \A row \in KnownRows(c, "prompts") : row \in prompts /\ row.org = call[c].org
           /\ \A row \in KnownRows(c, "servers") : row \in servers /\ row.org = call[c].org
           /\ \A row \in KnownRows(c, "chunks") : row \in chunks /\ row.org = call[c].org
  BY DEF IInv, TypeOK, TableInv, KnownRows, Rows

(* A prompt is not found only if no version that would do was known.       *)
LEMMA MissingIsUnknown ==
    ASSUME IInv, TableInv, NEW c \in Calls
    PROVE  /\ Selected(c) = {} => PromptMissed(c)
           /\ ServersNamed(call[c].org, Head(todo[c])) = {} => ServerMissed(c)
<1>1. ASSUME Selected(c) = {}, NEW row \in KnownRows(c, "prompts"),
             row.name = call[c].prompt.name
      PROVE  call[c].prompt.version \notin {{}, {row.version}}
  <2> DEFINE versions == VersionsOf(call[c].org, call[c].prompt.name)
             n == Cardinality(versions)
  <2>1. row \in versions
    BY <1>1, KnownIsThere DEF VersionsOf
  <2>2. n \in Nat /\ {other.version : other \in versions} = 1..n
    BY DenseNumbers DEF IInv, VersionInv, VersionNumbers
  <2>3. PICK highest \in versions : highest.version = n
    <3> HIDE DEF versions
    <3>1. row.version \in 1..n
      BY <2>1, <2>2
    <3>2. n \in 1..n
      BY <2>2, <3>1
    <3> QED
      BY <2>2, <3>2
  <2>4. \A other \in versions : other.version <= highest.version
    <3> HIDE DEF versions
    <3> QED
      BY <2>2, <2>3
  <2>5. CASE call[c].prompt.version = {}
    BY <1>1, <2>3, <2>4, <2>5 DEF Selected
  <2>6. CASE call[c].prompt.version = {row.version}
    BY <1>1, <2>1, <2>6 DEF Selected
  <2> QED
    BY <2>5, <2>6
<1>2. ASSUME ServersNamed(call[c].org, Head(todo[c])) = {}, NEW row \in KnownRows(c, "servers")
      PROVE  row.name # Head(todo[c])
  BY <1>2, KnownIsThere DEF ServersNamed
<1> QED
  BY <1>1, <1>2 DEF PromptMissed, ServerMissed

(* A request is refused for a missing prompt or server where it looks.     *)
LEMMA RefusedForMissing ==
    ASSUME NEW c \in Calls, Refusal(c)
    PROVE  \E a : /\ a \notin {Pending, "Prepared"} /\ Refuse(c, a)
                  /\ a = "PromptNotFoundError" => Selected(c) = {}
                  /\ a = "McpServerNotFoundError" => ServersNamed(call[c].org, Head(todo[c])) = {}
<1> USE DEF Pending
<1>1. CASE StatementFails(c) \/ VersionConflict(c) \/ NameConflict(c) \/ SlugConflict(c)
           \/ PromptMissing(c) \/ PromptMismatch(c)
  BY <1>1 DEF StatementFails, VersionConflict, NameConflict, SlugConflict, PromptMissing,
              PromptMismatch
<1>2. CASE EmbedRefused(c) \/ EmbedFails(c) \/ ServerMissing(c)
  BY <1>2 DEF EmbedRefused, EmbedFails, MayEmbed, ServerMissing
<1>3. CASE ListFails(c) \/ ToolsCollide(c) \/ Overflows(c) \/ StreamRefused(c)
  BY <1>3 DEF ListFails, ToolsCollide, Overflows, StreamRefused
<1> QED
  BY <1>1, <1>3, <1>2 DEF Refusal

(* get: the latest version is as recent as any known.                      *)
LEMMA SelectedIsRecent ==
    ASSUME IInv, TableInv, NEW c \in Calls, NEW row \in Selected(c)
    PROVE  row \in prompts /\ IsRecent(c, row)
<1>1. row \in prompts /\ row.org = call[c].org /\ row.name = call[c].prompt.name
  BY DEF Selected, VersionsOf
<1>2. CASE call[c].prompt.version # {}
  BY <1>1, <1>2 DEF Selected, IsRecent
<1>3. CASE call[c].prompt.version = {}
  <2>1. \A other \in VersionsOf(call[c].org, call[c].prompt.name) : other.version <= row.version
    BY <1>3 DEF Selected
  <2> QED
    BY <1>1, <1>3, <2>1, KnownIsThere DEF IsRecent, VersionsOf
<1> QED
  BY <1>2, <1>3

(* Every message rendered from a template names its prompt.                *)
LEMMA LastRendered ==
    ASSUME IInv, NEW c \in Calls, NEW row \in Selected(c), NEW values
    PROVE  LET rendered == Render(call[row.by].template, values, row.by)
           IN  rendered # <<>> /\ Last(rendered).from = <<row.by>>
<1> DEFINE template == call[row.by].template
           rendered == Render(template, values, row.by)
<1>1. row \in prompts
  BY DEF Selected, VersionsOf
<1>2. row.by \in Calls /\ call[row.by].kind = "prompt"
  BY <1>1 DEF IInv, RowInv
<1>3. /\ template \in Seq([role : Roles, literal : Nat, vars : SUBSET STRING])
      /\ template # <<>>
  BY <1>2, PreparationAssumption DEF IInv, InputInv, Calls
<1>4. Len(template) \in Nat /\ Len(template) # 0
  BY <1>3
<1>5. /\ DOMAIN rendered = 1..Len(template)
      /\ \A n \in 1..Len(template) : rendered[n].from = <<row.by>>
  BY DEF Render
<1>6. Len(template) \in 1..Len(template) /\ 1..Len(template) # {}
  BY <1>4
<1>7. Len(rendered) = Len(template)
  <2>1. rendered \in [1..Len(template) -> Range(rendered)]
    <3>1. rendered = [n \in 1..Len(template) |-> rendered[n]]
      BY DEF Render
    <3> HIDE DEF rendered
    <3> QED
      BY <1>5, <3>1 DEF Range
  <2> HIDE DEF rendered
  <2> QED
    BY <1>4, <2>1, SequenceOf
<1> HIDE DEF rendered, template
<1>8. rendered # <<>>
  BY <1>5, <1>6
<1>9. Last(rendered).from = <<row.by>>
  BY <1>5, <1>6, <1>7 DEF Last
<1> QED
  BY <1>8, <1>9 DEF rendered, template

(* The smaller of two numbers is one of them.                              *)
LEMMA SmallerOfTwo ==
    ASSUME NEW a \in Nat, NEW b \in Nat
    PROVE  Min({a, b}) \in {a, b} /\ Min({a, b}) <= a /\ Min({a, b}) <= b
<1>1. \E least \in {a, b} : \A other \in {a, b} : least =< other
  OBVIOUS
<1> QED
  BY <1>1 DEF Min

(* search: a chunk that is known is found, or topK others are as near.     *)
LEMMA FoundOrFarther ==
    ASSUME IInv, TableInv, NEW c \in Calls, call[c].kind = "response",
           NEW hits \in Nearest(call[c].org, call[c].rag.topK),
           NEW row \in KnownRows(c, "chunks")
    PROVE  /\ hits # <<>>
           /\ LET from == ContextMessage(hits).from
              IN  \/ row.by \in Range(from)
                  \/ /\ Len(from) = call[c].rag.topK
                     /\ \A by \in Range(from) : call[by].distance <= row.distance
<1> DEFINE own == {r \in chunks : r.org = call[c].org}
<1>1. call[c].rag.topK \in Nat \ {0}
  BY PreparationAssumption DEF IInv, InputInv, Calls
<1>2. IsFiniteSet(own) /\ Cardinality(own) \in Nat
  BY FS_Subset, FS_CardinalityType DEF IInv, RowInv
<1>3. row \in own
  BY KnownIsThere
<1>4. Cardinality(own) # 0
  BY <1>2, <1>3, FS_EmptySet
<1>5. PICK k \in Nat, n \in Nat : k = call[c].rag.topK /\ n = Cardinality(own)
  BY <1>1, <1>2
<1>6. PICK limit \in Nat : /\ limit = Min({k, n})
                           /\ limit \in {k, n} /\ limit # 0
  <2>1. Min({k, n}) \in {k, n}
    BY SmallerOfTwo
  <2> QED
    BY <1>1, <1>4, <1>5, <2>1
<1>7. /\ hits \in [1..limit -> own] /\ IsInjective(hits)
      /\ \A r \in own \ Range(hits), m \in DOMAIN hits : hits[m].distance <= r.distance
  BY <1>5, <1>6 DEF Nearest
<1>8. \A r \in own : r.distance = call[r.by].distance
  BY DEF TableInv
<1> HIDE DEF own
<1>9. Len(hits) = limit /\ hits # <<>>
  <2>1. Len(hits) = limit
    BY <1>7, SequenceOf
  <2> QED
    BY <1>6, <2>1
<1>10. PICK from : from = ContextMessage(hits).from
  OBVIOUS
<1>11. from = [m \in 1..limit |-> hits[m].by]
  BY <1>9, <1>10 DEF ContextMessage
<1>12. Range(from) = {hits[m].by : m \in 1..limit}
  BY <1>11 DEF Range
<1>13. Len(from) = limit
  <2>1. from \in [1..limit -> Range(from)]
    BY <1>11 DEF Range
  <2> QED
    BY <2>1, SequenceOf
<1>14. CASE row \in Range(hits)
  <2>1. PICK m \in 1..limit : hits[m] = row
    BY <1>7, <1>14 DEF Range
  <2>2. row.by \in Range(from)
    BY <1>12, <2>1
  <2> QED
    BY <1>9, <1>10, <2>2
<1>15. CASE row \notin Range(hits)
  <2>1. limit = k
    <3>1. SUFFICES ASSUME limit = n PROVE FALSE
      BY <1>6
    <3>2. hits \in Injection(1..limit, own)
      BY <1>7 DEF Injection
    <3>3. Cardinality(1..limit) = limit
      BY FS_Interval
    <3>4. hits \in Surjection(1..limit, own)
      BY <1>2, <1>5, <3>1, <3>2, <3>3, FS_Injection
    <3>5. Range(hits) = own
      BY <1>7, <3>4 DEF Surjection, Range
    <3> QED
      BY <1>3, <1>15, <3>5
  <2>2. ASSUME NEW by \in Range(from) PROVE call[by].distance <= row.distance
    <3>1. PICK m \in 1..limit : by = hits[m].by
      BY <1>12
    <3>2. hits[m] \in own /\ m \in DOMAIN hits
      BY <1>7
    <3>3. hits[m].distance <= row.distance
      BY <1>3, <1>7, <1>15, <3>2
    <3>4. hits[m].distance = call[by].distance
      BY <1>8, <3>1, <3>2
    <3> QED
      BY <3>3, <3>4
  <2> QED
    BY <1>5, <1>9, <1>10, <1>13, <2>1, <2>2
<1> QED
  BY <1>14, <1>15

(* The messages with the context message before them.                      *)
LEMMA Prepended ==
    ASSUME NEW S, NEW s \in Seq(S), NEW x
    PROVE  /\ <<x>> \o s # <<>> /\ Head(<<x>> \o s) = x
           /\ s # <<>> => Last(<<x>> \o s) = Last(s)
<1>1. /\ <<x>> \o s \in Seq({x} \cup S)
      /\ Len(<<x>> \o s) = Len(s) + 1 /\ Len(s) \in Nat
      /\ (<<x>> \o s)[1] = x
      /\ \A n \in 1..Len(s) : (<<x>> \o s)[n + 1] = s[n]
  OBVIOUS
<1>2. s # <<>> => Len(s) \in 1..Len(s)
  BY <1>1
<1>3. s # <<>> => (<<x>> \o s)[Len(s) + 1] = s[Len(s)]
  BY <1>1, <1>2
<1> QED
  BY <1>1, <1>3 DEF Last

(* The steps of a response; what it has gathered is kept until it is sent. *)
LEMMA ReadStep ==
    ASSUME IInv, TableInv, ReadInv, NEW c \in Calls, Step(c)
    PROVE  ReadInv'
<1> USE DEF IInv, InputInv
<1>1. call' = call /\ Calls' = Calls /\ prompts \subseteq prompts'
  BY RowsStay DEF Calls
<1>2. ASSUME NEW d \in Calls, known'[d] = known[d]
      PROVE  /\ \A table : KnownRows(d, table)' = KnownRows(d, table)
             /\ \A row : IsRecent(d, row)' <=> IsRecent(d, row)
             /\ PromptMissed(d)' <=> PromptMissed(d)
             /\ todo'[d] = todo[d] => (ServerMissed(d)' <=> ServerMissed(d))
             /\ messages'[d] = messages[d] => /\ PromptRead(d) => PromptRead(d)'
                                              /\ ChunksRead(d) => ChunksRead(d)'
  <2>1. \A table : KnownRows(d, table)' = KnownRows(d, table)
    BY <1>1, <1>2 DEF KnownRows
  <2>2. \A row : IsRecent(d, row)' <=> IsRecent(d, row)
    BY <1>1, <2>1 DEF IsRecent
  <2> QED
    BY <1>1, <2>1, <2>2 DEF PromptMissed, ServerMissed, PromptRead, ChunksRead
<1> DEFINE Holds(d) ==
      call[d].kind = "response" =>
        /\ answer'[d] = "PromptNotFoundError" => PromptMissed(d)'
        /\ answer'[d] = "McpServerNotFoundError" => ServerMissed(d)'
        /\ call[d].prompt # NoPrompt
             /\ (at'[d] \in {"embed", "search"} \/ Gathered(d)') => PromptRead(d)'
        /\ call[d].rag.enabled /\ Gathered(d)' => ChunksRead(d)'
<1>3. ASSUME NEW d \in Calls, d # c PROVE Holds(d)
  <2>1. /\ at'[d] = at[d] /\ answer'[d] = answer[d] /\ messages'[d] = messages[d]
        /\ todo'[d] = todo[d] /\ known'[d] = known[d]
    BY <1>3, OthersStay
  <2>2. Gathered(d)' <=> Gathered(d)
    BY <2>1 DEF Gathered
  <2> QED
    BY <1>2, <2>1, <2>2 DEF ReadInv
<1>4. Holds(c)
  <2>1. SUFFICES ASSUME call[c].kind = "response" PROVE Holds(c)
    OBVIOUS
  <2>2. at[c] # "done" => answer[c] = Pending
    BY DEF TypeOK
  <2>3. CASE Arrive(c)
    <3>1. /\ answer'[c] = Pending /\ at'[c] = FirstStep(c)
      BY <2>2, <2>3 DEF Arrive, TypeOK
    <3>2. /\ call[c].prompt # NoPrompt => FirstStep(c) = "resolve"
          /\ call[c].rag.enabled => FirstStep(c) \in {"resolve", "embed"}
      BY <2>1 DEF FirstStep, AfterPrompt
    <3> QED
      BY <3>1, <3>2 DEF Gathered, Pending
  <2>4. CASE Refusal(c)
    <3>1. PICK a : /\ a \notin {Pending, "Prepared"} /\ Refuse(c, a)
                   /\ a = "PromptNotFoundError" => Selected(c) = {}
                   /\ a = "McpServerNotFoundError" => ServersNamed(call[c].org, Head(todo[c])) = {}
      BY <2>4, RefusedForMissing
    <3>2. /\ answer'[c] = a /\ at'[c] = "done" /\ known'[c] = known[c] /\ todo'[c] = todo[c]
      BY <3>1 DEF Refuse, Finish, work, TypeOK
    <3>3. ~Gathered(c)'
      BY <3>1, <3>2 DEF Gathered
    <3> QED
      BY <1>2, <3>1, <3>2, <3>3, MissingIsUnknown
  <2>5. CASE Insertion(c)
    BY <2>1, <2>5 DEF Insertion, InsertVersion, Register, StoreChunk, CreateOrganization
  <2>6. CASE ReadLatest(c) \/ SlugFree(c)
    <3>1. /\ answer'[c] = Pending /\ at'[c] = "insert"
      BY <2>2, <2>6 DEF ReadLatest, SlugFree, Go, TypeOK
    <3> QED
      BY <3>1 DEF Gathered, Pending
  <2>7. CASE Resolve(c)
    <3>1. PICK row \in Selected(c) : messages' = [messages EXCEPT ![c] =
              Render(call[row.by].template, call[c].prompt.values, row.by)]
      BY <2>7 DEF Resolve
    <3>2. messages'[c] # <<>> /\ Last(messages'[c]).from = <<row.by>>
      BY <3>1, LastRendered
    <3>3. /\ answer'[c] = Pending /\ known'[c] = known[c] /\ at'[c] = AfterPrompt(c)
      BY <2>2, <2>7 DEF Resolve, Go, TypeOK
    <3>4. PromptRead(c)'
      BY <1>1, <1>2, <3>2, <3>3, SelectedIsRecent DEF PromptRead
    <3>5. call[c].rag.enabled => ~Gathered(c)'
      BY <3>3 DEF AfterPrompt, Gathered, Pending
    <3> QED
      BY <3>3, <3>4, <3>5 DEF Pending
  <2>8. CASE Search(c)
    <3>1. PICK hits \in Nearest(call[c].org, call[c].rag.topK) :
            messages' = [messages EXCEPT ![c] =
                            IF hits = <<>> THEN @ ELSE <<ContextMessage(hits)>> \o @]
      BY <2>8 DEF Search
    <3>2. /\ answer'[c] = Pending /\ known'[c] = known[c] /\ at[c] = "search"
      BY <2>2, <2>8 DEF Search, Go
    <3>3. call[c].prompt # NoPrompt => PromptRead(c)
      BY <2>1, <3>2 DEF ReadInv
    <3>4. messages[c] \in Seq(Range(messages[c]))
      BY DEF SourceInv
    <3>5. call[c].prompt # NoPrompt => PromptRead(c)'
      <4>1. CASE hits = <<>>
        <5>1. messages'[c] = messages[c]
          BY <3>1, <4>1
        <5> QED
          BY <1>2, <3>2, <3>3, <5>1
      <4>2. CASE hits # <<>>
        <5>1. messages'[c] = <<ContextMessage(hits)>> \o messages[c]
          BY <3>1, <4>2
        <5>2. messages'[c] # <<>> /\ (messages[c] # <<>> => Last(messages'[c]) = Last(messages[c]))
          BY <3>4, <5>1, Prepended
        <5> QED
          BY <1>1, <1>2, <3>2, <3>3, <5>2 DEF PromptRead
      <4> QED
        BY <4>1, <4>2
    <3>6. ChunksRead(c)'
      <4>1. SUFFICES ASSUME NEW row \in KnownRows(c, "chunks")
                     PROVE  \/ row.by \in Range(Head(messages'[c]).from)
                            \/ /\ Len(Head(messages'[c]).from) = call[c].rag.topK
                               /\ \A by \in Range(Head(messages'[c]).from) :
                                    call[by].distance <= row.distance
        BY <1>1, <1>2, <3>2 DEF ChunksRead
      <4>2. /\ hits # <<>>
            /\ LET from == ContextMessage(hits).from
               IN  \/ row.by \in Range(from)
                   \/ /\ Len(from) = call[c].rag.topK
                      /\ \A by \in Range(from) : call[by].distance <= row.distance
        BY <2>1, FoundOrFarther
      <4>3. Head(messages'[c]) = ContextMessage(hits)
        BY <3>1, <3>4, <4>2, Prepended
      <4> QED
        BY <4>2, <4>3
    <3> QED
      BY <3>2, <3>5, <3>6 DEF Pending
  <2>9. CASE Embed(c)
    <3>1. /\ answer'[c] = Pending /\ known'[c] = known[c] /\ at[c] = "embed" /\ at'[c] = "search"
          /\ messages'[c] = messages[c]
      BY <2>1, <2>2, <2>9 DEF Embed, MayEmbed, Go, work, TypeOK
    <3> QED
      BY <1>2, <2>1, <3>1 DEF ReadInv, Gathered, Pending
  <2>10. CASE FindServer(c) \/ ListTools(c)
    <3>1. /\ answer'[c] = Pending /\ known'[c] = known[c] /\ messages'[c] = messages[c]
          /\ at[c] \in {"find", "list"} /\ at'[c] \in {"find", "list", "assemble"}
      BY <2>2, <2>10 DEF FindServer, ListTools, Go, work, TypeOK
    <3> QED
      BY <1>2, <2>1, <3>1 DEF ReadInv, Gathered, Pending
  <2>11. CASE Assemble(c)
    <3>1. /\ answer'[c] = "Prepared" /\ known'[c] = known[c] /\ messages'[c] = messages[c]
          /\ at[c] = "assemble"
      BY <2>11 DEF Assemble, work
    <3> QED
      BY <1>2, <2>1, <3>1 DEF ReadInv, Gathered
  <2> QED
    BY <2>3, <2>5, <2>7, <2>9, <2>11, <2>4, <2>6, <2>8, <2>10, StepsByEffect DEF Pause
<1> HIDE DEF Holds
<1>5. \A d \in Calls : Holds(d)
  BY <1>3, <1>4
<1> QED
  BY <1>1, <1>5 DEF ReadInv, Holds

(* A request that arrives after a creation was answered with 201 finds the *)
(* prompt, the servers and the chunks that were created, whatever other    *)
(* calls create while it is prepared.                                      *)
THEOREM AcknowledgedIsRead == Spec => []ReadsWhatWasAcknowledged
<1>1. Init => TableInv /\ ReadInv
  <2>1. ASSUME Init PROVE TableInv
    BY <2>1 DEF Init, TableInv
  <2>2. ASSUME Init PROVE ReadInv
    BY <2>2 DEF Init, ReadInv, Gathered, Pending
  <2> QED
    BY <2>1, <2>2
<1>2. IInv /\ TableInv /\ ReadInv /\ [Next]_vars => (TableInv /\ ReadInv)'
  <2>1. ASSUME TableInv, ReadInv, UNCHANGED vars
        PROVE  TableInv' /\ ReadInv'
    <3> USE DEF vars, inputs, tables, work
    <3>1. UNCHANGED <<call, known, messages, todo, at, answer, prompts, servers, chunks,
                      organizations>> /\ Calls' = Calls
      BY <2>1 DEF Calls
    <3>2. \A c, table : KnownRows(c, table)' = KnownRows(c, table)
      BY <3>1 DEF KnownRows
    <3>3. \A c, row : IsRecent(c, row)' <=> IsRecent(c, row)
      BY <3>1, <3>2 DEF IsRecent
    <3>4. \A c : /\ PromptMissed(c)' <=> PromptMissed(c)
                 /\ ServerMissed(c)' <=> ServerMissed(c)
                 /\ PromptRead(c)' <=> PromptRead(c)
                 /\ ChunksRead(c)' <=> ChunksRead(c)
                 /\ Gathered(c)' <=> Gathered(c)
      BY <3>1, <3>2, <3>3 DEF PromptMissed, ServerMissed, PromptRead, ChunksRead, Gathered
    <3>5. TableInv'
      BY <2>1, <3>1 DEF TableInv
    <3> QED
      BY <2>1, <3>1, <3>4, <3>5 DEF ReadInv
  <2> QED
    BY <2>1, TableStep, ReadStep DEF Next, Idle
<1>3. ReadInv => ReadsWhatWasAcknowledged
  BY DEF ReadInv, ReadsWhatWasAcknowledged, Gathered, PromptMissed, ServerMissed, PromptRead,
         IsRecent, ChunksRead
<1> QED
  BY <1>1, <1>2, <1>3, PreparationInvariance, PTL DEF Spec

-----------------------------------------------------------------------------
(* Folds: the functions that they choose are there, and an induction over  *)
(* the subsets of a finite set says what they return.                      *)

(* Induction over the numbers, with the claim as a set.                    *)
LEMMA CountInduction ==
    ASSUME NEW N, 0 \in N, \A n \in Nat : n \in N => n + 1 \in N
    PROVE  Nat \subseteq N
<1> SUFFICES ASSUME Nat \ N # {} PROVE FALSE
  OBVIOUS
<1>1. PICK n \in Nat \ N : \A m \in Nat \ N : ~(<<m, n>> \in OpToRel(<, Nat))
  BY NatLessThanWellFounded, WFMin, Zenon
<1>2. \A m \in Nat \ N : ~(m < n)
  BY <1>1 DEF OpToRel
<1>3. n # 0 /\ n - 1 \in Nat /\ n - 1 < n
  OBVIOUS
<1>4. n - 1 \in N
  BY <1>2, <1>3
<1>5. (n - 1) + 1 = n
  OBVIOUS
<1> QED
  BY <1>3, <1>4, <1>5

(* Induction over the subsets of a finite set, one element at a time.      *)
Grows(S, P) == \A s \in SUBSET S : (\A x \in s : s \ {x} \in P) => s \in P

LEMMA SubsetInduction ==
    ASSUME NEW S, IsFiniteSet(S), NEW P, Grows(S, P)
    PROVE  \A s \in SUBSET S : s \in P
<1> USE DEF Grows
<1> DEFINE N == {n \in Nat : \A s \in SUBSET S : Cardinality(s) = n => s \in P}
<1>1. \A s \in SUBSET S : IsFiniteSet(s) /\ Cardinality(s) \in Nat
  BY FS_Subset, FS_CardinalityType
<1>2. 0 \in N
  <2>1. ASSUME NEW s \in SUBSET S, Cardinality(s) = 0 PROVE s \in P
    BY <1>1, <2>1, FS_EmptySet
  <2> QED
    BY <2>1
<1>3. ASSUME NEW n \in Nat, n \in N PROVE n + 1 \in N
  <2>1. ASSUME NEW s \in SUBSET S, Cardinality(s) = n + 1 PROVE s \in P
    <3>1. ASSUME NEW x \in s PROVE s \ {x} \in P
      <4>1. Cardinality(s \ {x}) = n
        BY <1>1, <2>1, FS_RemoveElement
      <4> QED
        BY <1>3, <4>1
    <3> QED
      BY <3>1
  <2> QED
    BY <2>1
<1>4. Nat \subseteq N
  <2> HIDE DEF N
  <2> QED
    BY <1>2, <1>3, CountInduction
<1> QED
  BY <1>1, <1>4

(* A fold over S, with ch for the order, is defined on the sets of up to n *)
(* elements.                                                               *)
Folded(S, A, base, G, ch, n) ==
    \E g \in [SUBSET S -> A] : \A s \in SUBSET S : Cardinality(s) <= n =>
        g[s] = IF s = {} THEN base ELSE G[ch[s]][g[s \ {ch[s]}]]

(* Then it is on those of one more, whatever order it is taken in.         *)
LEMMA FoldLevel ==
    ASSUME NEW S, IsFiniteSet(S), NEW A, NEW base \in A, NEW G \in [S -> [A -> A]],
           NEW ch, \A s \in SUBSET S : s # {} => ch[s] \in s,
           NEW n \in Nat, Folded(S, A, base, G, ch, n)
    PROVE  Folded(S, A, base, G, ch, n + 1)
<1>0. PICK g \in [SUBSET S -> A] : \A s \in SUBSET S : Cardinality(s) <= n =>
          g[s] = IF s = {} THEN base ELSE G[ch[s]][g[s \ {ch[s]}]]
  BY DEF Folded
<1> DEFINE h == [s \in SUBSET S |-> 
              IF Cardinality(s) = n + 1 THEN G[ch[s]][g[s \ {ch[s]}]] ELSE g[s]]
<1>1. \A s \in SUBSET S : IsFiniteSet(s) /\ Cardinality(s) \in Nat
  BY FS_Subset, FS_CardinalityType
<1>2. \A s \in SUBSET S : s = {} <=> Cardinality(s) = 0
  BY <1>1, FS_EmptySet
<1>3. ASSUME NEW s \in SUBSET S, s # {}
      PROVE  /\ ch[s] \in S /\ s \ {ch[s]} \in SUBSET S
             /\ Cardinality(s \ {ch[s]}) = Cardinality(s) - 1
             /\ G[ch[s]][g[s \ {ch[s]}]] \in A
  <2>1. PICK x \in s : x = ch[s]
    BY <1>3
  <2>2. PICK t \in SUBSET S : t = s \ {x}
    OBVIOUS
  <2>3. Cardinality(t) = Cardinality(s) - 1
    BY <1>1, <2>2, FS_RemoveElement
  <2>4. G[x] \in [A -> A] /\ g[t] \in A
    BY <2>1
  <2>5. G[x][g[t]] \in A
    BY <2>4
  <2> QED
    BY <2>1, <2>3, <2>2, <2>5
<1>4. h \in [SUBSET S -> A]
  <2>1. ASSUME NEW s \in SUBSET S
        PROVE  (IF Cardinality(s) = n + 1 THEN G[ch[s]][g[s \ {ch[s]}]] ELSE g[s]) \in A
    <3>1. CASE Cardinality(s) = n + 1
      <4>1. s # {}
        BY <1>2, <3>1
      <4> QED
        BY <1>3, <3>1, <4>1
    <3>2. CASE Cardinality(s) # n + 1
      BY <3>2
    <3> QED
      BY <3>1, <3>2
  <2> QED
    BY <2>1
<1>5. ASSUME NEW s \in SUBSET S, Cardinality(s) <= n + 1
      PROVE h[s] = IF s = {} THEN base ELSE G[ch[s]][h[s \ {ch[s]}]]
  <2>1. CASE s = {}
    <3>1. Cardinality(s) = 0
      BY <1>2, <2>1
    <3>2. h[s] = g[s]
      BY <3>1
    <3>3. g[s] = base
      <4>1. Cardinality(s) <= n
        BY <3>1
      <4> HIDE DEF h
      <4>2. g[s] = IF s = {} THEN base ELSE G[ch[s]][g[s \ {ch[s]}]]
        BY <1>0, <4>1
      <4> QED
        BY <2>1, <4>2, Zenon
    <3> QED
      BY <2>1, <3>2, <3>3
  <2>2. CASE s # {}
    <3>1. PICK t \in SUBSET S : t = s \ {ch[s]} /\ Cardinality(t) = Cardinality(s) - 1
      BY <1>3, <2>2
    <3>2. Cardinality(t) # n + 1
      BY <1>1, <1>5, <3>1
    <3>3. h[t] = g[t]
      BY <3>2
    <3>4. h[s] = G[ch[s]][g[t]]
      <4>1. CASE Cardinality(s) = n + 1
        BY <4>1, <3>1
      <4>2. CASE Cardinality(s) # n + 1
        <5>1. Cardinality(s) <= n
          BY <1>1, <1>5, <4>2
        <5> QED
          BY <1>0, <2>2, <3>1, <4>2, <5>1
      <4> QED
        BY <4>1, <4>2
    <3> QED
      BY <2>2, <3>1, <3>3, <3>4
  <2> QED
    BY <2>1, <2>2
<1> HIDE DEF h
<1> QED
  BY <1>4, <1>5 DEF Folded

(* It is defined on all of them.                                           *)
LEMMA FoldExists ==
    ASSUME NEW S, IsFiniteSet(S), NEW A, NEW base \in A, NEW G \in [S -> [A -> A]],
           NEW ch, \A s \in SUBSET S : s # {} => ch[s] \in s
    PROVE  Folded(S, A, base, G, ch, Cardinality(S))
<1> DEFINE N == {n \in Nat : Folded(S, A, base, G, ch, n)}
<1>1. \A s \in SUBSET S :
        IsFiniteSet(s) /\ Cardinality(s) \in Nat /\ (s = {} <=> Cardinality(s) = 0)
  BY FS_Subset, FS_CardinalityType, FS_EmptySet
<1>2. Folded(S, A, base, G, ch, 0)
  <2> DEFINE g == [s \in SUBSET S |-> base]
  <2>1. g \in [SUBSET S -> A]
    OBVIOUS
  <2>2. ASSUME NEW s \in SUBSET S, Cardinality(s) <= 0
        PROVE  g[s] = IF s = {} THEN base ELSE G[ch[s]][g[s \ {ch[s]}]]
    BY <1>1, <2>2
  <2> HIDE DEF g
  <2> QED
    BY <2>1, <2>2 DEF Folded
<1>3. \A n \in Nat : n \in N => n + 1 \in N
  BY FoldLevel
<1>4. 0 \in N /\ Cardinality(S) \in Nat
  BY <1>1, <1>2
<1>5. Cardinality(S) \in N
  <2> HIDE DEF N
  <2> QED
    BY <1>3, <1>4, CountInduction
<1> QED
  BY <1>5

-----------------------------------------------------------------------------
(* Sums over sets of indexes.                                              *)

(* The largest of some indexes.                                            *)
LEMMA Largest ==
    ASSUME NEW n \in Nat, NEW s \in SUBSET (1..n), s # {}
    PROVE  Max(s) \in s /\ \A y \in s : y <= Max(s)
<1> DEFINE Bounds == {m \in Nat : \A y \in s : y <= m}
<1>1. n \in Bounds
  OBVIOUS
<1>2. PICK m \in Bounds : \A k \in Bounds : ~(<<k, m>> \in OpToRel(<, Nat))
  <2>1. Bounds \subseteq Nat /\ Bounds # {}
    BY <1>1
  <2> HIDE DEF Bounds
  <2> QED
    BY <2>1, NatLessThanWellFounded, WFMin, Zenon
<1>3. \A k \in Bounds : ~(k < m)
  BY <1>2 DEF OpToRel
<1>4. m \in s
  <2>1. SUFFICES ASSUME m \notin s PROVE m - 1 \in Bounds
    BY <1>3
  <2>2. PICK y0 \in s : y0 \in 1..n
    OBVIOUS
  <2>3. \A y \in s : y <= m
    OBVIOUS
  <2>4. y0 <= m
    BY <2>2, <2>3
  <2>5. m - 1 \in Nat
    BY <2>2, <2>4
  <2>6. ASSUME NEW y \in s PROVE y <= m - 1
    <3>1. y # m /\ y <= m /\ y \in 1..n
      BY <2>1, <2>3
    <3> QED
      BY <3>1
  <2> QED
    BY <2>5, <2>6
<1>5. \A y \in s : m >= y
  OBVIOUS
<1> HIDE DEF Bounds
<1> QED
  BY <1>4, <1>5, Zenon DEF Max


(* The weight of a set of indexes is the sum over it.                      *)
Weighs(S, f, g) ==
    /\ g \in [SUBSET S -> Nat]
    /\ g[{}] = 0
    /\ \A s \in SUBSET S : \A x \in s : g[s] = f[x] + g[s \ {x}]

LEMMA WeightExists ==
    ASSUME NEW S, IsFiniteSet(S), NEW f, \A x \in S : f[x] \in Nat
    PROVE  \E g : Weighs(S, f, g)
<1> DEFINE P == {s \in SUBSET S : \E g : Weighs(s, f, g)}
<1>1. ASSUME NEW s \in SUBSET S, \A x \in s : s \ {x} \in P
      PROVE  s \in P
  <2>1. CASE s = {}
    <3>1. Weighs({}, f, [t \in SUBSET {} |-> 0])
      BY DEF Weighs
    <3> QED
      BY <2>1, <3>1
  <2>2. CASE s # {}
    <3>1. PICK x \in s : TRUE
      BY <2>2
    <3>2. PICK g : Weighs(s \ {x}, f, g)
      BY <1>1
    <3> DEFINE h == [t \in SUBSET s |-> IF x \in t THEN f[x] + g[t \ {x}] ELSE g[t]]
    <3>3. \A t \in SUBSET s : t \ {x} \in SUBSET (s \ {x})
      OBVIOUS
    <3>4. \A t \in SUBSET s : x \notin t => t \in SUBSET (s \ {x})
      OBVIOUS
    <3>5. f[x] \in Nat
      OBVIOUS
    <3>6. h \in [SUBSET s -> Nat]
      <4>1. ASSUME NEW t \in SUBSET s
            PROVE (IF x \in t THEN f[x] + g[t \ {x}] ELSE g[t]) \in Nat
        BY <3>2, <3>4, <3>3, <3>5 DEF Weighs
      <4> QED
        BY <4>1
    <3>7. h[{}] = 0
      BY <3>2 DEF Weighs
    <3>8. ASSUME NEW t \in SUBSET s, NEW y \in t
          PROVE  h[t] = f[y] + h[t \ {y}]
      <4>1. t \ {y} \in SUBSET s
        OBVIOUS
      <4>2. CASE y = x
        <5>1. h[t \ {y}] = g[t \ {x}]
          BY <4>1, <4>2
        <5> QED
          BY <4>2, <5>1
      <4>3. CASE y # x /\ x \notin t
        <5>1. t \in SUBSET (s \ {x})
          BY <4>3
        <5>2. g[t] = f[y] + g[t \ {y}]
          BY <3>2, <5>1 DEF Weighs
        <5> QED
          BY <4>1, <4>3, <5>2
      <4>4. CASE y # x /\ x \in t
        <5>1. PICK r \in SUBSET (s \ {x}) : r = t \ {x} /\ y \in r
          BY <4>4
        <5>2. g[r] = f[y] + g[r \ {y}]
          BY <3>2, <5>1 DEF Weighs
        <5>3. (t \ {y}) \ {x} = r \ {y}
          BY <5>1
        <5>4. h[t \ {y}] = f[x] + g[r \ {y}]
          BY <4>1, <4>4, <5>3
        <5>5. h[t] = f[x] + g[r]
          BY <4>4, <5>1
        <5>6. g[r \ {y}] \in Nat /\ f[y] \in Nat
          <6>1. r \ {y} \in SUBSET (s \ {x})
            OBVIOUS
          <6> QED
            BY <3>2, <6>1 DEF Weighs
        <5> HIDE DEF h
        <5> QED
          BY <3>5, <5>2, <5>4, <5>5, <5>6
      <4> QED
        BY <4>2, <4>3, <4>4
    <3>9. Weighs(s, f, h)
      <4> HIDE DEF h
      <4> QED
        BY <3>6, <3>7, <3>8 DEF Weighs
    <3> QED
      BY <3>9
  <2> QED
    BY <2>1, <2>2
<1>2. Grows(S, P)
  <2> HIDE DEF P
  <2> QED
    BY <1>1 DEF Grows
<1>3. S \in P
  <2> HIDE DEF P
  <2> QED
    BY <1>2, SubsetInduction
<1> QED
  BY <1>3

(* The sum over a set of indexes, whatever order it is taken in.           *)
Sum(f, T) == MapThenSumSet(LAMBDA k : f[k], T)

LEMMA SumIsWeight ==
    ASSUME NEW S, IsFiniteSet(S), NEW f, \A x \in S : f[x] \in Nat, NEW g, Weighs(S, f, g),
           NEW T \in SUBSET S
    PROVE  Sum(f, T) = g[T]
<1> DEFINE Def(h) == h = [s \in SUBSET T |->
               IF s = {} THEN 0 ELSE LET x == CHOOSE x \in s : TRUE IN f[x] + h[s \ {x}]]
           iter == CHOOSE h : Def(h)
           weight == [s \in SUBSET T |-> g[s]]
<1>1. \A s \in SUBSET T : s # {} => (CHOOSE x \in s : TRUE) \in s
  OBVIOUS
<1>2. Def(weight)
  <2>1. ASSUME NEW s \in SUBSET T
        PROVE weight[s] = IF s = {} THEN 0
                          ELSE LET x == CHOOSE x \in s : TRUE IN f[x] + weight[s \ {x}]
    <3>1. CASE s = {}
      BY <3>1 DEF Weighs
    <3>2. CASE s # {}
      <4>1. PICK x \in s : x = CHOOSE y \in s : TRUE
        BY <1>1, <3>2
      <4>2. g[s] = f[x] + g[s \ {x}]
        BY DEF Weighs
      <4>3. weight[s] = g[s] /\ weight[s \ {x}] = g[s \ {x}]
        OBVIOUS
      <4> HIDE DEF weight
      <4> QED
        BY <3>2, <4>1, <4>2, <4>3
    <3> QED
      BY <3>1, <3>2
  <2>2. weight = [s \in SUBSET T |-> weight[s]]
    OBVIOUS
  <2> HIDE DEF weight
  <2> QED
    BY <2>1, <2>2
<1>3. Def(iter)
  <2> HIDE DEF Def
  <2> QED
    BY <1>2
<1>4. Sum(f, T) = iter[T]
  BY DEF Sum, MapThenSumSet, MapThenFoldSet
<1> HIDE DEF iter
<1> DEFINE P == {s \in SUBSET T : iter[s] = g[s]}
<1>5. ASSUME NEW s \in SUBSET T, \A x \in s : s \ {x} \in P
      PROVE  s \in P
  <2>1. CASE s = {}
    BY <1>3, <2>1 DEF Weighs
  <2>2. CASE s # {}
    <3>1. PICK x \in s : x = CHOOSE y \in s : TRUE
      BY <1>1, <2>2
    <3>2. iter[s] = f[x] + iter[s \ {x}]
      BY <1>3, <2>2, <3>1
    <3>3. g[s] = f[x] + g[s \ {x}]
      BY DEF Weighs
    <3> QED
      BY <1>5, <3>2, <3>3
  <2> QED
    BY <2>1, <2>2
<1>6. IsFiniteSet(T)
  BY FS_Subset
<1>7. Grows(T, P)
  <2> HIDE DEF P
  <2> QED
    BY <1>5 DEF Grows
<1>8. T \in P
  <2> HIDE DEF P
  <2> QED
    BY <1>6, <1>7, SubsetInduction
<1> QED
  BY <1>4, <1>8

(* The weight of disjoint sets together.                                   *)
Apart(S, T, U) == T \in SUBSET S /\ U \in SUBSET S /\ T \cap U = {}
Adds(g, T, U) == g[T \cup U] = g[T] + g[U]

LEMMA WeightAdds ==
    ASSUME NEW S, IsFiniteSet(S), NEW f, \A x \in S : f[x] \in Nat, NEW g, Weighs(S, f, g),
           NEW T, NEW U, Apart(S, T, U)
    PROVE  Adds(g, T, U)
<1> USE DEF Apart, Adds
<1> DEFINE P == {s \in SUBSET T : g[s \cup U] = g[s] + g[U]}
<1>1. ASSUME NEW s \in SUBSET T, \A x \in s : s \ {x} \in P
      PROVE  s \in P
  <2>1. CASE s = {}
    <3>1. s \cup U = U /\ g[U] \in Nat /\ g[s] = 0
      BY <2>1 DEF Weighs
    <3>2. PICK n \in Nat : n = g[U]
      BY <3>1
    <3>3. n = 0 + n
      OBVIOUS
    <3>4. g[s \cup U] = n
      BY <3>1, <3>2
    <3>5. g[s \cup U] = g[s] + g[U]
      BY <3>1, <3>3, <3>2, <3>4, Zenon
    <3> QED
      BY <3>5
  <2>2. CASE s # {}
    <3>1. PICK x \in s : TRUE
      BY <2>2
    <3>2. PICK r \in SUBSET S : r = s \ {x} /\ r \cup U \in SUBSET S
      OBVIOUS
    <3>3. g[s] = f[x] + g[r]
      BY <3>2 DEF Weighs
    <3>4. (s \cup U) \ {x} = r \cup U
      BY <3>2
    <3>5. g[s \cup U] = f[x] + g[r \cup U]
      <4>1. s \cup U \in SUBSET S /\ x \in s \cup U
        OBVIOUS
      <4> QED
        BY <3>4, <4>1 DEF Weighs
    <3>6. g[r \cup U] = g[r] + g[U]
      BY <1>1, <3>2
    <3>7. g[r] \in Nat /\ g[U] \in Nat /\ g[s] \in Nat
      BY <3>2 DEF Weighs
    <3>8. g[s \cup U] = g[s] + g[U]
      <4>1. s \cup U \in SUBSET S
        OBVIOUS
      <4>2. PICK a, b, c \in Nat : a = g[r] /\ b = g[U] /\ c = g[s]
        BY <3>7
      <4>3. PICK d \in Nat : d = f[x]
        OBVIOUS
      <4>4. g[s \cup U] = d + (a + b) /\ c = d + a
        BY <3>3, <3>5, <3>6, <4>2, <4>3
      <4> QED
        BY <4>2, <4>3, <4>4
    <3> QED
      BY <3>8
  <2> QED
    BY <2>1, <2>2
<1>2. IsFiniteSet(T)
  BY FS_Subset
<1>3. Grows(T, P)
  <2> HIDE DEF P
  <2> QED
    BY <1>1 DEF Grows
<1>4. T \in P
  <2> HIDE DEF P
  <2> QED
    BY <1>2, <1>3, SubsetInduction
<1> QED
  BY <1>4

(* What the messages of a conversation are made of.                        *)
WellFormed(q) ==
    /\ q \in Seq(Range(q))
    /\ \A k \in 1..Len(q) : /\ q[k].role \in {"system", "user", "assistant", "tool"}
                            /\ q[k].size \in Nat
                            /\ q[k].calls => q[k].role = "assistant"
Costs(q) == [k \in 1..Len(q) |-> CountMessage(q[k])]

(* A fold over 1..k takes off k first.                                     *)
LEMMA PrefixMax ==
    ASSUME NEW k \in Nat \ {0}
    PROVE  Max(1..k) = k /\ (1..k) \ {k} = 1..(k - 1)
<1>1. k \in 1..k /\ \A y \in 1..k : k >= y
  OBVIOUS
<1>2. \A x \in 1..k : (\A y \in 1..k : x >= y) => x = k
  OBVIOUS
<1> QED
  BY <1>1, <1>2 DEF Max

(* The tokens of some messages are the weight of all their indexes.        *)
LEMMA CountIsWeight ==
    ASSUME NEW n \in Nat, NEW q, DOMAIN q = 1..n, NEW f,
           \A k \in 1..n : f[k] = CountMessage(q[k]) /\ f[k] \in Nat,
           NEW N \in Nat, n <= N, NEW g, Weighs(1..N, f, g)
    PROVE  CountMessages(q) = g[1..n]
<1> DEFINE S == 1..n
           Def(h) == h = [s \in SUBSET S |->
               IF s = {} THEN 0 ELSE LET x == Max(s) IN h[s \ {x}] + CountMessage(q[x])]
           iter == CHOOSE h : Def(h)
           weight == [s \in SUBSET S |-> g[s]]
<1>0. SUBSET S \subseteq SUBSET (1..N)
  OBVIOUS
<1>1. \A s \in SUBSET S : s # {} => Max(s) \in s
  BY Largest
<1>2. ASSUME NEW s \in SUBSET S, s # {}
      PROVE  g[s] = g[s \ {Max(s)}] + CountMessage(q[Max(s)])
  <2>1. PICK x \in s : x = Max(s)
    BY <1>1, <1>2
  <2>2. s \in SUBSET (1..N) /\ s \ {x} \in SUBSET (1..N) /\ x \in 1..n
    OBVIOUS
  <2>3. g[s] = f[x] + g[s \ {x}] /\ g[s \ {x}] \in Nat
    BY <2>2 DEF Weighs
  <2>4. f[x] = CountMessage(q[x]) /\ f[x] \in Nat
    BY <2>2
  <2> QED
    BY <2>1, <2>3, <2>4
<1>3. Def(weight)
  <2>1. \A s \in SUBSET S : weight[s] = IF s = {} THEN 0
                          ELSE LET x == Max(s) IN weight[s \ {x}] + CountMessage(q[x])
    <3>1. g[{}] = 0
      BY DEF Weighs
    <3>2. \A s \in SUBSET S : weight[s] = g[s] /\ weight[s \ {Max(s)}] = g[s \ {Max(s)}]
      OBVIOUS
    <3> HIDE DEF weight
    <3> QED
      BY <1>2, <3>1, <3>2
  <2>2. weight = [s \in SUBSET S |-> weight[s]]
    OBVIOUS
  <2> HIDE DEF weight
  <2> QED
    BY <2>1, <2>2
<1>4. Def(iter)
  <2> HIDE DEF Def
  <2> QED
    BY <1>3
<1>5. CountMessages(q) = iter[S]
  <2>1. DOMAIN q = S
    OBVIOUS
  <2> QED
    BY <2>1, Zenon DEF CountMessages, FoldLeft, MapThenFoldSet
<1> HIDE DEF iter
<1> DEFINE P == {s \in SUBSET S : iter[s] = g[s]}
<1>6. ASSUME NEW s \in SUBSET S, \A x \in s : s \ {x} \in P
      PROVE  s \in P
  <2>1. CASE s = {}
    BY <1>4, <2>1 DEF Weighs
  <2>2. CASE s # {}
    <3>1. PICK x \in s : x = Max(s)
      BY <1>1, <2>2
    <3>2. iter[s] = iter[s \ {x}] + CountMessage(q[x])
      BY <1>4, <2>2, <3>1
    <3>3. g[s] = g[s \ {x}] + CountMessage(q[x])
      BY <1>2, <2>2, <3>1
    <3> QED
      BY <1>6, <3>2, <3>3
  <2> QED
    BY <2>1, <2>2
<1>7. IsFiniteSet(S)
  BY FS_Interval
<1>8. Grows(S, P)
  <2> HIDE DEF P
  <2> QED
    BY <1>6 DEF Grows
<1>9. S \in P
  <2> HIDE DEF P
  <2> QED
    BY <1>7, <1>8, SubsetInduction
<1> QED
  BY <1>5, <1>9

-----------------------------------------------------------------------------
(* Folds from the left over the indexes of a sequence.                     *)

(* What holds at the start of a loop and is kept by each round of it.      *)
LEMMA LoopInduction ==
    ASSUME NEW n \in Nat, NEW N, 0 \in N, \A k \in 1..n : k - 1 \in N => k \in N
    PROVE  \A k \in 0..n : k \in N
<1> DEFINE M == {k \in Nat : k <= n => k \in N}
<1>1. 0 \in M
  OBVIOUS
<1>2. ASSUME NEW k \in Nat, k \in M PROVE k + 1 \in M
  <2>1. SUFFICES ASSUME k + 1 <= n PROVE k + 1 \in N
    OBVIOUS
  <2>2. PICK m \in 1..n : m = k + 1 /\ m - 1 = k
    BY <2>1
  <2>3. k \in N
    BY <1>2, <2>1
  <2> QED
    BY <2>2, <2>3
<1>3. Nat \subseteq M
  <2> HIDE DEF M
  <2> QED
    BY <1>1, <1>2, CountInduction
<1> QED
  BY <1>3

(* A fold over 1..n from the left: the function that the fold defines.     *)
FoldsLeft(n, A, base, G, g) ==
    /\ g \in [SUBSET (1..n) -> A]
    /\ g[{}] = base
    /\ \A s \in SUBSET (1..n) : s # {} => g[s] = G[Max(s)][g[s \ {Max(s)}]]

(* FoldLeft applies the indexes from the first to the last.                *)
LEMMA FoldRun ==
    ASSUME NEW n \in Nat, NEW A, NEW base \in A, NEW G \in [1..n -> [A -> A]]
    PROVE  \E g : FoldsLeft(n, A, base, G, g)
<1> DEFINE S == 1..n
           ch == [s \in SUBSET S |-> Max(s)]
<1>1. IsFiniteSet(S)
  BY FS_Interval
<1>2. \A s \in SUBSET S : s # {} => ch[s] \in s
  BY Largest
<1>3. Folded(S, A, base, G, ch, Cardinality(S))
  <2> HIDE DEF ch, S
  <2> QED
    BY <1>1, <1>2, FoldExists DEF S
<1>4. \A s \in SUBSET S : Cardinality(s) <= Cardinality(S)
  BY <1>1, FS_Subset
<1>5. PICK g \in [SUBSET S -> A] : \A s \in SUBSET S :
               g[s] = IF s = {} THEN base ELSE G[ch[s]][g[s \ {ch[s]}]]
  <2> HIDE DEF ch, S
  <2> QED
    BY <1>3, <1>4 DEF Folded
<1>6. \A s \in SUBSET S : ch[s] = Max(s)
  OBVIOUS
<1> HIDE DEF ch
<1>7. g[{}] = base
  BY <1>5
<1>8. ASSUME NEW s \in SUBSET S, s # {} PROVE g[s] = G[Max(s)][g[s \ {Max(s)}]]
  BY <1>5, <1>6, <1>8
<1>9. FoldsLeft(n, A, base, G, g)
  BY <1>5, <1>7, <1>8 DEF FoldsLeft
<1> QED
  BY <1>9

(* Without, message by message.                                            *)
WithoutRun(q, dropped, h) ==
    /\ h[0] = <<>>
    /\ \A k \in 1..Len(q) :
         h[k] = IF k \in dropped THEN h[k - 1] ELSE Append(h[k - 1], q[k])

LEMMA WithoutRuns ==
    ASSUME NEW q, q \in Seq(Range(q)), NEW dropped
    PROVE  \E h : WithoutRun(q, dropped, h) /\ Without(q, dropped) = h[Len(q)]
<1> DEFINE n == Len(q)
           S == 1..n
           A == Seq(Range(q))
           ids == [i \in DOMAIN q |-> i]
           G == [x \in S |-> [c \in A |-> IF x \in dropped THEN c ELSE Append(c, q[x])]]
           Def(g) == g = [s \in SUBSET S |->
               IF s = {} THEN <<>>
               ELSE LET x == Max(s) IN IF ids[x] \in dropped THEN g[s \ {x}]
                                       ELSE Append(g[s \ {x}], q[ids[x]])]
           iter == CHOOSE g : Def(g)
           h == [k \in 0..n |-> iter[1..k]]
<1>1. n \in Nat /\ DOMAIN q = S /\ \A x \in S : ids[x] = x
  OBVIOUS
<1>2. \A s \in SUBSET S : s # {} => Max(s) \in s
  BY <1>1, Largest
<1>3. G \in [S -> [A -> A]]
  <2>1. ASSUME NEW x \in S, NEW c \in A
        PROVE (IF x \in dropped THEN c ELSE Append(c, q[x])) \in A
    <3>1. q[x] \in Range(q)
      BY DEF Range
    <3> QED
      BY <3>1
  <2> QED
    BY <2>1
<1>4. PICK g : FoldsLeft(n, A, <<>>, G, g)
  <2>1. <<>> \in A
    OBVIOUS
  <2>2. n \in Nat
    BY <1>1
  <2> HIDE DEF A, G, n
  <2> QED
    BY <1>3, <2>1, <2>2, FoldRun
<1>5. /\ g \in [SUBSET S -> A]
      /\ g[{}] = <<>>
      /\ \A s \in SUBSET S : s # {} => g[s] = G[Max(s)][g[s \ {Max(s)}]]
  <2> HIDE DEF G, A
  <2> QED
    BY <1>4 DEF FoldsLeft
<1>6. Def(g)
  <2>1. ASSUME NEW s \in SUBSET S, s # {}
        PROVE  g[s] = LET x == Max(s) IN IF ids[x] \in dropped THEN g[s \ {x}]
                                         ELSE Append(g[s \ {x}], q[ids[x]])
    <3>1. PICK x \in S : x = Max(s)
      BY <1>2, <2>1
    <3>2. g[s \ {x}] \in A
      BY <1>5
    <3>3. g[s] = G[x][g[s \ {x}]]
      <4> HIDE DEF G, A
      <4> QED
        BY <1>5, <2>1, <3>1
    <3>4. G[x][g[s \ {x}]] = IF x \in dropped THEN g[s \ {x}] ELSE Append(g[s \ {x}], q[x])
      BY <3>2
    <3> HIDE DEF G, A
    <3> QED
      BY <1>1, <3>1, <3>3, <3>4
  <2> HIDE DEF A, G, ids
  <2> QED
    BY <1>5, <2>1
<1>7. Def(iter)
  <2> HIDE DEF Def
  <2> QED
    BY <1>6
<1>8. Without(q, dropped) = iter[S]
  <2>1. DOMAIN ids = S
    BY <1>1
  <2> HIDE DEF n
  <2> QED
    BY <2>1, Zenon DEF Without, FoldLeftDomain, FoldLeft, MapThenFoldSet
<1> HIDE DEF iter
<1>9. /\ iter[{}] = <<>>
      /\ \A s \in SUBSET S : s # {} =>
           iter[s] = IF Max(s) \in dropped THEN iter[s \ {Max(s)}]
                     ELSE Append(iter[s \ {Max(s)}], q[Max(s)])
  <2>1. \A s \in SUBSET S : s # {} => ids[Max(s)] = Max(s)
    BY <1>1, <1>2
  <2> HIDE DEF ids, S
  <2> QED
    BY <1>7, <2>1
<1>10. ASSUME NEW k \in 1..n
      PROVE  iter[1..k] = IF k \in dropped THEN iter[1..(k - 1)] ELSE Append(iter[1..(k - 1)], q[k])
  <2>1. Max(1..k) = k /\ (1..k) \ {k} = 1..(k - 1) /\ (1..k) \in SUBSET S /\ (1..k) # {}
    BY <1>1, PrefixMax
  <2> HIDE DEF ids, S
  <2> QED
    BY <1>9, <2>1
<1>11. h[0] = <<>> /\ h[n] = iter[S]
  <2>1. 1..0 = {} /\ 0 \in 0..n /\ n \in 0..n
    BY <1>1
  <2> QED
    BY <1>9, <2>1
<1>12. ASSUME NEW k \in 1..n
       PROVE h[k] = IF k \in dropped THEN h[k - 1] ELSE Append(h[k - 1], q[k])
  <2>1. k \in 0..n /\ k - 1 \in 0..n
    BY <1>1
  <2> QED
    BY <1>10, <2>1
<1> HIDE DEF h
<1>13. WithoutRun(q, dropped, h)
  BY <1>11, <1>12 DEF WithoutRun
<1> QED
  BY <1>8, <1>11, <1>13

LEMMA CountNothing == CountMessages(<<>>) = 0
<1> DEFINE g == [s \in SUBSET (1..0) |-> 0]
           f == [k \in {} |-> 0]
<1>1. Weighs(1..0, f, g)
  BY DEF Weighs
<1>2. CountMessages(<<>>) = g[1..0]
  <2>1. DOMAIN <<>> = 1..0 /\ 0 \in Nat /\ 0 <= 0 /\ 1..0 = {}
    OBVIOUS
  <2> HIDE DEF f, g
  <2> QED
    BY <1>1, <2>1, CountIsWeight
<1> QED
  BY <1>2

(* A message that is appended adds its tokens.                             *)
LEMMA CountAppended ==
    ASSUME NEW M, \A m \in M : m.size \in Nat, NEW r \in Seq(M), NEW m \in M
    PROVE  CountMessages(Append(r, m)) = CountMessages(r) + CountMessage(m)
<1>1. PICK n \in Nat : n = Len(r)
  OBVIOUS
<1>2. PICK t : t = Append(r, m) /\ t \in Seq(M)
  <2>1. Append(r, m) \in Seq(M)
    OBVIOUS
  <2> QED
    BY <2>1
<1>3. /\ DOMAIN t = 1..(n + 1) /\ t[n + 1] = m /\ DOMAIN r = 1..n
      /\ \A k \in 1..n : t[k] = r[k] /\ r[k] \in M
  BY <1>1, <1>2
<1> DEFINE f == [k \in 1..(n + 1) |-> CountMessage(t[k])]
<1>4. \A x \in M : CountMessage(x) \in Nat
  BY DEF CountMessage, MessageOverhead
<1>5. f \in [1..(n + 1) -> Nat]
  <2>1. \A k \in 1..(n + 1) : t[k] \in M
    BY <1>2, <1>3
  <2> QED
    BY <1>4, <2>1
<1>6. /\ \A k \in 1..(n + 1) : f[k] = CountMessage(t[k]) /\ f[k] \in Nat
      /\ \A k \in 1..n : f[k] = CountMessage(r[k]) /\ f[k] \in Nat
      /\ f[n + 1] = CountMessage(m)
  <2>1. \A k \in 1..n : k \in 1..(n + 1)
    OBVIOUS
  <2>2. n + 1 \in 1..(n + 1)
    OBVIOUS
  <2>3. \A k \in 1..(n + 1) : f[k] = CountMessage(t[k]) /\ f[k] \in Nat
    BY <1>5
  <2> HIDE DEF f
  <2> QED
    BY <1>3, <2>1, <2>2, <2>3
<1> HIDE DEF f
<1>7. PICK g : Weighs(1..(n + 1), f, g)
  <2>1. IsFiniteSet(1..(n + 1))
    BY FS_Interval
  <2> QED
    BY <1>5, <2>1, WeightExists
<1>8. CountMessages(t) = g[1..(n + 1)]
  BY <1>3, <1>6, <1>7, CountIsWeight
<1>9. CountMessages(r) = g[1..n]
  <2>1. n <= n + 1 /\ n + 1 \in Nat
    OBVIOUS
  <2> QED
    BY <1>3, <1>6, <1>7, <2>1, CountIsWeight
<1>10. g[1..(n + 1)] = f[n + 1] + g[1..n] /\ g[1..n] \in Nat
  <2>1. (1..(n + 1)) \ {n + 1} = 1..n /\ n + 1 \in 1..(n + 1)
    OBVIOUS
  <2>2. \A s \in SUBSET (1..(n + 1)) : \A x \in s :
          g[s] = f[x] + g[s \ {x}] /\ g[s \ {x}] \in Nat
    BY <1>7 DEF Weighs
  <2>3. g[1..(n + 1)] = f[n + 1] + g[(1..(n + 1)) \ {n + 1}] /\ g[(1..(n + 1)) \ {n + 1}] \in Nat
    BY <2>1, <2>2
  <2> QED
    BY <2>1, <2>3
<1>11. f[n + 1] \in Nat
  BY <1>6
<1> QED
  BY <1>2, <1>8, <1>10, <1>6, <1>9, <1>11

(* The tokens of what is left when some messages are taken out.            *)
LEMMA WithoutWeighs ==
    ASSUME NEW q, WellFormed(q), NEW g, Weighs(1..Len(q), Costs(q), g), NEW dropped
    PROVE  CountMessages(Without(q, dropped)) = g[(1..Len(q)) \ dropped]
<1> DEFINE M == Range(q)
<1>1. PICK n \in Nat : n = Len(q) /\ DOMAIN q = 1..n
  BY DEF WellFormed
<1>2. q \in Seq(M) /\ \A m \in M : m.size \in Nat
  BY <1>1 DEF WellFormed, Range
<1>3. PICK h : WithoutRun(q, dropped, h) /\ Without(q, dropped) = h[n]
  BY <1>1, <1>2, WithoutRuns
<1> DEFINE N == {k \in 0..n : h[k] \in Seq(M) /\ CountMessages(h[k]) = g[(1..k) \ dropped]}
<1>4. 0 \in N
  <2>1. (1..0) \ dropped = {} /\ 0 \in 0..n
    OBVIOUS
  <2>2. g[{}] = 0 /\ h[0] = <<>>
    BY <1>3 DEF Weighs, WithoutRun
  <2>3. CountMessages(h[0]) = g[(1..0) \ dropped]
    BY <2>1, <2>2, CountNothing
  <2>4. h[0] \in Seq(M)
    BY <2>2
  <2> HIDE DEF M
  <2> QED
    BY <2>1, <2>3, <2>4
<1>5. ASSUME NEW k \in 1..n, k - 1 \in N
      PROVE  k \in N
  <2>1. PICK r \in Seq(M) : r = h[k - 1] /\ CountMessages(r) = g[(1..(k - 1)) \ dropped]
    BY <1>5
  <2>2. k \in 0..n
    OBVIOUS
  <2>3. CASE k \in dropped
    <3>1. h[k] = r /\ (1..k) \ dropped = (1..(k - 1)) \ dropped
      BY <1>1, <1>3, <2>1, <2>3 DEF WithoutRun
    <3> QED
      BY <2>1, <2>2, <3>1
  <2>4. CASE k \notin dropped
    <3>1. PICK m \in M : m = q[k]
      BY <1>1 DEF Range
    <3>2. h[k] = Append(r, m)
      BY <1>1, <1>3, <2>1, <2>4, <3>1 DEF WithoutRun
    <3>3. CountMessages(h[k]) = CountMessages(r) + CountMessage(m)
      BY <1>2, <3>2, CountAppended
    <3>4. PICK s \in SUBSET (1..n), t \in SUBSET (1..n) :
            s = (1..k) \ dropped /\ t = (1..(k - 1)) \ dropped /\ k \in s /\ s \ {k} = t
      <4>1. /\ (1..k) \ dropped \in SUBSET (1..n) /\ (1..(k - 1)) \ dropped \in SUBSET (1..n)
            /\ k \in (1..k) \ dropped
        BY <2>4
      <4>2. ((1..k) \ dropped) \ {k} = (1..(k - 1)) \ dropped
        OBVIOUS
      <4> QED
        BY <4>1, <4>2
    <3>5. g[s] = Costs(q)[k] + g[t] /\ g[t] \in Nat
      <4>1. s \in SUBSET (1..n) /\ k \in s /\ t \in SUBSET (1..n)
        BY <3>4
      <4>2. g[s] = Costs(q)[k] + g[s \ {k}]
        BY <1>1, <4>1 DEF Weighs
      <4>3. g[t] \in Nat
        BY <1>1, <4>1 DEF Weighs
      <4> QED
        BY <3>4, <4>2, <4>3
    <3>6. Costs(q)[k] = CountMessage(m) /\ CountMessage(m) \in Nat
      BY <1>1, <1>2, <3>1 DEF Costs, CountMessage, MessageOverhead
    <3>7. h[k] \in Seq(M)
      BY <3>2
    <3> QED
      BY <2>1, <3>3, <3>5, <3>7, <2>2, <3>4, <3>6
  <2> QED
    BY <2>3, <2>4
<1>6. n \in N
  <2>1. n \in 0..n
    OBVIOUS
  <2> HIDE DEF N
  <2> QED
    BY <1>4, <1>5, <2>1, LoopInduction
<1> QED
  BY <1>1, <1>3, <1>6

-----------------------------------------------------------------------------
(* GroupUnits: the units of a conversation.                                *)

(* A round of _group_units.                                                *)
Grouped(q, units, k) ==
    IF q[k].role = "system" THEN units
    ELSE IF q[k].role = "tool" /\ units # <<>> /\ q[Head(Last(units))].calls
         THEN [units EXCEPT ![Len(units)] = Append(@, k)]
         ELSE Append(units, <<k>>)

(* The alternatives exclude each other.                                    *)
LEMMA GroupedByCase ==
    ASSUME NEW q, NEW units, NEW k
    PROVE  (CASE q[k].role = "system" -> units
              [] /\ q[k].role = "tool"
                 /\ units # <<>>
                 /\ q[Head(Last(units))].calls
                 -> [units EXCEPT ![Len(units)] = Append(@, k)]
              [] OTHER -> Append(units, <<k>>))
           = Grouped(q, units, k)
<1>1. "system" # "tool"
  OBVIOUS
<1> QED
  BY <1>1, Zenon DEF Grouped

LEMMA GroupedType ==
    ASSUME NEW q, NEW units \in Seq(Seq(Nat)), NEW k \in Nat
    PROVE  Grouped(q, units, k) \in Seq(Seq(Nat))
<1>1. CASE Grouped(q, units, k) = units
  BY <1>1
<1>2. CASE Grouped(q, units, k) = Append(units, <<k>>)
  <2>1. <<k>> \in Seq(Nat)
    OBVIOUS
  <2>2. PICK u \in Seq(Nat) : u = <<k>>
    BY <2>1
  <2>3. Append(units, u) \in Seq(Seq(Nat))
    OBVIOUS
  <2> QED
    BY <1>2, <2>2, <2>3
<1>3. CASE units # <<>> /\ Grouped(q, units, k) = [units EXCEPT ![Len(units)] = Append(@, k)]
  <2>1. PICK m \in Nat : m = Len(units) /\ m # 0
    BY <1>3
  <2>2. PICK u \in Seq(Nat) : u = units[m]
    BY <2>1
  <2>3. PICK v : v = Append(u, k) /\ v \in Seq(Nat)
    <3>1. Append(u, k) \in Seq(Nat)
      OBVIOUS
    <3> QED
      BY <3>1
  <2>4. Grouped(q, units, k) = [units EXCEPT ![m] = v]
    BY <1>3, <2>1, <2>2, <2>3
  <2>5. [units EXCEPT ![m] = v] \in Seq(Seq(Nat))
    BY <2>1, <2>3
  <2> QED
    BY <2>4, <2>5
<1> QED
  BY <1>1, <1>2, <1>3, Zenon DEF Grouped

GroupRun(q, h) ==
    h[0] = <<>> /\ \A k \in 1..Len(q) : h[k] = Grouped(q, h[k - 1], k)

(* GroupUnits takes the messages one after the other.                      *)
LEMMA GroupRuns ==
    ASSUME NEW q, q \in Seq(Range(q))
    PROVE  \E h : GroupRun(q, h) /\ GroupUnits(q) = h[Len(q)]
<1> DEFINE n == Len(q)
           S == 1..n
           A == Seq(Seq(Nat))
           ids == [i \in DOMAIN q |-> i]
           G == [x \in S |-> [c \in A |-> Grouped(q, c, x)]]
           Body(units, k) ==
               CASE q[k].role = "system" -> units
                 [] /\ q[k].role = "tool"
                    /\ units # <<>>
                    /\ q[Head(Last(units))].calls
                    -> [units EXCEPT ![Len(units)] = Append(@, k)]
                 [] OTHER -> Append(units, <<k>>)
           Def(g) == g = [s \in SUBSET S |->
               IF s = {} THEN <<>> ELSE LET x == Max(s) IN Body(g[s \ {x}], ids[x])]
           iter == CHOOSE g : Def(g)
           h == [k \in 0..n |-> iter[1..k]]
<1>0. \A units, k : Body(units, k) = Grouped(q, units, k)
  BY GroupedByCase
<1> HIDE DEF Body
<1>1. n \in Nat /\ DOMAIN q = S /\ \A x \in S : ids[x] = x
  OBVIOUS
<1>2. \A s \in SUBSET S : s # {} => Max(s) \in s
  BY <1>1, Largest
<1>3. G \in [S -> [A -> A]]
  <2>1. \A x \in S : \A c \in A : Grouped(q, c, x) \in A
    <3>1. S \subseteq Nat
      BY <1>1
    <3> QED
      BY <3>1, GroupedType
  <2> HIDE DEF S, A
  <2> QED
    BY <2>1
<1>4. PICK g : FoldsLeft(n, A, <<>>, G, g)
  <2>1. <<>> \in A
    OBVIOUS
  <2>2. n \in Nat
    BY <1>1
  <2> HIDE DEF A, G, n
  <2> QED
    BY <1>3, <2>1, <2>2, FoldRun
<1>5. /\ g \in [SUBSET S -> A]
      /\ g[{}] = <<>>
      /\ \A s \in SUBSET S : s # {} => g[s] = G[Max(s)][g[s \ {Max(s)}]]
  <2> HIDE DEF G, A
  <2> QED
    BY <1>4 DEF FoldsLeft
<1>6. Def(g)
  <2>1. ASSUME NEW s \in SUBSET S, s # {}
        PROVE  g[s] = LET x == Max(s) IN Body(g[s \ {x}], ids[x])
    <3>1. PICK x \in S : x = Max(s)
      BY <1>2, <2>1
    <3>2. g[s \ {x}] \in A
      BY <1>5
    <3>3. g[s] = G[x][g[s \ {x}]]
      <4> HIDE DEF G, A
      <4> QED
        BY <1>5, <2>1, <3>1
    <3>4. G[x][g[s \ {x}]] = Grouped(q, g[s \ {x}], x)
      BY <3>2
    <3> HIDE DEF G, A, ids
    <3> QED
      BY <1>0, <1>1, <3>1, <3>3, <3>4
  <2> HIDE DEF A, G, ids
  <2> QED
    BY <1>5, <2>1
<1>7. Def(iter)
  <2> HIDE DEF Def
  <2> QED
    BY <1>6
<1>8. GroupUnits(q) = iter[S]
  <2>1. DOMAIN ids = S
    BY <1>1
  <2> HIDE DEF n
  <2> QED
    BY <2>1, Zenon DEF GroupUnits, FoldLeftDomain, FoldLeft, MapThenFoldSet, Body
<1> HIDE DEF iter
<1>9. /\ iter[{}] = <<>>
      /\ \A s \in SUBSET S : s # {} => iter[s] = Grouped(q, iter[s \ {Max(s)}], Max(s))
  <2>1. \A s \in SUBSET S : s # {} => ids[Max(s)] = Max(s)
    BY <1>1, <1>2
  <2> HIDE DEF ids, S
  <2> QED
    BY <1>0, <1>7, <2>1
<1>10. ASSUME NEW k \in 1..n
      PROVE  iter[1..k] = Grouped(q, iter[1..(k - 1)], k)
  <2>1. Max(1..k) = k /\ (1..k) \ {k} = 1..(k - 1) /\ (1..k) \in SUBSET S /\ (1..k) # {}
    BY <1>1, PrefixMax
  <2> HIDE DEF ids, S
  <2> QED
    BY <1>9, <2>1
<1>11. h[0] = <<>> /\ h[n] = iter[S]
  <2>1. 1..0 = {} /\ 0 \in 0..n /\ n \in 0..n
    BY <1>1
  <2> QED
    BY <1>9, <2>1
<1>12. ASSUME NEW k \in 1..n
       PROVE h[k] = Grouped(q, h[k - 1], k)
  <2>1. k \in 0..n /\ k - 1 \in 0..n
    BY <1>1
  <2> QED
    BY <1>10, <2>1
<1> HIDE DEF h
<1>13. GroupRun(q, h)
  BY <1>11, <1>12 DEF GroupRun
<1> QED
  BY <1>8, <1>11, <1>13

(* The units of the first m messages: where each begins, and its indexes.  *)
Spoken(q, m) == {j \in 1..m : q[j].role # "system"}
Grouping(q, m, L, H, T) ==
    /\ \A a \in 1..L : H[a] \in Turns(q) /\ H[a] \in 1..m
    /\ \A t \in Turns(q) : t <= m => \E a \in 1..L : H[a] = t
    /\ \A a, b \in 1..L : a < b => H[a] < H[b]
    /\ \A a \in 1..L : \A j :
         j \in T[a] <=> j \in Spoken(q, m) /\ H[a] <= j /\ (a < L => j < H[a + 1])
    /\ \A j \in Spoken(q, m) : 0 < L /\ H[1] <= j

(* A system message is in no unit.                                         *)
LEMMA GroupingSkips ==
    ASSUME NEW q, NEW k \in 1..Len(q), NEW L \in Nat, NEW H, NEW T,
           Grouping(q, k - 1, L, H, T), q[k].role = "system"
    PROVE  Grouping(q, k, L, H, T)
<1>1. Spoken(q, k) = Spoken(q, k - 1) /\ k \notin Turns(q)
  BY DEF Spoken, Turns
<1>2. \A t \in Turns(q) : t <= k => t <= k - 1
  BY <1>1 DEF Turns
<1>3. 1..(k - 1) \subseteq 1..k
  OBVIOUS
<1> QED
  BY <1>1, <1>2, <1>3 DEF Grouping

(* A message that is no turn goes to the last unit.                        *)
LEMMA GroupingExtends ==
    ASSUME NEW q, NEW k \in 1..Len(q), NEW L \in Nat \ {0}, NEW H, NEW T, NEW U,
           Grouping(q, k - 1, L, H, T), k \notin Turns(q), q[k].role # "system",
           \A a \in 1..L : \A j : j \in U[a] <=> j \in T[a] \/ (a = L /\ j = k)
    PROVE  Grouping(q, k, L, H, U)
<1>1. Spoken(q, k) = Spoken(q, k - 1) \cup {k} /\ Spoken(q, k - 1) \subseteq 1..(k - 1)
  BY DEF Spoken
<1>2. \A t \in Turns(q) : t <= k => t <= k - 1
  BY DEF Turns
<1>3. 1..(k - 1) \subseteq 1..k
  OBVIOUS
<1>4. \A a \in 1..L : H[a] \in 1..(k - 1) /\ H[a] <= k /\ H[a] \in Turns(q)
  BY DEF Grouping
<1>5. ASSUME NEW a \in 1..L, NEW j
      PROVE  j \in U[a] <=> j \in Spoken(q, k) /\ H[a] <= j /\ (a < L => j < H[a + 1])
  <2>1. CASE j = k
    <3>1. a < L => ~(k < H[a + 1])
      <4>1. a < L => a + 1 \in 1..L
        OBVIOUS
      <4>2. a < L => H[a + 1] \in 1..(k - 1)
        BY <1>4, <4>1
      <4> QED
        BY <4>2
    <3>2. k \notin T[a]
      BY <1>1 DEF Grouping
    <3> QED
      BY <1>1, <1>4, <2>1, <3>1, <3>2
  <2>2. CASE j # k
    <3>1. j \in Spoken(q, k) <=> j \in Spoken(q, k - 1)
      BY <1>1, <2>2
    <3>2. j \in T[a] <=> j \in Spoken(q, k - 1) /\ H[a] <= j /\ (a < L => j < H[a + 1])
      BY DEF Grouping
    <3> QED
      BY <2>2, <3>1, <3>2
  <2> QED
    BY <2>1, <2>2
<1>6. \A j \in Spoken(q, k) : 0 < L /\ H[1] <= j
  <2>1. 1 \in 1..L
    OBVIOUS
  <2> QED
    BY <1>1, <1>4, <2>1 DEF Grouping
<1>7. \A t \in Turns(q) : t <= k => \E a \in 1..L : H[a] = t
  BY <1>2 DEF Grouping
<1>8. \A a, b \in 1..L : a < b => H[a] < H[b]
  BY DEF Grouping
<1> QED
  BY <1>3, <1>5, <1>7, <1>4, <1>6, <1>8 DEF Grouping

Prolongs(L, H, T, I, U, k) ==
    /\ \A a \in 1..L : I[a] = H[a] /\ U[a] = T[a]
    /\ I[L + 1] = k /\ U[L + 1] = {k}

(* A turn begins a unit.                                                   *)
LEMMA GroupingBegins ==
    ASSUME NEW q, NEW k \in 1..Len(q), NEW L \in Nat, NEW H, NEW T, NEW I, NEW U,
           Grouping(q, k - 1, L, H, T), k \in Turns(q), Prolongs(L, H, T, I, U, k)
    PROVE  Grouping(q, k, L + 1, I, U)
<1>0. /\ \A a \in 1..L : I[a] = H[a] /\ U[a] = T[a]
      /\ I[L + 1] = k /\ U[L + 1] = {k}
  BY DEF Prolongs
<1>1. Spoken(q, k) = Spoken(q, k - 1) \cup {k} /\ Spoken(q, k - 1) \subseteq 1..(k - 1)
  BY DEF Spoken, Turns
<1>2. 1..(k - 1) \subseteq 1..k /\ k \in 1..k
  OBVIOUS
<1>3. \A a \in 1..(L + 1) : a \in 1..L \/ a = L + 1
  OBVIOUS
<1>4. \A a \in 1..L : H[a] \in 1..(k - 1) /\ H[a] < k /\ H[a] \in Turns(q)
  BY DEF Grouping
<1>5. \A a \in 1..(L + 1) : I[a] \in Turns(q) /\ I[a] \in 1..k
  BY <1>0, <1>2, <1>3, <1>4
<1>6. \A t \in Turns(q) : t <= k => \E a \in 1..(L + 1) : I[a] = t
  <2>1. SUFFICES ASSUME NEW t \in Turns(q), t <= k PROVE \E a \in 1..(L + 1) : I[a] = t
    OBVIOUS
  <2>2. CASE t = k
    BY <1>0, <2>2
  <2>3. CASE t # k
    <3>1. t <= k - 1
      BY <2>1, <2>3 DEF Turns
    <3>2. PICK a \in 1..L : H[a] = t
      BY <3>1 DEF Grouping
    <3> QED
      BY <1>0, <3>2
  <2> QED
    BY <2>2, <2>3
<1>7. \A a, b \in 1..(L + 1) : a < b => I[a] < I[b]
  <2>1. \A a, b \in 1..L : a < b => H[a] < H[b]
    BY DEF Grouping
  <2> QED
    BY <1>0, <1>3, <1>4, <2>1
<1>8. ASSUME NEW a \in 1..(L + 1), NEW j
      PROVE  j \in U[a] <=> j \in Spoken(q, k) /\ I[a] <= j /\ (a < L + 1 => j < I[a + 1])
  <2>1. CASE a = L + 1
    <3>1. j \in Spoken(q, k - 1) => ~(k <= j)
      BY <1>1
    <3> QED
      BY <1>0, <1>1, <2>1, <3>1
  <2>2. CASE a \in 1..L
    <3>1. j \in T[a] <=> j \in Spoken(q, k - 1) /\ H[a] <= j /\ (a < L => j < H[a + 1])
      BY <2>2 DEF Grouping
    <3>2. CASE a = L
      <4>1. j \in Spoken(q, k - 1) => j < k
        BY <1>1
      <4>2. j \in Spoken(q, k) /\ j < k <=> j \in Spoken(q, k - 1)
        BY <1>1, <4>1
      <4> QED
        BY <1>0, <2>2, <3>1, <3>2, <4>1, <4>2
    <3>3. CASE a < L
      <4>1. a + 1 \in 1..L /\ I[a + 1] = H[a + 1] /\ H[a + 1] < k /\ a < L + 1
        BY <1>0, <1>4, <3>3
      <4>2. j \in Spoken(q, k) /\ j < H[a + 1] <=> j \in Spoken(q, k - 1) /\ j < H[a + 1]
        <5>1. ~(k < H[a + 1])
          <6>1. H[a + 1] \in 1..(k - 1)
            BY <1>4, <4>1
          <6> QED
            BY <6>1
        <5> QED
          BY <1>1, <5>1
      <4> QED
        BY <1>0, <2>2, <3>1, <3>3, <4>1, <4>2
    <3> QED
      BY <2>2, <3>2, <3>3
  <2> QED
    BY <1>3, <2>1, <2>2
<1>9. \A j \in Spoken(q, k) : 0 < L + 1 /\ I[1] <= j
  <2>1. SUFFICES ASSUME NEW j \in Spoken(q, k) PROVE I[1] <= j
    OBVIOUS
  <2>2. CASE j = k
    <3>1. 1 \in 1..(L + 1)
      OBVIOUS
    <3>2. I[1] \in 1..k
      BY <1>5, <3>1
    <3> QED
      BY <2>2, <3>2
  <2>3. CASE j \in Spoken(q, k - 1)
    <3>1. 0 < L /\ H[1] <= j
      BY <2>3 DEF Grouping
    <3>2. 1 \in 1..L
      BY <3>1
    <3> QED
      BY <1>0, <3>1, <3>2
  <2> QED
    BY <1>1, <2>2, <2>3
<1> QED
  BY <1>5, <1>7, <1>9, <1>6, <1>8 DEF Grouping

(* The last unit begins with the last turn.                                *)
LEMMA LastTurn ==
    ASSUME NEW q, WellFormed(q), NEW k \in 1..Len(q), NEW L \in Nat \ {0}, NEW H, NEW T,
           Grouping(q, k - 1, L, H, T)
    PROVE  /\ H[L] \in Turns(q) /\ H[L] \in 1..(k - 1)
           /\ \A t \in Turns(q) : t < k => t <= H[L]
<1>1. L \in 1..L
  OBVIOUS
<1>2. \A t \in Turns(q) : t < k => t \in Nat /\ t <= k - 1
  BY DEF Turns
<1>3. ASSUME NEW t \in Turns(q), t < k PROVE t <= H[L]
  <2>1. PICK a \in 1..L : H[a] = t
    BY <1>2, <1>3 DEF Grouping
  <2>2. a = L \/ a < L
    OBVIOUS
  <2>3. a < L => H[a] < H[L]
    BY <1>1 DEF Grouping
  <2>4. H[L] \in Nat
    BY <1>1 DEF Grouping
  <2> QED
    BY <1>2, <2>1, <2>3, <1>3, <2>2, <2>4
<1> QED
  BY <1>1, <1>3 DEF Grouping

(* The result of a tool belongs to the call that the last turn made,       *)
LEMMA ResultIsNoTurn ==
    ASSUME NEW q, WellFormed(q), NEW k \in 1..Len(q), NEW L \in Nat \ {0}, NEW H, NEW T,
           Grouping(q, k - 1, L, H, T), q[k].role = "tool", q[H[L]].calls
    PROVE  k \notin Turns(q)
<1>1. PICK j : j = H[L] /\ j \in 1..(k - 1) /\ \A t \in Turns(q) : t < k => t <= j
  BY LastTurn
<1>2. ASSUME NEW l \in (j + 1)..(k - 1) PROVE q[l].role \in {"system", "tool"}
  <2>1. SUFFICES ASSUME q[l].role \notin {"system", "tool"} PROVE FALSE
    OBVIOUS
  <2>2. l \in 1..Len(q) /\ l < k /\ ~(l <= j)
    BY <1>1
  <2>3. l \in Turns(q)
    BY <2>1, <2>2 DEF Turns, BelongsToCall
  <2> QED
    BY <1>1, <2>2, <2>3
<1>3. BelongsToCall(q, k)
  BY <1>1, <1>2 DEF BelongsToCall
<1> QED
  BY <1>3 DEF Turns

(* and every other message that is spoken is a turn.                       *)
LEMMA OthersAreTurns ==
    ASSUME NEW q, WellFormed(q), NEW k \in 1..Len(q), NEW L \in Nat, NEW H, NEW T,
           Grouping(q, k - 1, L, H, T), q[k].role # "system",
           ~(q[k].role = "tool" /\ L # 0 /\ q[H[L]].calls)
    PROVE  k \in Turns(q)
<1> SUFFICES ASSUME BelongsToCall(q, k) PROVE FALSE
  BY DEF Turns
<1>1. q[k].role = "tool"
  BY DEF BelongsToCall
<1>2. PICK j \in 1..(k - 1) :
        q[j].calls /\ \A l \in (j + 1)..(k - 1) : q[l].role \in {"system", "tool"}
  BY DEF BelongsToCall
<1>3. q[j].role = "assistant" /\ j \in 1..Len(q) /\ j < k
  BY <1>2 DEF WellFormed
<1>4. j \in Turns(q)
  BY <1>3 DEF Turns, BelongsToCall
<1>5. L # 0
  <2>1. j <= k - 1
    BY <1>2
  <2> QED
    BY <1>4, <2>1 DEF Grouping
<1>6. PICK t : t = H[L] /\ t \in Turns(q) /\ t \in 1..(k - 1) /\ j <= t
  BY <1>3, <1>4, <1>5, LastTurn
<1>7. CASE t = j
  BY <1>1, <1>2, <1>5, <1>6, <1>7
<1>8. CASE t # j
  <2>1. t \in (j + 1)..(k - 1)
    BY <1>2, <1>6, <1>8
  <2>2. q[t].role = "tool"
    BY <1>2, <1>6, <2>1 DEF Turns
  <2>3. \A l \in (j + 1)..(t - 1) : l \in (j + 1)..(k - 1)
    BY <1>6
  <2>4. j \in 1..(t - 1)
    BY <1>2, <2>1
  <2>5. BelongsToCall(q, t)
    BY <1>2, <2>2, <2>3, <2>4 DEF BelongsToCall
  <2> QED
    BY <1>6, <2>5 DEF Turns
<1> QED
  BY <1>7, <1>8

Heads(u) == [a \in 1..Len(u) |-> Head(u[a])]
Members(u) == [a \in 1..Len(u) |-> ToSet(u[a])]
UnitsOf(q, m, u) ==
    /\ u \in Seq(Seq(Nat))
    /\ \A a \in 1..Len(u) : u[a] # <<>>
    /\ Grouping(q, m, Len(u), Heads(u), Members(u))

LEMMA AppendedUnit ==
    ASSUME NEW q, NEW k \in 1..Len(q), NEW u, UnitsOf(q, k - 1, u), k \in Turns(q)
    PROVE  UnitsOf(q, k, Append(u, <<k>>))
<1>1. PICK L \in Nat : L = Len(u)
  BY DEF UnitsOf
<1>2. PICK w \in Seq(Nat) : w = <<k>>
  <2>1. k \in Nat
    OBVIOUS
  <2>2. <<k>> \in Seq(Nat)
    BY <2>1
  <2> QED
    BY <2>2
<1>3. Head(w) = k /\ ToSet(w) = {k} /\ w # <<>>
  <2>1. DOMAIN w = {1} /\ w[1] = k /\ Len(w) = 1
    BY <1>2
  <2>2. ToSet(w) = {k}
    BY <2>1 DEF ToSet
  <2>3. Head(w) = w[1]
    BY <2>1
  <2>4. w # <<>>
    BY <1>2
  <2> QED
    BY <2>1, <2>3, <2>2, <2>4, Zenon
<1>4. PICK v : v = Append(u, w) /\ v \in Seq(Seq(Nat)) /\ Len(v) = L + 1 /\ v[L + 1] = w
               /\ \A a \in 1..L : v[a] = u[a]
  <2>1. u \in Seq(Seq(Nat))
    BY DEF UnitsOf
  <2>2. PICK v : v = Append(u, w)
    OBVIOUS
  <2>3. v \in Seq(Seq(Nat))
    BY <2>1, <2>2
  <2>4. Len(v) = L + 1 /\ v[L + 1] = w /\ \A a \in 1..L : v[a] = u[a]
    BY <1>1, <2>1, <2>2
  <2> QED
    BY <2>2, <2>3, <2>4
<1>5. \A a \in 1..L : a \in 1..(L + 1)
  OBVIOUS
<1>6. \A a \in 1..L : Heads(v)[a] = Heads(u)[a] /\ Members(v)[a] = Members(u)[a]
  BY <1>1, <1>4, <1>5 DEF Heads, Members
<1>7. Heads(v)[L + 1] = k /\ Members(v)[L + 1] = {k}
  <2>1. L + 1 \in 1..Len(v) /\ v[L + 1] = w
    BY <1>4
  <2>2. Heads(v)[L + 1] = Head(w)
    BY <2>1 DEF Heads
  <2>3. Members(v)[L + 1] = ToSet(w)
    BY <2>1 DEF Members
  <2> QED
    BY <1>3, <2>2, <2>3
<1>8. Grouping(q, k - 1, L, Heads(u), Members(u))
  BY <1>1 DEF UnitsOf
<1>9. Grouping(q, k, L + 1, Heads(v), Members(v))
  <2>1. PICK H, T, I, U : H = Heads(u) /\ T = Members(u) /\ I = Heads(v) /\ U = Members(v)
    OBVIOUS
  <2>2. Prolongs(L, H, T, I, U, k) /\ Grouping(q, k - 1, L, H, T)
    BY <1>6, <1>7, <1>8, <2>1 DEF Prolongs
  <2>3. Grouping(q, k, L + 1, I, U)
    BY <2>2, GroupingBegins
  <2> QED
    BY <2>1, <2>3
<1>10. \A a \in 1..(L + 1) : v[a] # <<>>
  <2>1. \A a \in 1..(L + 1) : a \in 1..L \/ a = L + 1
    OBVIOUS
  <2> QED
    BY <1>1, <1>3, <1>4, <2>1 DEF UnitsOf
<1> QED
  BY <1>2, <1>4, <1>9, <1>10 DEF UnitsOf

LEMMA ExtendedUnit ==
    ASSUME NEW q, NEW k \in 1..Len(q), NEW u, UnitsOf(q, k - 1, u), k \notin Turns(q),
           q[k].role # "system", u # <<>>
    PROVE  UnitsOf(q, k, [u EXCEPT ![Len(u)] = Append(@, k)])
<1>1. PICK L \in Nat \ {0} : L = Len(u) /\ DOMAIN u = 1..L /\ L \in 1..L
  <2>1. u \in Seq(Seq(Nat))
    BY DEF UnitsOf
  <2>2. Len(u) \in Nat /\ DOMAIN u = 1..Len(u) /\ Len(u) # 0
    BY <2>1
  <2>3. Len(u) \in 1..Len(u)
    BY <2>2
  <2> QED
    BY <2>2, <2>3
<1>2. PICK old \in Seq(Nat) : old = u[L] /\ old # <<>>
  BY <1>1 DEF UnitsOf
<1>3. PICK w : w = Append(old, k)
  OBVIOUS
<1>4. w \in Seq(Nat) /\ w # <<>> /\ Head(w) = Head(old)
  BY <1>2, <1>3
<1>5. \A j : j \in ToSet(w) <=> j \in ToSet(old) \/ j = k
  <2>1. PICK p \in Nat : p = Len(old)
    OBVIOUS
  <2>2. DOMAIN old = 1..p /\ DOMAIN w = 1..(p + 1) /\ w[p + 1] = k /\ \A i \in 1..p : w[i] = old[i]
    BY <1>3, <2>1
  <2>3. \A i \in 1..(p + 1) : i \in 1..p \/ i = p + 1
    OBVIOUS
  <2>4. \A i \in 1..p : i \in 1..(p + 1)
    OBVIOUS
  <2>5. p + 1 \in 1..(p + 1)
    OBVIOUS
  <2> QED
    BY <2>2, <2>4, <2>3, <2>5 DEF ToSet
<1>6. PICK v : v = [u EXCEPT ![L] = w]
  OBVIOUS
<1>7. v \in Seq(Seq(Nat)) /\ Len(v) = L /\ v[L] = w /\ \A a \in 1..L : a # L => v[a] = u[a]
  <2>1. u \in Seq(Seq(Nat))
    BY DEF UnitsOf
  <2> QED
    BY <1>1, <1>4, <1>6, <2>1
<1>8. \A a \in 1..L : Heads(v)[a] = Heads(u)[a]
  BY <1>1, <1>2, <1>4, <1>7 DEF Heads
<1>9. \A a \in 1..L : \A j : j \in Members(v)[a] <=> j \in Members(u)[a] \/ (a = L /\ j = k)
  BY <1>1, <1>2, <1>5, <1>7 DEF Members
<1>10. Heads(v) = Heads(u)
  BY <1>1, <1>7, <1>8 DEF Heads
<1>11. Grouping(q, k - 1, L, Heads(u), Members(u))
  BY <1>1 DEF UnitsOf
<1>12. Grouping(q, k, L, Heads(v), Members(v))
  BY <1>9, <1>10, <1>11, GroupingExtends
<1>13. \A a \in 1..L : v[a] # <<>>
  BY <1>1, <1>4, <1>7 DEF UnitsOf
<1> QED
  BY <1>1, <1>2, <1>3, <1>6, <1>7, <1>12, <1>13 DEF UnitsOf

(* The units of a conversation begin at its turns.                         *)
LEMMA UnitsAreTurns ==
    ASSUME NEW q, WellFormed(q)
    PROVE  UnitsOf(q, Len(q), GroupUnits(q))
<1>1. PICK n \in Nat : n = Len(q)
  BY DEF WellFormed
<1>2. PICK h : GroupRun(q, h) /\ GroupUnits(q) = h[n]
  BY <1>1, GroupRuns DEF WellFormed
<1> DEFINE N == {k \in 0..n : UnitsOf(q, k, h[k])}
<1>3. 0 \in N
  <2>1. h[0] = <<>>
    BY <1>2 DEF GroupRun
  <2>2. Grouping(q, 0, 0, Heads(<<>>), Members(<<>>))
    <3>1. Spoken(q, 0) = {} /\ \A t \in Turns(q) : ~(t <= 0)
      BY DEF Spoken, Turns
    <3> QED
      BY <3>1 DEF Grouping
  <2>3. UnitsOf(q, 0, <<>>)
    BY <2>2 DEF UnitsOf
  <2>4. 0 \in 0..n
    OBVIOUS
  <2> QED
    BY <2>1, <2>3, <2>4
<1>4. ASSUME NEW k \in 1..n, k - 1 \in N
      PROVE  k \in N
  <2>1. PICK u : u = h[k - 1] /\ UnitsOf(q, k - 1, u)
    BY <1>4
  <2>2. h[k] = Grouped(q, u, k) /\ k \in 1..Len(q)
    BY <1>1, <1>2, <2>1 DEF GroupRun
  <2>3. PICK L \in Nat : L = Len(u) /\ (u # <<>> <=> L # 0)
    BY <2>1 DEF UnitsOf
  <2>4. L # 0 => Head(Last(u)) = Heads(u)[L]
    BY <2>3 DEF Heads, Last
  <2>5. Grouping(q, k - 1, L, Heads(u), Members(u))
    BY <2>1, <2>3 DEF UnitsOf
  <2>6. CASE q[k].role = "system"
    <3>1. h[k] = u
      BY <2>2, <2>6 DEF Grouped
    <3>2. Grouping(q, k, L, Heads(u), Members(u))
      BY <2>2, <2>5, <2>6, GroupingSkips
    <3>3. UnitsOf(q, k, u)
      BY <2>1, <2>3, <3>2 DEF UnitsOf
    <3> QED
      BY <3>1, <3>3
  <2>7. CASE q[k].role = "tool" /\ L # 0 /\ q[Heads(u)[L]].calls
    <3>1. h[k] = [u EXCEPT ![Len(u)] = Append(@, k)]
      BY <2>2, <2>4, <2>3, <2>7 DEF Grouped
    <3>2. k \notin Turns(q)
      BY <2>2, <2>5, <2>7, ResultIsNoTurn
    <3>3. UnitsOf(q, k, h[k])
      <4>1. q[k].role # "system" /\ u # <<>> /\ k \in 1..Len(q)
        BY <2>2, <2>3, <2>7
      <4>2. UnitsOf(q, k, [u EXCEPT ![Len(u)] = Append(@, k)])
        BY <2>1, <3>2, <4>1, ExtendedUnit
      <4> QED
        BY <3>1, <4>2
    <3> QED
      BY <3>3
  <2>8. CASE q[k].role # "system" /\ ~(q[k].role = "tool" /\ L # 0 /\ q[Heads(u)[L]].calls)
    <3>1. h[k] = Append(u, <<k>>)
      BY <2>2, <2>4, <2>3, <2>8 DEF Grouped
    <3>2. k \in Turns(q)
      BY <2>2, <2>5, <2>8, OthersAreTurns
    <3>3. UnitsOf(q, k, h[k])
      BY <2>1, <2>2, <3>1, <3>2, AppendedUnit
    <3> QED
      BY <3>3
  <2> QED
    BY <2>6, <2>7, <2>8
<1>5. n \in N
  <2>1. n \in 0..n
    OBVIOUS
  <2> HIDE DEF N
  <2> QED
    BY <1>3, <1>4, <2>1, LoopInduction
<1> QED
  BY <1>1, <1>2, <1>5

-----------------------------------------------------------------------------
(* DropOldest: what the loop over the units has dropped and what is left.  *)

(* What the loop of BuildContext takes off the total for a unit.           *)
UnitCost(q, T) == MapThenSumSet(LAMBDA k : CountMessage(q[k]), T)

LEMMA UnitCostIsWeight ==
    ASSUME NEW q, NEW S, S = 1..Len(q), IsFiniteSet(S), NEW g, Weighs(S, Costs(q), g),
           NEW T, Apart(S, T, {})
    PROVE  UnitCost(q, T) = g[T]
<1>0. T \in SUBSET S
  BY DEF Apart
<1> DEFINE Def(h) == h = [s \in SUBSET T |->
               IF s = {} THEN 0
               ELSE LET x == CHOOSE x \in s : TRUE IN CountMessage(q[x]) + h[s \ {x}]]
           iter == CHOOSE h : Def(h)
           weight == [s \in SUBSET T |-> g[s]]
<1>1. \A s \in SUBSET T : s # {} => (CHOOSE x \in s : TRUE) \in s
  OBVIOUS
<1>2. Def(weight)
  <2>1. ASSUME NEW s \in SUBSET T
        PROVE weight[s] = IF s = {} THEN 0
                          ELSE LET x == CHOOSE x \in s : TRUE
                               IN  CountMessage(q[x]) + weight[s \ {x}]
    <3>1. CASE s = {}
      BY <3>1 DEF Weighs
    <3>2. CASE s # {}
      <4>1. PICK x \in s : x = CHOOSE y \in s : TRUE
        BY <1>1, <3>2
      <4>2. g[s] = CountMessage(q[x]) + g[s \ {x}]
        BY <1>0 DEF Weighs, Costs
      <4>3. weight[s] = g[s] /\ weight[s \ {x}] = g[s \ {x}]
        OBVIOUS
      <4> HIDE DEF weight
      <4> QED
        BY <3>2, <4>1, <4>2, <4>3
    <3> QED
      BY <3>1, <3>2
  <2>2. weight = [s \in SUBSET T |-> weight[s]]
    OBVIOUS
  <2> HIDE DEF weight
  <2> QED
    BY <2>1, <2>2
<1>3. Def(iter)
  <2> HIDE DEF Def
  <2> QED
    BY <1>2
<1>4. UnitCost(q, T) = iter[T]
  BY DEF UnitCost, MapThenSumSet, MapThenFoldSet
<1> HIDE DEF iter
<1> DEFINE P == {s \in SUBSET T : iter[s] = g[s]}
<1>5. ASSUME NEW s \in SUBSET T, \A x \in s : s \ {x} \in P
      PROVE  s \in P
  <2>1. CASE s = {}
    BY <1>3, <2>1 DEF Weighs
  <2>2. CASE s # {}
    <3>1. PICK x \in s : x = CHOOSE y \in s : TRUE
      BY <1>1, <2>2
    <3>2. iter[s] = CountMessage(q[x]) + iter[s \ {x}]
      BY <1>3, <2>2, <3>1
    <3>3. g[s] = CountMessage(q[x]) + g[s \ {x}]
      BY <1>0 DEF Weighs, Costs
    <3> QED
      BY <1>5, <3>2, <3>3
  <2> QED
    BY <2>1, <2>2
<1>6. IsFiniteSet(T)
  BY <1>0, FS_Subset
<1>7. Grows(T, P)
  <2> HIDE DEF P
  <2> QED
    BY <1>5 DEF Grows
<1>8. T \in P
  <2> HIDE DEF P
  <2> QED
    BY <1>6, <1>7, SubsetInduction
<1> QED
  BY <1>4, <1>8
(* The loop over the units but the last.                                   *)
DropRound(q, left, unit, budget) ==
    IF left.total <= budget THEN left
    ELSE [total   |-> left.total - UnitCost(q, ToSet(unit)),
          dropped |-> left.dropped \cup ToSet(unit)]
DropRun(q, total, budget, r, h) ==
    /\ h[0] = [total |-> total, dropped |-> {}]
    /\ \A a \in 1..Len(r) : h[a] = DropRound(q, h[a - 1], r[a], budget)

(* DropOldest takes the units one after the other.                         *)
LEMMA DropRuns ==
    ASSUME NEW q, NEW total \in Int, NEW budget, NEW m \in Nat, NEW r,
           r = Front(GroupUnits(q)), DOMAIN r = 1..m, Len(r) = m,
           \A a \in 1..m : UnitCost(q, ToSet(r[a])) \in Nat
    PROVE  \E h : DropRun(q, total, budget, r, h) /\ DropOldest(q, total, budget) = h[m]
<1> DEFINE S == 1..m
           first == [total |-> total, dropped |-> {}]
           A == [total : Int, dropped : SUBSET (UNION {ToSet(r[a]) : a \in S})]
           G == [x \in S |-> [c \in A |-> DropRound(q, c, r[x], budget)]]
           Def(g) == g = [s \in SUBSET S |->
               IF s = {} THEN first ELSE LET x == Max(s) IN DropRound(q, g[s \ {x}], r[x], budget)]
           iter == CHOOSE g : Def(g)
           h == [k \in 0..m |-> iter[1..k]]
<1>1. \A s \in SUBSET S : s # {} => Max(s) \in s
  BY Largest
<1>2. G \in [S -> [A -> A]]
  <2>1. ASSUME NEW x \in S, NEW c \in A PROVE DropRound(q, c, r[x], budget) \in A
    <3>1. c.total - UnitCost(q, ToSet(r[x])) \in Int
      OBVIOUS
    <3>2. ToSet(r[x]) \subseteq UNION {ToSet(r[a]) : a \in S}
      OBVIOUS
    <3>3. c.dropped \cup ToSet(r[x]) \in SUBSET (UNION {ToSet(r[a]) : a \in S})
      BY <3>2
    <3> QED
      BY <3>1, <3>3 DEF DropRound
  <2> HIDE DEF S, A
  <2> QED
    BY <2>1
<1>3. PICK g : FoldsLeft(m, A, first, G, g)
  <2>1. first \in A
    OBVIOUS
  <2> HIDE DEF A, G, first
  <2> QED
    BY <1>2, <2>1, FoldRun
<1>4. /\ g \in [SUBSET S -> A]
      /\ g[{}] = first
      /\ \A s \in SUBSET S : s # {} => g[s] = G[Max(s)][g[s \ {Max(s)}]]
  <2> HIDE DEF G, A, first
  <2> QED
    BY <1>3 DEF FoldsLeft
<1>5. Def(g)
  <2>1. ASSUME NEW s \in SUBSET S, s # {}
        PROVE  g[s] = LET x == Max(s) IN DropRound(q, g[s \ {x}], r[x], budget)
    <3>1. PICK x \in S : x = Max(s)
      BY <1>1, <2>1
    <3>2. g[s \ {x}] \in A
      <4> HIDE DEF A
      <4> QED
        BY <1>4
    <3>3. g[s] = G[x][g[s \ {x}]]
      <4> HIDE DEF G, A
      <4> QED
        BY <1>4, <2>1, <3>1
    <3>4. G[x][g[s \ {x}]] = DropRound(q, g[s \ {x}], r[x], budget)
      <4> HIDE DEF A
      <4> QED
        BY <3>2
    <3> HIDE DEF G, A
    <3> QED
      BY <3>1, <3>3, <3>4
  <2> HIDE DEF A, G, first
  <2> QED
    BY <1>4, <2>1
<1>6. Def(iter)
  <2> HIDE DEF Def
  <2> QED
    BY <1>5
<1>7. DropOldest(q, total, budget) = iter[S]
  BY Zenon DEF DropOldest, FoldLeft, MapThenFoldSet, DropRound, UnitCost
<1> HIDE DEF iter, first
<1>8. /\ iter[{}] = first
      /\ \A s \in SUBSET S : s # {} =>
           iter[s] = DropRound(q, iter[s \ {Max(s)}], r[Max(s)], budget)
  <2> HIDE DEF S
  <2> QED
    BY <1>6
<1>9. ASSUME NEW k \in 1..m
      PROVE  iter[1..k] = DropRound(q, iter[1..(k - 1)], r[k], budget)
  <2>1. Max(1..k) = k /\ (1..k) \ {k} = 1..(k - 1)
    BY PrefixMax
  <2>2. (1..k) \in SUBSET S /\ (1..k) # {}
    OBVIOUS
  <2> HIDE DEF S
  <2> QED
    BY <1>8, <2>1, <2>2
<1>10. h[0] = first /\ h[m] = iter[S]
  <2>1. 1..0 = {} /\ 0 \in 0..m /\ m \in 0..m
    OBVIOUS
  <2> QED
    BY <1>8, <2>1
<1>11. ASSUME NEW k \in 1..m
       PROVE h[k] = DropRound(q, h[k - 1], r[k], budget)
  <2>1. k \in 0..m /\ k - 1 \in 0..m
    OBVIOUS
  <2> QED
    BY <1>9, <2>1
<1> HIDE DEF h
<1>12. DropRun(q, total, budget, r, h)
  BY <1>10, <1>11 DEF DropRun, first
<1> QED
  BY <1>7, <1>10, <1>12

(* What From leaves out, and what it keeps.                                *)
Before(q, k) == {j \in 1..(k - 1) : q[j].role # "system"}
After(q, k) == (1..Len(q)) \ Before(q, k)

LEMMA FromWeighs ==
    ASSUME NEW q, WellFormed(q), NEW g, Weighs(1..Len(q), Costs(q), g), NEW k
    PROVE  CountMessages(From(q, k)) = g[After(q, k)]
<1>1. From(q, k) = Without(q, Before(q, k))
  BY DEF From, Before
<1> QED
  BY <1>1, WithoutWeighs DEF After

LEMMA CostsAreWeights ==
    ASSUME NEW q, WellFormed(q)
    PROVE  Len(q) \in Nat /\ Costs(q) \in [1..Len(q) -> Nat] /\ IsFiniteSet(1..Len(q))
           /\ DOMAIN q = 1..Len(q)
<1>1. Len(q) \in Nat /\ DOMAIN q = 1..Len(q)
  BY DEF WellFormed
<1>2. IsFiniteSet(1..Len(q))
  BY <1>1, FS_Interval
<1>3. \A k \in 1..Len(q) : CountMessage(q[k]) \in Nat
  BY DEF WellFormed, CountMessage, MessageOverhead
<1> QED
  BY <1>1, <1>2, <1>3 DEF Costs

(* All the messages, and those before a turn that are no system messages.  *)
LEMMA AllWeigh ==
    ASSUME NEW q, WellFormed(q), NEW g, Weighs(1..Len(q), Costs(q), g)
    PROVE  CountMessages(q) = g[1..Len(q)]
<1>1. PICK n \in Nat : n = Len(q) /\ Costs(q) \in [1..n -> Nat] /\ DOMAIN q = 1..n
  BY CostsAreWeights
<1>2. \A k \in 1..n : Costs(q)[k] = CountMessage(q[k]) /\ Costs(q)[k] \in Nat
  BY <1>1 DEF Costs
<1>3. n <= n /\ Weighs(1..n, Costs(q), g)
  BY <1>1
<1> QED
  BY <1>1, <1>2, <1>3, CountIsWeight

(* Dropping a unit takes its cost off.                                     *)
LEMMA UnitGoes ==
    ASSUME NEW q, WellFormed(q), NEW L \in Nat, NEW H, NEW T, Grouping(q, Len(q), L, H, T),
           NEW a \in 1..(L - 1)
    PROVE  /\ Before(q, H[a + 1]) = Before(q, H[a]) \cup T[a]
           /\ UnitCost(q, T[a]) \in Nat
           /\ CountMessages(From(q, H[a])) \in Nat
           /\ CountMessages(From(q, H[a + 1])) = CountMessages(From(q, H[a])) - UnitCost(q, T[a])
<1>1. PICK n \in Nat : n = Len(q) /\ Costs(q) \in [1..n -> Nat] /\ IsFiniteSet(1..n)
  BY CostsAreWeights
<1>2. PICK g : Weighs(1..n, Costs(q), g)
  BY <1>1, WeightExists
<1>3. a \in 1..L /\ a + 1 \in 1..L /\ a < a + 1
  OBVIOUS
<1>4. PICK x \in 1..n, y \in 1..n : x = H[a] /\ y = H[a + 1] /\ x < y
  BY <1>1, <1>3 DEF Grouping
<1>5. \A j : j \in T[a] <=> j \in 1..n /\ q[j].role # "system" /\ x <= j /\ j < y
  BY <1>1, <1>3, <1>4 DEF Grouping, Spoken
<1>6. Before(q, y) = Before(q, x) \cup T[a]
  <2>1. ASSUME NEW j
        PROVE  j \in Before(q, y) <=> j \in Before(q, x) \/ j \in T[a]
    <3>1. j \in Before(q, y) <=> j \in 1..n /\ q[j].role # "system" /\ j < y
      BY <1>4 DEF Before
    <3>2. j \in Before(q, x) <=> j \in 1..n /\ q[j].role # "system" /\ j < x
      BY <1>4 DEF Before
    <3>3. j \in 1..n => (j < y <=> j < x \/ (x <= j /\ j < y))
      BY <1>4
    <3> QED
      BY <1>5, <3>1, <3>2, <3>3
  <2> QED
    BY <2>1
<1>7. PICK X, Y, Z : X = After(q, x) /\ Y = After(q, y) /\ Z = T[a]
  OBVIOUS
<1>8. X = Y \cup Z /\ Apart(1..n, Y, Z) /\ Apart(1..n, X, {})
  <2>1. \A j \in Z : j \notin Before(q, x)
    BY <1>4, <1>5, <1>7 DEF Before
  <2>2. Z \subseteq 1..n
    BY <1>5, <1>7
  <2>3. X = (1..n) \ Before(q, x) /\ Y = (1..n) \ (Before(q, x) \cup Z)
    BY <1>1, <1>6, <1>7 DEF After
  <2> QED
    BY <2>1, <2>2, <2>3 DEF Apart
<1>9. g[X] = g[Y] + g[Z]
  <2>1. Adds(g, Y, Z)
    BY <1>1, <1>2, <1>8, WeightAdds
  <2> QED
    BY <1>8, <2>1 DEF Adds
<1>10. g[X] \in Nat /\ g[Y] \in Nat /\ g[Z] \in Nat
  BY <1>2, <1>8 DEF Weighs, Apart
<1>11. UnitCost(q, Z) = g[Z]
  <2>1. Apart(1..n, Z, {})
    BY <1>8 DEF Apart
  <2> QED
    BY <1>1, <1>2, <2>1, UnitCostIsWeight
<1>12. CountMessages(From(q, x)) = g[X] /\ CountMessages(From(q, y)) = g[Y]
  BY <1>1, <1>2, <1>7, FromWeighs
<1>13. g[Y] = g[X] - g[Z]
  BY <1>9, <1>10
<1> QED
  BY <1>4, <1>7, <1>11, <1>13, <1>6, <1>10, <1>12

LEMMA NothingBefore ==
    ASSUME NEW q, WellFormed(q), NEW L \in Nat \ {0}, NEW H, NEW T, Grouping(q, Len(q), L, H, T)
    PROVE  Before(q, H[1]) = {} /\ CountMessages(From(q, H[1])) = CountMessages(q)
<1>1. H[1] \in 1..Len(q)
  <2>1. 1 \in 1..L
    OBVIOUS
  <2> QED
    BY <2>1 DEF Grouping
<1>2. Before(q, H[1]) = {}
  <2>1. \A j \in Spoken(q, Len(q)) : H[1] <= j
    BY DEF Grouping
  <2>2. \A j \in Before(q, H[1]) : j \in Spoken(q, Len(q)) /\ ~(H[1] <= j)
    BY <1>1 DEF Before, Spoken
  <2> QED
    BY <2>1, <2>2
<1>3. After(q, H[1]) = 1..Len(q)
  BY <1>2 DEF After
<1>4. PICK g : Weighs(1..Len(q), Costs(q), g)
  BY CostsAreWeights, WeightExists
<1> QED
  BY <1>2, <1>3, <1>4, FromWeighs, AllWeigh

(* What is left, and what does not fit, after the rounds of the loop.      *)
Costs0(q, tc, k) == tc + CountMessages(From(q, k))
Stands(q, tc, budget, H, left, d, a) ==
    /\ left.dropped = Before(q, H[d + 1])
    /\ left.total = Costs0(q, tc, H[d + 1])
    /\ \A e \in 1..d : ~(Costs0(q, tc, H[e]) <= budget)
    /\ d < a => left.total <= budget

(* A round drops the turn that stands first, or leaves the rest alone.     *)
LEMMA DropsOldest ==
    ASSUME NEW q, WellFormed(q), NEW tc \in Nat, NEW budget, NEW L \in Nat \ {0}, NEW H, NEW T,
           Grouping(q, Len(q), L, H, T), NEW r, Len(r) = L - 1,
           \A a \in 1..(L - 1) : ToSet(r[a]) = T[a],
           NEW h, DropRun(q, tc + CountMessages(q), budget, r, h)
    PROVE  \E d \in 0..(L - 1) : Stands(q, tc, budget, H, h[L - 1], d, L - 1)
<1> DEFINE m == L - 1
           N == {a \in 0..m : \E d \in 0..a : Stands(q, tc, budget, H, h[a], d, a)}
<1>1. 0 \in N
  <2>1. h[0].dropped = {} /\ h[0].total = tc + CountMessages(q)
    BY DEF DropRun
  <2>2. Before(q, H[0 + 1]) = {} /\ CountMessages(From(q, H[0 + 1])) = CountMessages(q)
    BY NothingBefore
  <2>3. Stands(q, tc, budget, H, h[0], 0, 0)
    BY <2>1, <2>2 DEF Stands, Costs0
  <2> QED
    BY <2>3
<1>2. ASSUME NEW a \in 1..m, a - 1 \in N
      PROVE  a \in N
  <2>1. PICK d \in 0..(a - 1) : Stands(q, tc, budget, H, h[a - 1], d, a - 1)
    BY <1>2
  <2>2. PICK old : old = h[a - 1]
    OBVIOUS
  <2>3. h[a] = DropRound(q, old, r[a], budget)
    BY <2>2 DEF DropRun
  <2>4. a \in 0..m /\ d \in 0..a
    OBVIOUS
  <2>5. CASE old.total <= budget
    <3>1. h[a] = old
      BY <2>3, <2>5 DEF DropRound
    <3>2. Stands(q, tc, budget, H, h[a], d, a)
      BY <2>1, <2>2, <2>5, <3>1 DEF Stands
    <3> QED
      BY <2>4, <3>2
  <2>6. CASE ~(old.total <= budget)
    <3>1. d + 1 = a /\ a \in 1..(L - 1)
      BY <2>1, <2>2, <2>6 DEF Stands
    <3>2. /\ old.dropped = Before(q, H[a])
          /\ old.total = Costs0(q, tc, H[a])
          /\ \A e \in 1..d : ~(Costs0(q, tc, H[e]) <= budget)
      BY <2>1, <2>2, <3>1 DEF Stands
    <3>3. h[a].dropped = old.dropped \cup T[a] /\ h[a].total = old.total - UnitCost(q, T[a])
      BY <2>3, <2>6, <3>1 DEF DropRound
    <3>4. /\ Before(q, H[a + 1]) = Before(q, H[a]) \cup T[a]
          /\ UnitCost(q, T[a]) \in Nat
          /\ CountMessages(From(q, H[a])) \in Nat
          /\ CountMessages(From(q, H[a + 1])) = CountMessages(From(q, H[a])) - UnitCost(q, T[a])
      BY <3>1, UnitGoes
    <3>5. h[a].total = Costs0(q, tc, H[a + 1])
      <4>1. PICK x, y \in Nat : x = CountMessages(From(q, H[a])) /\ y = UnitCost(q, T[a])
        BY <3>4
      <4>2. (tc + x) - y = tc + (x - y)
        OBVIOUS
      <4> QED
        BY <3>2, <3>3, <3>4, <4>1, <4>2 DEF Costs0
    <3>6. \A e \in 1..a : ~(Costs0(q, tc, H[e]) <= budget)
      <4>1. \A e \in 1..a : e \in 1..d \/ e = a
        BY <3>1
      <4> QED
        BY <2>6, <3>2, <4>1
    <3>7. Stands(q, tc, budget, H, h[a], a, a)
      BY <3>2, <3>4, <3>6, <3>3, <3>5 DEF Stands
    <3> QED
      BY <2>4, <3>7
  <2> QED
    BY <2>5, <2>6
<1>3. m \in N
  <2>1. m \in Nat /\ m \in 0..m
    OBVIOUS
  <2> HIDE DEF N, m
  <2> QED
    BY <1>1, <1>2, <2>1, LoopInduction
<1> QED
  BY <1>3

(* The loop ends at the first turn from which the rest fits, or at the     *)
(* last one; without a turn it drops nothing.                              *)
Oldest(q, tc, budget, left) ==
    IF Turns(q) = {} THEN left.total = tc + CountMessages(q)
    ELSE \E k \in Turns(q) :
        /\ left.dropped = Before(q, k)
        /\ left.total = Costs0(q, tc, k)
        /\ \A j \in Turns(q) : j < k => ~(Costs0(q, tc, j) <= budget)
        /\ ~(left.total <= budget) => \A j \in Turns(q) : ~(Costs0(q, tc, j) <= budget)

(* units[:-1].                                                             *)
LEMMA FrontOf ==
    ASSUME NEW u \in Seq(Seq(Nat)), NEW m \in Nat, m = IF Len(u) = 0 THEN 0 ELSE Len(u) - 1
    PROVE  DOMAIN Front(u) = 1..m /\ Len(Front(u)) = m /\ \A a \in 1..m : Front(u)[a] = u[a]
<1>1. CASE Len(u) = 0
  <2>1. Front(u) = <<>> /\ m = 0 /\ 1..m = {}
    BY <1>1 DEF Front
  <2>2. DOMAIN <<>> = {} /\ Len(<<>>) = 0
    OBVIOUS
  <2> QED
    BY <2>1, <2>2
<1>2. CASE Len(u) # 0
  <2>1. m = Len(u) - 1 /\ m + 1 = Len(u)
    BY <1>2
  <2> QED
    BY <2>1 DEF Front
<1> QED
  BY <1>1, <1>2

LEMMA OldestDropped ==
    ASSUME NEW q, WellFormed(q), NEW tc \in Nat, NEW budget
    PROVE  Oldest(q, tc, budget, DropOldest(q, tc + CountMessages(q), budget))
<1>1. PICK u : u = GroupUnits(q) /\ UnitsOf(q, Len(q), u)
  BY UnitsAreTurns
<1>2. PICK L, m \in Nat : L = Len(u) /\ m = IF L = 0 THEN 0 ELSE L - 1
  BY <1>1 DEF UnitsOf
<1>3. PICK r : r = Front(u)
  OBVIOUS
<1>4. DOMAIN r = 1..m /\ Len(r) = m /\ \A a \in 1..m : r[a] = u[a]
  BY <1>1, <1>2, <1>3, FrontOf DEF UnitsOf
<1>5. PICK H, T : H = Heads(u) /\ T = Members(u) /\ Grouping(q, Len(q), L, H, T)
  BY <1>1, <1>2 DEF UnitsOf
<1>6. \A a \in 1..m : a \in 1..(L - 1) /\ ToSet(r[a]) = T[a]
  BY <1>2, <1>4, <1>5 DEF Members
<1>7. \A a \in 1..m : UnitCost(q, ToSet(r[a])) \in Nat
  <2>1. ASSUME NEW a \in 1..m PROVE UnitCost(q, T[a]) \in Nat
    <3>1. a \in 1..(L - 1)
      BY <1>6
    <3> QED
      BY <1>5, <3>1, UnitGoes
  <2> QED
    BY <1>6, <2>1
<1>8. PICK g : Weighs(1..Len(q), Costs(q), g)
  BY CostsAreWeights, WeightExists
<1>9. tc + CountMessages(q) \in Int
  <2>1. CountMessages(q) = g[1..Len(q)] /\ g[1..Len(q)] \in Nat
    BY <1>8, AllWeigh DEF Weighs
  <2> QED
    BY <2>1
<1>10. PICK total \in Int : total = tc + CountMessages(q)
  BY <1>9
<1>11. PICK h : DropRun(q, total, budget, r, h) /\ DropOldest(q, total, budget) = h[m]
  BY <1>1, <1>3, <1>4, <1>7, DropRuns
<1>12. CASE L = 0
  <2>1. Turns(q) = {}
    <3>1. \A t \in Turns(q) : t <= Len(q)
      <4>1. Len(q) \in Nat
        BY DEF WellFormed
      <4> QED
        BY <4>1 DEF Turns
    <3>2. \A t \in Turns(q) : t <= Len(q) => \E a \in 1..L : H[a] = t
      BY <1>5 DEF Grouping
    <3> QED
      BY <1>12, <3>1, <3>2
  <2>2. h[m] = [total |-> total, dropped |-> {}]
    BY <1>2, <1>11, <1>12 DEF DropRun
  <2> QED
    BY <1>10, <1>11, <2>1, <2>2 DEF Oldest
<1>13. CASE L # 0
  <2>1. L \in Nat \ {0} /\ m = L - 1
    BY <1>2, <1>13
  <2>2. PICK d \in 0..m : Stands(q, tc, budget, H, h[m], d, m)
    <3>1. Len(r) = L - 1 /\ \A a \in 1..(L - 1) : ToSet(r[a]) = T[a]
      BY <1>4, <1>6, <2>1
    <3>2. DropRun(q, tc + CountMessages(q), budget, r, h)
      BY <1>10, <1>11
    <3> QED
      BY <1>5, <2>1, <3>1, <3>2, DropsOldest
  <2>3. d + 1 \in 1..L
    BY <2>1
  <2>4. PICK k \in Turns(q) : k = H[d + 1]
    BY <1>5, <2>3 DEF Grouping
  <2>5. \A j \in Turns(q) : \E e \in 1..L : H[e] = j
    <3>1. \A t \in Turns(q) : t <= Len(q)
      <4>1. Len(q) \in Nat
        BY DEF WellFormed
      <4> QED
        BY <4>1 DEF Turns
    <3> QED
      BY <1>5, <3>1 DEF Grouping
  <2>6. \A e \in 1..d : ~(Costs0(q, tc, H[e]) <= budget)
    BY <2>2 DEF Stands
  <2>7. ASSUME NEW j \in Turns(q), j < k PROVE ~(Costs0(q, tc, j) <= budget)
    <3>1. PICK e \in 1..L : H[e] = j
      BY <2>5
    <3>2. e \in 1..d \/ e = d + 1 \/ d + 1 < e
      OBVIOUS
    <3>3. d + 1 < e => k < j
      BY <1>5, <2>3, <2>4, <3>1 DEF Grouping
    <3>4. j \in Nat /\ k \in Nat
      BY DEF Turns
    <3> QED
      BY <2>4, <2>7, <3>2, <3>4, <2>6, <3>1, <3>3
  <2>8. ASSUME ~(h[m].total <= budget), NEW j \in Turns(q) PROVE ~(Costs0(q, tc, j) <= budget)
    <3>1. PICK e \in 1..L : H[e] = j
      BY <2>5
    <3>2. d = m
      BY <2>2, <2>8 DEF Stands
    <3>3. e \in 1..d \/ e = d + 1
      BY <2>1, <3>2
    <3>4. ~(Costs0(q, tc, H[d + 1]) <= budget)
      BY <2>2, <2>8 DEF Stands
    <3> QED
      BY <2>6, <3>1, <3>3, <3>4
  <2>9. h[m].dropped = Before(q, k) /\ h[m].total = Costs0(q, tc, k)
    BY <2>2, <2>4 DEF Stands
  <2>10. Oldest(q, tc, budget, h[m])
    BY <2>4, <2>7, <2>8, <2>9 DEF Oldest
  <2> QED
    BY <1>10, <1>11, <2>10
<1> QED
  BY <1>12, <1>13

(* A turn, and what comes after it, has tokens.                            *)
LEMMA FromCounts ==
    ASSUME NEW q, WellFormed(q), NEW k \in Turns(q)
    PROVE  CountMessages(From(q, k)) \in Nat /\ CountMessages(From(q, k)) >= 4 /\ From(q, k) # <<>>
<1>1. PICK n \in Nat : n = Len(q) /\ Costs(q) \in [1..n -> Nat] /\ IsFiniteSet(1..n)
  BY CostsAreWeights
<1>2. PICK g : Weighs(1..n, Costs(q), g)
  BY <1>1, WeightExists
<1>3. k \in 1..n /\ k \in After(q, k) /\ After(q, k) \in SUBSET (1..n)
  BY <1>1 DEF After, Before, Turns
<1>4. PICK s \in SUBSET (1..n) : s = After(q, k)
  BY <1>3
<1>5. g[s] = Costs(q)[k] + g[s \ {k}] /\ g[s \ {k}] \in Nat /\ g[s] \in Nat
  <2>1. s \ {k} \in SUBSET (1..n) /\ k \in s
    BY <1>3, <1>4
  <2> QED
    BY <1>2, <2>1 DEF Weighs
<1>6. Costs(q)[k] \in Nat /\ Costs(q)[k] >= 4
  <2>1. q[k].size \in Nat
    BY <1>1, <1>3 DEF WellFormed
  <2> QED
    BY <1>1, <1>3, <2>1 DEF Costs, CountMessage, MessageOverhead
<1>7. CountMessages(From(q, k)) = g[s]
  BY <1>1, <1>2, <1>4, FromWeighs
<1>8. g[s] >= 4
  BY <1>5, <1>6
<1> QED
  BY <1>5, <1>7, <1>8, CountNothing

-----------------------------------------------------------------------------
(* BuildContext, the budget and the chain.                                 *)

FitsTokens(q, tc, budget) == budget = Unbounded \/ tc + CountMessages(q) <= budget

(* What is kept of all the messages, or that too much is asked for.        *)
KeptOldest(all, kept, tc, budget) ==
    \E k \in Turns(all) :
        /\ kept = From(all, k) /\ FitsTokens(From(all, k), tc, budget)
        /\ \A j \in Turns(all) : j < k => ~FitsTokens(From(all, j), tc, budget)
Kept(all, kept, tc, budget, truncate) ==
    \/ kept = all /\ FitsTokens(all, tc, budget)
    \/ ~FitsTokens(all, tc, budget) /\ truncate /\ KeptOldest(all, kept, tc, budget)
TooMuch(all, tc, budget, truncate) ==
    /\ ~FitsTokens(all, tc, budget)
    /\ truncate => \A k \in Turns(all) : ~FitsTokens(From(all, k), tc, budget)

(* execute: all of the messages if they fit, else from the first turn on   *)
(* from which they do; nothing if there is none or truncation is off.      *)
LEMMA BuildIsExact ==
    ASSUME NEW all, WellFormed(all), all # <<>>, NEW tc \in Nat, NEW budget, NEW truncate,
           NEW kept, kept = BuildContext(all, tc, budget, truncate)
    PROVE  /\ kept # <<>> => Kept(all, kept, tc, budget, truncate)
           /\ kept = <<>> => TooMuch(all, tc, budget, truncate)
<1>1. PICK total, left : total = tc + CountMessages(all) /\ left = DropOldest(all, total, budget)
  OBVIOUS
<1>2. kept = IF budget = Unbounded \/ total <= budget THEN all
             ELSE IF truncate /\ left.total <= budget THEN Without(all, left.dropped) ELSE <<>>
  BY <1>1 DEF BuildContext
<1>3. FitsTokens(all, tc, budget) <=> budget = Unbounded \/ total <= budget
  BY <1>1 DEF FitsTokens
<1>4. CASE FitsTokens(all, tc, budget)
  BY <1>2, <1>3, <1>4 DEF Kept
<1>5. CASE ~FitsTokens(all, tc, budget)
  <2>1. Oldest(all, tc, budget, left)
    BY <1>1, OldestDropped
  <2>2. \A k : FitsTokens(From(all, k), tc, budget) <=> Costs0(all, tc, k) <= budget
    BY <1>3, <1>5 DEF FitsTokens, Costs0
  <2>3. CASE Turns(all) = {}
    <3>1. ~(left.total <= budget)
      BY <1>1, <1>3, <1>5, <2>1, <2>3 DEF Oldest
    <3>2. kept = <<>>
      BY <1>2, <1>3, <1>5, <3>1
    <3> QED
      BY <1>5, <2>3, <3>2 DEF TooMuch
  <2>4. CASE Turns(all) # {}
    <3>1. PICK k \in Turns(all) :
            /\ left.dropped = Before(all, k)
            /\ left.total = Costs0(all, tc, k)
            /\ \A j \in Turns(all) : j < k => ~(Costs0(all, tc, j) <= budget)
            /\ ~(left.total <= budget) => \A j \in Turns(all) : ~(Costs0(all, tc, j) <= budget)
      BY <2>1, <2>4 DEF Oldest
    <3>2. CASE truncate /\ left.total <= budget
      <4>1. kept = From(all, k)
        BY <1>2, <1>3, <1>5, <3>1, <3>2 DEF From, Before
      <4>2. kept # <<>>
        BY <4>1, FromCounts
      <4>3. KeptOldest(all, kept, tc, budget)
        BY <2>2, <3>1, <3>2, <4>1 DEF KeptOldest
      <4> QED
        BY <1>5, <3>2, <4>2, <4>3 DEF Kept
    <3>3. CASE ~(truncate /\ left.total <= budget)
      <4>1. kept = <<>>
        BY <1>2, <1>3, <1>5, <3>3
      <4>2. truncate => \A j \in Turns(all) : ~FitsTokens(From(all, j), tc, budget)
        BY <2>2, <3>1, <3>3
      <4> QED
        BY <1>5, <4>1, <4>2 DEF TooMuch
    <3> QED
      BY <3>2, <3>3
  <2> QED
    BY <2>3, <2>4
<1> QED
  BY <1>4, <1>5

(* What is kept has tokens.                                                *)
LEMMA KeptCounts ==
    ASSUME NEW all, WellFormed(all), all # <<>>, NEW tc, NEW budget, NEW truncate, NEW kept,
           Kept(all, kept, tc, budget, truncate)
    PROVE  /\ CountMessages(kept) \in Nat /\ CountMessages(kept) >= 4
           /\ FitsTokens(kept, tc, budget)
<1>1. CASE kept = all /\ FitsTokens(all, tc, budget)
  <2>1. PICK n \in Nat : n = Len(all) /\ Costs(all) \in [1..n -> Nat] /\ IsFiniteSet(1..n) /\ n # 0
    <3>1. Len(all) # 0
      BY DEF WellFormed
    <3> QED
      BY <3>1, CostsAreWeights
  <2>2. PICK g : Weighs(1..n, Costs(all), g)
    <3>1. \A x \in 1..n : Costs(all)[x] \in Nat
      BY <2>1
    <3> QED
      BY <2>1, <3>1, WeightExists
  <2>3. g[1..n] = Costs(all)[n] + g[(1..n) \ {n}] /\ g[(1..n) \ {n}] \in Nat /\ g[1..n] \in Nat
    <3>1. 1..n \in SUBSET (1..n) /\ n \in 1..n /\ (1..n) \ {n} \in SUBSET (1..n)
      BY <2>1
    <3> QED
      BY <2>2, <3>1 DEF Weighs
  <2>4. Costs(all)[n] \in Nat /\ Costs(all)[n] >= 4
    <3>1. n \in 1..n /\ all[n].size \in Nat
      BY <2>1 DEF WellFormed
    <3> QED
      BY <2>1, <3>1 DEF Costs, CountMessage, MessageOverhead
  <2>5. CountMessages(all) = g[1..n]
    BY <2>1, <2>2, AllWeigh
  <2> QED
    BY <1>1, <2>3, <2>4, <2>5
<1>2. CASE KeptOldest(all, kept, tc, budget)
  BY <1>2, FromCounts DEF KeptOldest
<1> QED
  BY <1>1, <1>2 DEF Kept

(* The models of a chain are the one that was asked for and its fallbacks. *)
LEMMA ChainModels ==
    ASSUME NEW Models, NEW n \in Nat, NEW fallbacks \in [1..n -> Models], NEW model \in Models,
           NEW catalog, DOMAIN catalog = Models
    PROVE  \A i \in 1..Len(RouteChain(model, catalog, fallbacks)) :
               RouteChain(model, catalog, fallbacks)[i].model \in {model} \cup ToSet(fallbacks)
<1> DEFINE S == 1..n
           Named == {Route(m, catalog) : m \in {model} \cup ToSet(fallbacks)}
           first == <<Route(model, catalog)>>
           A == Seq(Named)
           G == [x \in S |-> [c \in A |-> Extend(c, fallbacks[x], catalog)]]
           Def(g) == g = [s \in SUBSET S |->
               IF s = {} THEN first
               ELSE LET x == Max(s) IN Extend(g[s \ {x}], fallbacks[x], catalog)]
           iter == CHOOSE g : Def(g)
<1>1. \A s \in SUBSET S : s # {} => Max(s) \in s
  BY Largest
<1>2. \A x \in S : \A c \in A : Extend(c, fallbacks[x], catalog) \in A
  <2>1. ASSUME NEW x \in S, NEW c \in A PROVE Extend(c, fallbacks[x], catalog) \in A
    <3>1. fallbacks[x] \in ToSet(fallbacks)
      BY DEF ToSet
    <3>2. PICK t \in Named : t = Route(fallbacks[x], catalog)
      BY <3>1
    <3> HIDE DEF Named
    <3>3. Append(c, t) \in A
      OBVIOUS
    <3> QED
      BY <3>2, <3>3 DEF Extend
  <2> QED
    BY <2>1
<1>3. first \in A
  <2>1. Route(model, catalog) \in Named
    OBVIOUS
  <2> HIDE DEF Named
  <2> QED
    BY <2>1
<1>4. PICK g : FoldsLeft(n, A, first, G, g)
  <2>1. first \in A
    BY <1>3
  <2>2. G \in [S -> [A -> A]]
    <3> HIDE DEF A, S
    <3> QED
      BY <1>2
  <2> HIDE DEF A, G, first
  <2> QED
    BY <2>1, <2>2, FoldRun
<1>5. /\ g \in [SUBSET S -> A]
      /\ g[{}] = first
      /\ \A s \in SUBSET S : s # {} => g[s] = G[Max(s)][g[s \ {Max(s)}]]
  <2> HIDE DEF G, A, first
  <2> QED
    BY <1>4 DEF FoldsLeft
<1>6. Def(g)
  <2>1. ASSUME NEW s \in SUBSET S, s # {}
        PROVE  g[s] = LET x == Max(s) IN Extend(g[s \ {x}], fallbacks[x], catalog)
    <3>1. PICK x \in S : x = Max(s)
      BY <1>1, <2>1
    <3>2. g[s \ {x}] \in A
      <4> HIDE DEF A
      <4> QED
        BY <1>5
    <3>3. g[s] = G[x][g[s \ {x}]]
      <4> HIDE DEF G, A
      <4> QED
        BY <1>5, <2>1, <3>1
    <3>4. G[x][g[s \ {x}]] = Extend(g[s \ {x}], fallbacks[x], catalog)
      <4> HIDE DEF A
      <4> QED
        BY <3>2
    <3> HIDE DEF G, A
    <3> QED
      BY <3>1, <3>3, <3>4
  <2> HIDE DEF A, G, first
  <2> QED
    BY <1>5, <2>1
<1>7. Def(iter)
  <2> HIDE DEF Def
  <2> QED
    BY <1>6
<1>8. RouteChain(model, catalog, fallbacks) = iter[S]
  <2>1. DOMAIN fallbacks = S
    OBVIOUS
  <2> QED
    BY <2>1, Zenon DEF RouteChain, FoldLeft, MapThenFoldSet
<1> HIDE DEF iter
<1>9. \A s \in SUBSET S : /\ s = {} => iter[s] = first
                          /\ s # {} => iter[s] =
                               Extend(iter[s \ {Max(s)}], fallbacks[Max(s)], catalog)
  <2> HIDE DEF first, S
  <2> QED
    BY <1>7
<1> DEFINE P == {s \in SUBSET S : iter[s] \in A}
<1>10. Grows(S, P)
  <2>1. ASSUME NEW s \in SUBSET S, \A x \in s : s \ {x} \in P
        PROVE  iter[s] \in A
    <3>1. CASE s = {}
      <4> HIDE DEF A, first
      <4> QED
        BY <1>3, <1>9, <3>1
    <3>2. CASE s # {}
      <4>1. PICK x \in S : x = Max(s) /\ x \in s
        BY <1>1, <3>2
      <4>2. iter[s \ {x}] \in A
        BY <2>1, <4>1
      <4> HIDE DEF A, first
      <4> QED
        BY <1>2, <1>9, <3>2, <4>1, <4>2
    <3> QED
      BY <3>1, <3>2
  <2> HIDE DEF A
  <2> QED
    BY <2>1 DEF Grows
<1>11. S \in P
  <2>1. IsFiniteSet(S)
    BY FS_Interval
  <2> HIDE DEF P
  <2> QED
    BY <1>10, <2>1, SubsetInduction
<1>12. PICK chain \in Seq(Named) : chain = RouteChain(model, catalog, fallbacks)
  BY <1>8, <1>11
<1>13. \A i \in 1..Len(chain) : chain[i] \in Named
  <2> HIDE DEF Named
  <2> QED
    OBVIOUS
<1> QED
  BY <1>12, <1>13 DEF Route

(* The smallest of some numbers, and of some numbers and one more.         *)
IsLeast(x, s) == x \in s /\ \A y \in s : x <= y

LEMMA LeastNumber ==
    ASSUME NEW s \in SUBSET Nat, s # {}
    PROVE  IsLeast(Min(s), s)
<1>1. PICK x \in s : \A y \in s : ~(<<y, x>> \in OpToRel(<, Nat))
  BY NatLessThanWellFounded, WFMin, Zenon
<1>2. \A y \in s : x =< y
  <2>1. ASSUME NEW y \in s PROVE x =< y
    <3>1. x \in Nat /\ y \in Nat
      OBVIOUS
    <3>2. ~(y < x)
      BY <1>1, <3>1 DEF OpToRel
    <3> QED
      BY <3>1, <3>2
  <2> QED
    BY <2>1
<1> QED
  BY <1>2 DEF Min, IsLeast

LEMMA LeastLimit ==
    ASSUME NEW c \in SUBSET Nat, NEW z \in Int
    PROVE  IsLeast(Min(c \cup {z}), c \cup {z})
<1>1. \E x \in c \cup {z} : \A y \in c \cup {z} : x =< y
  <2>1. CASE c = {}
    BY <2>1
  <2>2. CASE c # {}
    <3>1. PICK x \in c : \A y \in c : x <= y
      BY <2>2, LeastNumber DEF IsLeast
    <3>2. CASE x <= z
      BY <3>1, <3>2
    <3>3. CASE z <= x
      <4>1. \A y \in c : z <= y
        BY <3>1, <3>3
      <4> QED
        BY <4>1
    <3> QED
      BY <3>2, <3>3
  <2> QED
    BY <2>1, <2>2
<1> QED
  BY <1>1 DEF Min, IsLeast

LEMMA LargerOfTwo ==
    ASSUME NEW a \in Int
    PROVE  Max({a, 0}) \in Nat /\ (Max({a, 0}) # 0 => Max({a, 0}) = a)
<1>1. \E x \in {a, 0} : \A y \in {a, 0} : x >= y
  OBVIOUS
<1>2. Max({a, 0}) \in {a, 0} /\ \A y \in {a, 0} : Max({a, 0}) >= y
  BY <1>1 DEF Max
<1> QED
  BY <1>2

(* _budget: it leaves room for the output in the window of each model that *)
(* may be tried, unless there is none.                                     *)
LEMMA BudgetBounds ==
    ASSUME NEW model, NEW fallbacks, NEW windows, \A m \in DOMAIN windows : windows[m] \in Nat,
           NEW maxOutput \in Nat, NEW caps \in SUBSET Nat,
           NEW m \in DOMAIN windows, m \in {model} \cup ToSet(fallbacks)
    PROVE  LET budget == Budget(model, fallbacks, windows, maxOutput, caps)
           IN  budget \in Nat /\ (budget # 0 => budget <= windows[m] - maxOutput)
<1> DEFINE measured == ({model} \cup ToSet(fallbacks)) \cap DOMAIN windows
           sizes == {windows[k] : k \in measured}
<1>1. m \in measured
  OBVIOUS
<1>2. PICK least \in Nat : least = Min(sizes) /\ least <= windows[m]
  <2>1. sizes \in SUBSET Nat /\ windows[m] \in sizes
    OBVIOUS
  <2> HIDE DEF sizes
  <2>2. IsLeast(Min(sizes), sizes)
    BY <2>1, LeastNumber
  <2> QED
    BY <2>1, <2>2 DEF IsLeast
<1>3. PICK z \in Int : z = least - maxOutput
  OBVIOUS
<1>4. PICK limits : limits = caps \cup {z}
  OBVIOUS
<1>5. Budget(model, fallbacks, windows, maxOutput, caps) = Max({Min(limits), 0})
  <2>1. measured # {} /\ limits # {}
    BY <1>1, <1>4
  <2>2. limits = caps \cup {Min(sizes) - maxOutput}
    BY <1>2, <1>3, <1>4
  <2> QED
    BY <2>1, <2>2, Zenon DEF Budget
<1>6. PICK a \in Int : a = Min(limits) /\ a <= z
  <2>1. IsLeast(Min(limits), limits)
    BY <1>4, LeastLimit
  <2>2. \A y \in limits : y \in Int
    BY <1>4
  <2>3. Min(limits) \in limits /\ Min(limits) <= z
    BY <1>4, <2>1 DEF IsLeast
  <2> QED
    BY <2>2, <2>3
<1>7. PICK b \in Nat : b = Max({a, 0}) /\ (b # 0 => b = a)
  BY LargerOfTwo
<1>8. windows[m] \in Nat
  OBVIOUS
<1>9. b # 0 => b <= windows[m] - maxOutput
  BY <1>2, <1>3, <1>6, <1>7, <1>8
<1>10. Budget(model, fallbacks, windows, maxOutput, caps) = b
  BY <1>5, <1>6, <1>7, Zenon
<1> QED
  BY <1>9, <1>10

-----------------------------------------------------------------------------
(* What BuildContext is given: the messages have sizes, and once the       *)
(* prompt is resolved there is at least one.                               *)
Sized(message) == message.size \in Nat /\ (message.calls => message.role = "assistant")
Filled(c) ==
    call[c].kind = "response"
      /\ (call[c].prompt = NoPrompt \/ at[c] \in {"embed", "search", "find", "list", "assemble"})
    => messages[c] # <<>>
SizeInv ==
    \A c \in Calls : /\ \A message \in Range(messages[c]) : Sized(message)
                     /\ at[c] = "resolve" => call[c].prompt # NoPrompt
                     /\ Filled(c)

(* ResolvePrompt: a rendered message has the size of its text and of the   *)
(* values in it.                                                           *)
LEMMA RenderedHaveSizes ==
    ASSUME IInv, NEW c \in Calls, call[c].kind = "response", call[c].prompt # NoPrompt,
           NEW row \in Selected(c), Renders(c, row)
    PROVE  \A message \in Range(Render(call[row.by].template, call[c].prompt.values, row.by)) :
               Sized(message)
<1> DEFINE template == call[row.by].template
           values == call[c].prompt.values
<1>1. row \in prompts
  BY DEF Selected, VersionsOf
<1>2. row.by \in Calls /\ call[row.by].kind = "prompt" /\ call \in Workloads
  BY <1>1 DEF IInv, RowInv, InputInv
<1>3. /\ template \in Seq([role : Roles, literal : Nat, vars : SUBSET STRING])
      /\ \A n \in 1..Len(template) : IsFiniteSet(template[n].vars)
  BY <1>2, PreparationAssumption DEF Calls
<1>4. \A v \in DOMAIN values : values[v] \in Nat
  BY <1>2, PreparationAssumption DEF Calls
<1>5. DOMAIN values = Placeholders(template)
  BY DEF Renders
<1>6. ASSUME NEW n \in 1..Len(template)
      PROVE  RenderedSize(template[n], values) \in Nat
  <2>1. PICK part \in [role : Roles, literal : Nat, vars : SUBSET STRING] : part = template[n]
    BY <1>3, ElementOfSequence
  <2>2. IsFiniteSet(part.vars)
    BY <1>3, <2>1
  <2>3. part.vars \subseteq DOMAIN values
    BY <1>5, <2>1 DEF Placeholders
  <2>4. \A v \in part.vars : values[v] \in Nat
    BY <1>4, <2>3
  <2>5. PICK vars0 : vars0 = part.vars
    OBVIOUS
  <2>6. PICK given : given = values
    OBVIOUS
  <2>7. IsFiniteSet(vars0) /\ \A v \in vars0 : given[v] \in Nat
    BY <2>2, <2>4, <2>5, <2>6
  <2>8. PICK g : Weighs(vars0, given, g)
    BY <2>7, WeightExists
  <2>9. Sum(given, vars0) = g[vars0] /\ g[vars0] \in Nat
    <3>1. vars0 \in SUBSET vars0
      OBVIOUS
    <3>2. Sum(given, vars0) = g[vars0]
      BY <2>7, <2>8, <3>1, SumIsWeight
    <3> QED
      BY <2>8, <3>1, <3>2 DEF Weighs
  <2>10. part.literal \in Nat
    OBVIOUS
  <2>11. RenderedSize(part, given) = part.literal + Sum(given, vars0)
    BY <2>5 DEF RenderedSize, Sum
  <2>12. RenderedSize(part, given) \in Nat
    BY <2>9, <2>10, <2>11
  <2> QED
    BY <2>1, <2>6, <2>12
<1>7. \A n \in 1..Len(template) : Sized(Render(template, values, row.by)[n])
  BY <1>6 DEF Render, Sized
<1>8. DOMAIN Render(template, values, row.by) = 1..Len(template)
  BY DEF Render
<1> QED
  BY <1>7, <1>8 DEF Range

LEMMA RetrievedHasSize ==
    ASSUME IInv, NEW c \in Calls, call[c].kind = "response",
           NEW hits \in Nearest(call[c].org, call[c].rag.topK)
    PROVE  Sized(ContextMessage(hits))
<1> DEFINE own == {row \in chunks : row.org = call[c].org}
<1>1. call[c].rag.topK \in Nat
  BY PreparationAssumption DEF IInv, InputInv, Calls
<1>2. Cardinality(own) \in Nat
  BY FS_Subset, FS_CardinalityType DEF IInv, RowInv
<1>3. PICK a \in Nat, b \in Nat : a = call[c].rag.topK /\ b = Cardinality(own)
  BY <1>1, <1>2
<1>4. PICK limit \in Nat : limit = Min({a, b})
  BY SmallerOfTwo
<1>5. hits \in [1..limit -> own]
  BY <1>3, <1>4 DEF Nearest
<1>6. Len(hits) \in Nat
  <2> HIDE DEF own
  <2> QED
    BY <1>5, SequenceOf
<1> QED
  BY <1>6 DEF ContextMessage, Sized

(* What a step does to the messages of its own call, and where it leads.   *)
LEMMA OwnMessages ==
    ASSUME IInv, NEW c \in Calls, Step(c)
    PROVE  \/ messages' = messages
           \/ Resolve(c)
           \/ Search(c)
<1> USE DEF IInv, InputInv, Calls
<1>1. CASE Refusal(c)
  BY <1>1, RefusalsRefuse DEF Refuse, Finish, inputs, work
<1>2. CASE Pause(c)
  BY <1>2 DEF Pause, Embed, FindServer, SlugFree, Go, inputs, work
<1>3. CASE Insertion(c)
  BY <1>3 DEF Insertion, InsertVersion, Register, StoreChunk, CreateOrganization, Commit,
              Finish, inputs, work
<1>4. CASE Arrive(c) \/ ReadLatest(c) \/ ListTools(c) \/ Assemble(c)
  BY <1>4 DEF Arrive, ReadLatest, ListTools, Assemble, Go, inputs, work
<1> QED
  BY <1>1, <1>3, <1>2, <1>4, StepsByEffect

(* A request that has a prompt gets past "resolve" only by resolving it.   *)
LEMMA OwnPlace ==
    ASSUME IInv, NEW c \in Calls, Step(c), call[c].kind = "response"
    PROVE  /\ at'[c] = "resolve" => call[c].prompt # NoPrompt
           /\ at'[c] \in {"embed", "search", "find", "list", "assemble"} =>
                \/ call[c].prompt = NoPrompt
                \/ Resolve(c)
                \/ at[c] \in {"embed", "search", "find", "list", "assemble"}
<1> USE DEF IInv, TypeOK
<1>1. CASE Arrive(c)
  <2>1. at'[c] = FirstStep(c)
    BY <1>1 DEF Arrive
  <2> QED
    BY <2>1 DEF FirstStep, AfterPrompt, AfterRetrieval
<1>2. CASE Refusal(c)
  <2>1. at'[c] = "done"
    BY <1>2, RefusalsRefuse DEF Refuse, Finish
  <2> QED
    BY <2>1
<1>3. CASE Pause(c)
  BY <1>3 DEF Pause, Embed, MayEmbed, FindServer, SlugFree, Go
<1>4. CASE Insertion(c)
  BY <1>4 DEF Insertion, InsertVersion, Register, StoreChunk, CreateOrganization, Commit, Finish
<1>5. CASE ReadLatest(c) \/ ListTools(c) \/ Assemble(c)
  BY <1>5 DEF ReadLatest, ListTools, Assemble, Go
<1>6. CASE Resolve(c)
  <2>1. at'[c] = AfterPrompt(c)
    BY <1>6 DEF Resolve, Go
  <2> QED
    BY <1>6, <2>1 DEF AfterPrompt, AfterRetrieval
<1>7. CASE Search(c)
  <2>1. at[c] = "search" /\ at'[c] = AfterRetrieval(c)
    BY <1>7 DEF Search, Go
  <2> QED
    BY <2>1 DEF AfterRetrieval
<1> QED
  BY <1>1, <1>3, <1>5, <1>7, <1>2, <1>4, <1>6, StepsByEffect

LEMMA SizeStep ==
    ASSUME IInv, SizeInv, NEW c \in Calls, Step(c)
    PROVE  SizeInv'
<1> USE DEF IInv, InputInv
<1>1. call' = call /\ Calls' = Calls
  BY RowsStay DEF Calls
<1> DEFINE Holds(d) ==
      /\ \A message \in Range(messages'[d]) : Sized(message)
      /\ at'[d] = "resolve" => call[d].prompt # NoPrompt
      /\ call[d].kind = "response"
           /\ \/ call[d].prompt = NoPrompt
              \/ at'[d] \in {"embed", "search", "find", "list", "assemble"}
         => messages'[d] # <<>>
<1>2. ASSUME NEW d \in Calls, d # c PROVE Holds(d)
  <2>1. at'[d] = at[d] /\ messages'[d] = messages[d]
    BY <1>2, OthersStay
  <2> QED
    BY <2>1 DEF SizeInv, Filled
<1>3. Holds(c)
  <2>1. at'[c] = "resolve" => call[c].prompt # NoPrompt
    <3>1. at'[c] = "resolve" => call[c].kind = "response"
      BY <1>1, PlaceStep DEF PlaceInv
    <3> QED
      BY <3>1, OwnPlace
  <2>2. CASE messages' = messages /\ ~Resolve(c)
    <3>1. call[c].kind = "response"
            /\ at'[c] \in {"embed", "search", "find", "list", "assemble"} =>
              call[c].prompt = NoPrompt \/ at[c] \in {"embed", "search", "find", "list", "assemble"}
      BY <2>2, OwnPlace
    <3> QED
      BY <2>1, <2>2, <3>1 DEF SizeInv, Filled
  <2>3. CASE Resolve(c)
    <3>1. PICK row \in Selected(c) :
            /\ Renders(c, row)
            /\ messages' = [messages EXCEPT ![c] =
                  Render(call[row.by].template, call[c].prompt.values, row.by)]
      BY <2>3 DEF Resolve
    <3>2. call[c].kind = "response" /\ call[c].prompt # NoPrompt
      BY <2>3 DEF Resolve, PlaceInv, SizeInv
    <3>3. messages'[c] # <<>>
      BY <3>1, LastRendered
    <3>4. \A message \in Range(messages'[c]) : Sized(message)
      BY <3>1, <3>2, RenderedHaveSizes
    <3> QED
      BY <2>1, <3>3, <3>4
  <2>4. CASE Search(c)
    <3>1. PICK hits \in Nearest(call[c].org, call[c].rag.topK) :
            messages' = [messages EXCEPT ![c] =
                            IF hits = <<>> THEN @ ELSE <<ContextMessage(hits)>> \o @]
      BY <2>4 DEF Search
    <3>2. call[c].kind = "response" /\ at[c] = "search"
      BY <2>4 DEF Search, PlaceInv
    <3>3. messages[c] # <<>> /\ \A message \in Range(messages[c]) : Sized(message)
      BY <3>2 DEF SizeInv, Filled
    <3>4. messages[c] \in Seq(Range(messages[c]))
      BY DEF SourceInv
    <3>5. CASE hits = <<>>
      <4>1. messages'[c] = messages[c]
        BY <3>1, <3>5
      <4> QED
        BY <2>1, <3>3, <4>1
    <3>6. CASE hits # <<>>
      <4>1. messages'[c] = <<ContextMessage(hits)>> \o messages[c]
        BY <3>1, <3>6
      <4>2. messages'[c] # <<>>
        BY <3>4, <4>1, Prepended
      <4>3. Range(messages'[c]) = {ContextMessage(hits)} \cup Range(messages[c])
        BY <3>4, <4>1, RangeOfConcatenation
      <4>4. Sized(ContextMessage(hits))
        BY <3>2, RetrievedHasSize
      <4> QED
        BY <2>1, <3>3, <4>2, <4>3, <4>4
    <3> QED
      BY <3>5, <3>6
  <2> QED
    BY <2>2, <2>3, <2>4, OwnMessages
<1> HIDE DEF Holds
<1>4. \A d \in Calls : Holds(d)
  BY <1>2, <1>3
<1> QED
  BY <1>1, <1>4 DEF SizeInv, Filled, Holds

-----------------------------------------------------------------------------
(* How a request was fitted, or why it was not.                            *)
BudgetOf(c) ==
    Budget(call[c].model, Candidates(c), Windows, call[c].maxOutput, call[c].context.caps)
ToolsCost(c) == ToolTokens * Len(tools[c])
ExactInv ==
    \A c \in Calls : call[c].kind = "response" /\ NeedsContextCheck(c) =>
        /\ answer[c] = "Prepared" =>
            /\ messages[c] # <<>>
            /\ Kept(messages[c], prepared[c], ToolsCost(c), BudgetOf(c), call[c].context.truncate)
        /\ answer[c] = "ContextLimitExceededError" =>
            TooMuch(messages[c], ToolsCost(c), BudgetOf(c), call[c].context.truncate)

LEMMA MessagesAreWellFormed ==
    ASSUME IInv, SizeInv, NEW c \in Calls
    PROVE  WellFormed(messages[c])
<1>1. /\ messages[c] \in Seq(Range(messages[c]))
      /\ \A message \in Range(messages[c]) : message.role \in Roles /\ Sized(message)
  BY DEF IInv, SourceInv, SizeInv
<1>2. \A k \in 1..Len(messages[c]) : messages[c][k] \in Range(messages[c])
  BY <1>1, ElementOfSequence
<1> QED
  BY <1>1, <1>2 DEF WellFormed, Roles, Sized

LEMMA ToolsCostSomething ==
    ASSUME IInv, NEW c \in Calls
    PROVE  ToolsCost(c) \in Nat
<1>1. Len(tools[c]) \in Nat
  BY DEF IInv, SourceInv
<1>2. ToolTokens \in Nat
  BY PreparationAssumption
<1>3. \A m, n \in Nat : m * n \in Nat
  OBVIOUS
<1> QED
  BY <1>1, <1>2, <1>3 DEF ToolsCost

(* build: what is checked at "assemble" is fitted exactly.                 *)
LEMMA FittedExactly ==
    ASSUME IInv, SizeInv, NEW c \in Calls, at[c] = "assemble", NeedsContextCheck(c)
    PROVE  /\ messages[c] # <<>>
           /\ Fitted(c) # <<>> =>
                Kept(messages[c], Fitted(c), ToolsCost(c), BudgetOf(c), call[c].context.truncate)
           /\ Fitted(c) = <<>> =>
                TooMuch(messages[c], ToolsCost(c), BudgetOf(c), call[c].context.truncate)
<1>1. call[c].kind = "response"
  BY DEF IInv, PlaceInv
<1>2. messages[c] # <<>>
  BY <1>1 DEF SizeInv, Filled
<1>3. WellFormed(messages[c])
  BY MessagesAreWellFormed
<1>4. ToolsCost(c) \in Nat
  BY ToolsCostSomething
<1>5. PICK all, budget, truncate :
        all = messages[c] /\ budget = BudgetOf(c) /\ truncate = call[c].context.truncate
  OBVIOUS
<1>6. PICK tc \in Nat : tc = ToolsCost(c)
  BY <1>4
<1>7. Fitted(c) = BuildContext(all, tc, budget, truncate)
  BY <1>5, <1>6 DEF Fitted, ToolsCost, BudgetOf
<1>8. /\ Fitted(c) # <<>> => Kept(all, Fitted(c), tc, budget, truncate)
      /\ Fitted(c) = <<>> => TooMuch(all, tc, budget, truncate)
  <2>1. WellFormed(all) /\ all # <<>>
    BY <1>2, <1>3, <1>5
  <2> QED
    BY <1>7, <2>1, BuildIsExact
<1> QED
  BY <1>2, <1>5, <1>6, <1>8

(* Only the context check refuses a request as too long.                   *)
LEMMA OverflowRefused ==
    ASSUME NEW c \in Calls, Refusal(c)
    PROVE  \E a : /\ a \notin {Pending, "Prepared"} /\ Refuse(c, a)
                  /\ a = "ContextLimitExceededError" => at[c] = "assemble" /\ Fitted(c) = <<>>
<1> USE DEF Pending
<1>1. CASE StatementFails(c) \/ VersionConflict(c) \/ NameConflict(c) \/ SlugConflict(c)
           \/ PromptMissing(c) \/ PromptMismatch(c)
  BY <1>1 DEF StatementFails, VersionConflict, NameConflict, SlugConflict, PromptMissing,
              PromptMismatch
<1>2. CASE EmbedRefused(c) \/ EmbedFails(c) \/ ServerMissing(c)
  BY <1>2 DEF EmbedRefused, EmbedFails, MayEmbed, ServerMissing
<1>3. CASE ListFails(c) \/ ToolsCollide(c) \/ Overflows(c) \/ StreamRefused(c)
  BY <1>3 DEF ListFails, ToolsCollide, Overflows, StreamRefused
<1> QED
  BY <1>1, <1>3, <1>2 DEF Refusal

LEMMA InputsStay ==
    ASSUME IInv, NEW c \in Calls, Step(c)
    PROVE  call' = call /\ failover' = failover
<1>1. CASE Refusal(c)
  BY <1>1, RefusalsRefuse DEF Refuse, Finish, inputs
<1>2. CASE Pause(c)
  BY <1>2 DEF Pause, Embed, FindServer, SlugFree, Go, inputs
<1>3. CASE Insertion(c)
  BY <1>3 DEF Insertion, InsertVersion, Register, StoreChunk, CreateOrganization, Commit,
              Finish, inputs
<1>4. CASE Arrive(c) \/ ReadLatest(c) \/ Resolve(c) \/ Search(c) \/ ListTools(c) \/ Assemble(c)
  BY <1>4 DEF Arrive, ReadLatest, Resolve, Search, ListTools, Assemble, Go, inputs
<1> QED
  BY <1>1, <1>3, <1>2, <1>4, StepsByEffect

(* A request that is being answered was not refused before.                *)
LEMMA ExactStep ==
    ASSUME IInv, SizeInv, ExactInv, NEW c \in Calls, Step(c)
    PROVE  ExactInv'
<1> USE DEF IInv, InputInv
<1>1. call' = call /\ Calls' = Calls /\ failover' = failover
  BY InputsStay DEF Calls
<1>2. ASSUME NEW d
      PROVE  /\ NeedsContextCheck(d)' <=> NeedsContextCheck(d)
             /\ BudgetOf(d)' = BudgetOf(d)
             /\ tools'[d] = tools[d] => ToolsCost(d)' = ToolsCost(d)
  BY <1>1 DEF NeedsContextCheck, BudgetOf, Candidates, ToolsCost
<1> DEFINE Holds(d) ==
      call[d].kind = "response" /\ NeedsContextCheck(d) =>
        /\ answer'[d] = "Prepared" =>
            /\ messages'[d] # <<>>
            /\ Kept(messages'[d], prepared'[d], ToolsCost(d)', BudgetOf(d),
                    call[d].context.truncate)
        /\ answer'[d] = "ContextLimitExceededError" =>
            TooMuch(messages'[d], ToolsCost(d)', BudgetOf(d), call[d].context.truncate)
<1>3. ASSUME NEW d \in Calls, d # c PROVE Holds(d)
  <2>1. /\ answer'[d] = answer[d] /\ messages'[d] = messages[d] /\ prepared'[d] = prepared[d]
        /\ ToolsCost(d)' = ToolsCost(d)
    BY <1>2, <1>3, OthersStay
  <2> QED
    BY <2>1 DEF ExactInv
<1>4. Holds(c)
  <2>1. SUFFICES ASSUME call[c].kind = "response", NeedsContextCheck(c) PROVE Holds(c)
    OBVIOUS
  <2>2. at[c] # "done" => answer[c] = Pending
    BY DEF TypeOK
  <2>3. CASE Refusal(c)
    <3>1. PICK a : /\ a \notin {Pending, "Prepared"} /\ Refuse(c, a)
                   /\ a = "ContextLimitExceededError" => at[c] = "assemble" /\ Fitted(c) = <<>>
      BY <2>3, OverflowRefused
    <3>2. answer'[c] = a /\ messages' = messages /\ tools' = tools
      BY <3>1 DEF Refuse, Finish, work, TypeOK
    <3>3. ToolsCost(c)' = ToolsCost(c)
      BY <1>2, <3>2
    <3>4. a = "ContextLimitExceededError" =>
            TooMuch(messages[c], ToolsCost(c), BudgetOf(c), call[c].context.truncate)
      BY <2>1, <3>1, FittedExactly
    <3> QED
      BY <3>1, <3>3, <3>2, <3>4
  <2>4. CASE Assemble(c)
    <3>1. /\ answer'[c] = "Prepared" /\ messages' = messages /\ tools' = tools
          /\ prepared'[c] = Fitted(c) /\ at[c] = "assemble" /\ Fitted(c) # <<>>
      BY <2>4 DEF Assemble, work
    <3>2. ToolsCost(c)' = ToolsCost(c)
      BY <1>2, <3>1
    <3>3. /\ messages[c] # <<>>
          /\ Kept(messages[c], Fitted(c), ToolsCost(c), BudgetOf(c), call[c].context.truncate)
      BY <2>1, <3>1, FittedExactly
    <3> QED
      BY <3>1, <3>2, <3>3
  <2>5. CASE Insertion(c)
    BY <2>1, <2>5 DEF Insertion, InsertVersion, Register, StoreChunk, CreateOrganization, PlaceInv
  <2>6. CASE Arrive(c) \/ Pause(c) \/ ReadLatest(c) \/ Resolve(c) \/ Search(c) \/ ListTools(c)
    <3>1. answer' = answer /\ at[c] # "done"
      BY <2>6 DEF Arrive, Pause, Embed, MayEmbed, FindServer, SlugFree, ReadLatest, Resolve,
                  Search, ListTools, Go
    <3> QED
      BY <2>2, <3>1 DEF Pending
  <2> QED
    BY <2>3, <2>5, <2>4, <2>6, StepsByEffect
<1> HIDE DEF Holds
<1>5. \A d \in Calls : Holds(d)
  BY <1>3, <1>4
<1>6. \A d : (NeedsContextCheck(d)' <=> NeedsContextCheck(d)) /\ BudgetOf(d)' = BudgetOf(d)
  BY <1>2
<1> QED
  BY <1>1, <1>5, <1>6 DEF ExactInv, Holds

(* A request arrives with messages, or with the name of a prompt.          *)
LEMMA SizesAtFirst ==
    ASSUME Init
    PROVE  SizeInv /\ ExactInv
<1>1. ASSUME NEW c \in Calls
      PROVE  /\ \A message \in Range(messages[c]) : Sized(message)
             /\ at[c] = "arrive" /\ answer[c] = Pending
             /\ Filled(c)
  <2>1. at[c] = "arrive" /\ answer[c] = Pending /\ call \in Workloads
    BY DEF Init
  <2>2. CASE call[c].kind = "response"
    <3>1. messages[c] = call[c].messages
      BY <2>2 DEF Init
    <3>2. /\ messages[c] \in Seq([role : Roles, size : Nat, calls : BOOLEAN, from : {<<>>}])
          /\ \A n \in 1..Len(messages[c]) :
               messages[c][n].calls => messages[c][n].role = "assistant"
          /\ call[c].prompt = NoPrompt => messages[c] # <<>>
      BY <2>1, <2>2, <3>1, PreparationAssumption DEF Calls
    <3>3. \A n \in 1..Len(messages[c]) : Sized(messages[c][n])
      <4>1. ASSUME NEW n \in 1..Len(messages[c]) PROVE Sized(messages[c][n])
        <5>1. messages[c][n] \in [role : Roles, size : Nat, calls : BOOLEAN, from : {<<>>}]
          BY <3>2, ElementOfSequence
        <5> QED
          BY <3>2, <5>1 DEF Sized
      <4> QED
        BY <4>1
    <3>4. \A message \in Range(messages[c]) : Sized(message)
      BY <3>2, <3>3 DEF Range
    <3> QED
      BY <2>1, <3>2, <3>4 DEF Filled
  <2>3. CASE call[c].kind # "response"
    <3>1. messages[c] = <<>>
      BY <2>3 DEF Init
    <3>2. Range(messages[c]) = {}
      BY <3>1 DEF Range
    <3> QED
      BY <2>1, <2>3, <3>2 DEF Filled
  <2> QED
    BY <2>2, <2>3
<1> QED
  BY <1>1 DEF SizeInv, ExactInv, Pending

LEMMA StutterKeepsSizes ==
    ASSUME SizeInv, ExactInv, UNCHANGED vars
    PROVE  SizeInv' /\ ExactInv'
<1> USE DEF vars, inputs, tables, work
<1>1. UNCHANGED <<call, failover, messages, tools, at, answer, prepared>> /\ Calls' = Calls
  BY DEF Calls
<1>2. \A c : /\ Filled(c)' <=> Filled(c)
             /\ NeedsContextCheck(c)' <=> NeedsContextCheck(c)
             /\ BudgetOf(c)' = BudgetOf(c)
             /\ ToolsCost(c)' = ToolsCost(c)
  BY <1>1 DEF Filled, NeedsContextCheck, BudgetOf, Candidates, ToolsCost
<1> QED
  BY <1>1, <1>2 DEF SizeInv, ExactInv

(* post_responses and BuildContext: whatever is fitted has messages with   *)
(* sizes, and what was answered agrees with what was fitted.               *)
THEOREM FittingInvariance == Spec => [](SizeInv /\ ExactInv)
<1>1. Init => SizeInv /\ ExactInv
  BY SizesAtFirst
<1>2. IInv /\ SizeInv /\ ExactInv /\ [Next]_vars => (SizeInv /\ ExactInv)'
  BY SizeStep, ExactStep, StutterKeepsSizes DEF Next, Idle
<1> QED
  BY <1>1, <1>2, PreparationInvariance, PTL DEF Spec

(* BuildContext: a request is prepared with all of its messages if they    *)
(* fit, or with whole turns, the newest that fit; it is refused only if    *)
(* the system messages and the last turn do not fit.                       *)
THEOREM TruncationAlwaysExact == Spec => []TruncationIsExact
<1>1. ExactInv => TruncationIsExact
  BY DEF ExactInv, TruncationIsExact, Kept, KeptOldest, TooMuch, FitsTokens, BudgetOf, ToolsCost
<1> QED
  BY <1>1, FittingInvariance, PTL

(* What fits a budget fits each window that the budget leaves room in.     *)
LEMMA FitsWindow ==
    ASSUME NEW kept, NEW tc \in Nat, NEW budget \in Nat, NEW output \in Nat, NEW window \in Nat,
           CountMessages(kept) \in Nat, CountMessages(kept) >= 4, FitsTokens(kept, tc, budget),
           budget # 0 => budget <= window - output
    PROVE  CountMessages(kept) + tc + output <= window
<1>1. tc + CountMessages(kept) <= budget
  <2>1. budget # Unbounded
    BY UnboundedAssumption
  <2> QED
    BY <2>1 DEF FitsTokens
<1>2. PICK n \in Nat : n = CountMessages(kept)
  OBVIOUS
<1>3. n >= 4 /\ tc + n <= budget
  BY <1>1, <1>2
<1>4. n + tc + output <= window
  BY <1>3
<1> QED
  BY <1>2, <1>4

(* Only a response is answered with a command that was prepared.           *)
PreparedInv == \A c \in Calls : answer[c] = "Prepared" => call[c].kind = "response"

LEMMA PreparedStep ==
    ASSUME IInv, PreparedInv, NEW c \in Calls, Step(c)
    PROVE  PreparedInv'
<1>1. call' = call /\ Calls' = Calls
  BY RowsStay DEF Calls
<1>2. \A d \in Calls : answer'[d] = "Prepared" /\ answer[d] # "Prepared" =>
        d = c /\ Assemble(c)
  BY OnlyTheseChange
<1>3. Assemble(c) => call[c].kind = "response"
  BY DEF Assemble, IInv, PlaceInv
<1> QED
  BY <1>1, <1>2, <1>3 DEF PreparedInv

(* RouteResolver: the candidates are models of the catalog.                *)
LEMMA ModelsOfCandidates ==
    ASSUME IInv, NEW c \in Calls, call[c].kind = "response"
    PROVE  /\ call[c].model \in DOMAIN Catalog
           /\ Candidates(c) \in Seq(DOMAIN Catalog)
<1>1. call[c].model \in DOMAIN Catalog
  BY PreparationAssumption DEF IInv, InputInv, Calls
<1>2. Fallbacks[call[c].model] \in Seq(DOMAIN Catalog)
  BY <1>1, PreparationAssumption
<1>3. <<>> \in Seq(DOMAIN Catalog)
  OBVIOUS
<1> QED
  BY <1>1, <1>2, <1>3 DEF Candidates

(* _budget and the route chain agree: the executor tries no model whose    *)
(* window was left out of the budget.                                      *)
LEMMA ExactFits ==
    ASSUME IInv, SizeInv, ExactInv, PreparedInv
    PROVE  FitsEveryRoute
<1> SUFFICES ASSUME NEW c \in Calls, answer[c] = "Prepared", NeedsContextCheck(c),
                    NEW n \in 1..Len(RouteChain(call[c].model, Catalog, Candidates(c))),
                    RouteChain(call[c].model, Catalog, Candidates(c))[n].model \in DOMAIN Windows
             PROVE  CountMessages(prepared[c]) + ToolTokens * Len(tools[c]) + call[c].maxOutput
                      <= Windows[RouteChain(call[c].model, Catalog, Candidates(c))[n].model]
  BY Zenon DEF FitsEveryRoute
<1>1. call[c].kind = "response"
  BY DEF PreparedInv
<1>2. PICK Models, model, fallbacks :
        Models = DOMAIN Catalog /\ model = call[c].model /\ fallbacks = Candidates(c)
  OBVIOUS
<1>3. model \in Models /\ fallbacks \in Seq(Models)
  BY <1>1, <1>2, ModelsOfCandidates
<1>4. PICK m : m = RouteChain(model, Catalog, fallbacks)[n].model
  OBVIOUS
<1>5. m \in DOMAIN Windows /\ n \in 1..Len(RouteChain(model, Catalog, fallbacks))
  BY <1>2, <1>4
<1>6. m \in {model} \cup ToSet(fallbacks)
  <2>1. PICK k \in Nat : k = Len(fallbacks)
    BY <1>3
  <2>2. fallbacks \in [1..k -> Models]
    BY <1>3, <2>1
  <2>3. \A i \in 1..Len(RouteChain(model, Catalog, fallbacks)) :
          RouteChain(model, Catalog, fallbacks)[i].model \in {model} \cup ToSet(fallbacks)
    BY <1>2, <1>3, <2>2, ChainModels
  <2> QED
    BY <1>4, <1>5, <2>3
<1>7. PICK output \in Nat : output = call[c].maxOutput
  BY <1>1, PreparationAssumption DEF IInv, InputInv, Calls
<1>8. PICK caps \in SUBSET Nat : caps = call[c].context.caps
  BY <1>1, PreparationAssumption DEF IInv, InputInv, Calls
<1>9. \A w \in DOMAIN Windows : Windows[w] \in Nat
  BY PreparationAssumption
<1>10. PICK budget : budget = Budget(model, fallbacks, Windows, output, caps)
  OBVIOUS
<1>11. budget \in Nat /\ (budget # 0 => budget <= Windows[m] - output)
  BY <1>5, <1>6, <1>9, <1>10, BudgetBounds
<1>12. BudgetOf(c) = budget
  BY <1>2, <1>7, <1>8, <1>10 DEF BudgetOf
<1>13. PICK tc \in Nat : tc = ToolsCost(c)
  BY ToolsCostSomething
<1>14. PICK all, kept, truncate :
         all = messages[c] /\ kept = prepared[c] /\ truncate = call[c].context.truncate
  OBVIOUS
<1>15. WellFormed(all) /\ all # <<>> /\ Kept(all, kept, tc, budget, truncate)
  <2>1. WellFormed(messages[c])
    BY MessagesAreWellFormed
  <2> QED
    BY <1>1, <1>12, <1>13, <1>14, <2>1 DEF ExactInv
<1>16. /\ CountMessages(kept) \in Nat /\ CountMessages(kept) >= 4
       /\ FitsTokens(kept, tc, budget)
  BY <1>15, KeptCounts
<1>17. Windows[m] \in Nat
  BY <1>5, <1>9
<1>18. CountMessages(kept) + tc + output <= Windows[m]
  BY <1>11, <1>16, <1>17, FitsWindow
<1> QED
  BY <1>2, <1>4, <1>7, <1>13, <1>14, <1>18 DEF ToolsCost

(* BuildContext and RouteResolver: a request that is prepared fits, with   *)
(* its tools and its output, the window of every model the executor may    *)
(* try, whatever the windows, the catalog and the fallbacks are.           *)
THEOREM PreparedAlwaysFits == Spec => []FitsEveryRoute
<1>1. Init => PreparedInv
  BY DEF Init, PreparedInv, Pending
<1>2. IInv /\ PreparedInv /\ [Next]_vars => PreparedInv'
  <2>1. ASSUME PreparedInv, UNCHANGED vars PROVE PreparedInv'
    BY <2>1 DEF PreparedInv, Calls, vars, inputs
  <2> QED
    BY <2>1, PreparedStep DEF Next, Idle
<1>3. IInv /\ SizeInv /\ ExactInv /\ PreparedInv => FitsEveryRoute
  BY ExactFits
<1> QED
  BY <1>1, <1>2, <1>3, PreparationInvariance, FittingInvariance, PTL DEF Spec
=============================================================================
