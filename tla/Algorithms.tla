----------------------------- MODULE Algorithms -----------------------------
(***************************************************************************)
(* What the server's pure functions compute, against a reference: inputs   *)
(* are built up one element at a time, for one function after the other,   *)
(* and every property is about the input of the moment.                    *)
(***************************************************************************)
EXTENDS BatchFile, JobSizes, Multipart, Workload

CONSTANTS
    Subjects,   \* what is under test
    Alphabet,   \* of each subject: the elements of its inputs
    MaxLength   \* of each subject: bound on the length of its inputs

\* The codes that four digits can write.
FourDigitCodes == {n \in Nat : n < 65536}

\* The bytes of a text but 0, which ends it; the codes that four digits can write;
\* chunks of a byte at least; the bytes of a form; paths of any characters; numbers that
\* rand() returns;
\* clusters of a node at least; and what is typed, character by character.
ASSUME AlphabetAssumption ==
    /\ \A c \in Alphabet["url"] : c \in Nat /\ Between(c, 1, 256)
    /\ Alphabet["code"] \subseteq FourDigitCodes
    /\ Alphabet["chunks"] \subseteq Nat \ {0}
    /\ Alphabet["form"] \subseteq Nat
    /\ Alphabet["sizes"] \subseteq (Nat \ {0}) \X (Nat \ {0}) \X Nat
    /\ Alphabet["rand"] \subseteq Nat
    /\ Alphabet["nodes"] \subseteq Nat \ {0}
    /\ Alphabet["fields"] \subseteq Seq(Nat)
    /\ Alphabet["sleep"] \subseteq Seq(Nat)

VARIABLES subject, text

vars == <<subject, text>>

Init == subject \in Subjects /\ text = <<>>

More == \E x \in Alphabet[subject] :
            /\ Len(text) < MaxLength[subject]
            /\ text' = Append(text, x)
            /\ UNCHANGED subject

Next == More

Spec == Init /\ [][Next]_vars

About(s) == subject = s

TypeOK == subject \in Subjects /\ text \in Seq(Alphabet[subject])

-----------------------------------------------------------------------------
(* server/httplib.h                                                        *)

\* What encode_url writes is read back by decode_url, unless it has a % of its own;
\* and a query whose keys and values are escaped from end to end gives these keys
\* and values, whatever they hold (encode_url, decode_url, split, parse_query_text).
QueriesRoundTrip == About("url") =>
    LET escaped(s) == FlattenSeq([i \in DOMAIN s |-> Escape(s[i])])
        pair(k, v) == escaped(k) \o <<Equals>> \o escaped(v)
    IN  /\ Percent \notin Range(text) => DecodeUrl(EncodeUrl(text), TRUE) = text
        /\ \A i \in 1..Len(text) :
              LET k == SubSeq(text, 1, i)
                  v == From(text, i + 1)
              IN  ParseQuery(pair(k, v) \o <<Amp>> \o pair(k, k)) = <<<<k, v>>, <<k, k>>>>

CodeRound(bytes, n, i) == (64 * n) + (bytes[i + 1] - 128)
Coding == INSTANCE Loops WITH Round <- CodeRound

\* The code that bytes of UTF-8 stand for.
CodeOf(bytes) ==
    LET head == bytes[1]
        lead == CASE Len(bytes) = 1 -> head [] Len(bytes) = 2 -> head - 192
                  [] Len(bytes) = 3 -> head - 224 [] OTHER -> head - 240
    IN  Coding!Loop(bytes, lead, Len(bytes) - 1)

\* The least code that needs n bytes.
Least == <<0, 128, 2048, 65536>>

\* The bytes stand for the code, no fewer would do, and all but the first say that they
\* go on.
IsShortest(utf8, code) ==
    /\ CodeOf(utf8) = code
    /\ Least[Len(utf8)] <= code
    /\ \A i \in DOMAIN utf8 : Between(utf8[i], 128, 192) <=> i > 1

\* %uXXXX becomes the shortest UTF-8 that stands for XXXX, and nothing if that
\* stands for no character by itself (decode_url, to_utf8).
UnicodeEscapes == About("code") => \A code \in Range(text) :
    LET hex  == ToHex(code)
        four == All(4 - Len(hex), Zero) \o hex
        utf8 == DecodeUrl(<<Percent, LowerU>> \o four, FALSE)
    IN  IF Half(code) THEN utf8 = <<>> ELSE IsShortest(utf8, code)

\* Where a walk through the components of a path is after each of them.
Depth(names, i) ==
    Cardinality({j \in 1..i : names[j] \notin {<<>>, <<Dot>>, <<Dot, Dot>>}})
    - Cardinality({j \in 1..i : names[j] = <<Dot, Dot>>})

\* A path is valid if and only if the walk along it never leaves the directory it
\* starts from, not even to come back (is_valid_path, handle_file_request).
ValidPathsStayInside == About("path") =>
    LET names == Pieces(text, Slash)
    IN  ValidPath(text) <=> \A i \in DOMAIN names : Depth(names, i) >= 0

\* A body sent in chunks is read back whole, whatever the chunks' lengths and even
\* if they hold ends of lines, and what follows on the connection is left there
\* (write_content_chunked, read_content_chunked).
ChunksRoundTrip == About("chunks") =>
    LET content(n) == [i \in 1..n |-> IF i % 2 = 1 THEN CR ELSE LF]
        payloads   == [k \in DOMAIN text |-> content(text[k])]
        follows    == <<UpperA>> \o CRLF
    IN  ReadChunked(WriteChunked(payloads) \o follows)
            = [ok |-> TRUE, body |-> FlattenSeq(payloads), rest |-> follows]

\* A form is taken apart into its contents however the network cuts it in two, and
\* byte by byte, if no content has a line that begins with two dashes, and none has
\* more CR, LF and dashes in a row than the boundary has characters: such a row may
\* be taken for content together with the boundary's first characters
\* (parse_header, parse_multipart_boundary, MultipartFormDataParser::parse).
FormsInPieces ==
    LET key      == <<LowerU, Equals>>   \* stands for boundary=
        quoted   == <<Quotes, UpperA, UpperA, Quotes>>
        boundary == BoundaryOf(ParseHeader(<<LowerA, Colon, Space>> \o key \o quoted)[2], key)
        form     == Form(<<text, <<UpperA>>>>, <<LowerA>>, boundary)
        right(p) == p.valid /\ p.parts = <<text, <<UpperA>>>>
        inEnd(x) == \A c \in Range(x) : c \in {CR, LF, Dash}
        clear    == /\ Find(text, CRLF \o Dashes) = 0
                    /\ \A i \in 1..(Len(text) - Len(boundary)) :
                          ~inEnd(SubSeq(text, i, i + Len(boundary)))
    IN  About("form") /\ clear =>
            /\ \A i \in 0..Len(form) :
                  right(ParseAll(<<SubSeq(form, 1, i), From(form, i + 1)>>, boundary))
            /\ right(ParseAll([i \in DOMAIN form |-> <<form[i]>>], boundary))

-----------------------------------------------------------------------------
(* server/compute_rightnow_job_sizes.cpp and SimulationThreadState.cpp     *)

\* The ways to fill nodes with jobs of some sizes: the sums they reach, one node after
\* the other.
FillRound(sizes, sums, i) ==
    IF \E z \in sizes : i - z \in sums THEN sums \cup {i} ELSE sums
Filling == INSTANCE Loops WITH Round <- FillRound
Sums(sizes, nodes) == Filling!Loop(Range(sizes), {0}, nodes)

LeavesSpace(sizes, nodes, space) ==
    \A s \in Sums(sizes, nodes) : s <= nodes - space

\* Both sequences of numbers; which is first in the order of the search.
Before(v, w) == \E i \in DOMAIN v : v[i] < w[i] /\ \A j \in 1..(i - 1) : v[j] = w[j]

\* The search finds each sequence of different sizes that leaves the space, whose
\* first size is more than 1 and whose smallest is less than a third of the nodes,
\* rounded down, once and in order, and no other (computeJobSizes, vectorIncrement:
\* no counter is skipped, no check of the space is cut short).
SearchIsExact == About("sizes") => \A input \in Range(text) :
    LET nodes == input[1]
        k     == input[2]
        space == input[3]
        found == ComputeJobSizes(nodes, k, space)
    IN  /\ Range(found) = {v \in [1..k -> 1..nodes] :
                              /\ v[1] > 1 /\ IsInjective(v)
                              /\ \E i \in 1..k : v[i] < nodes \div 3
                              /\ LeavesSpace(v, nodes, space)}
        /\ \A i \in 1..(Len(found) - 1) : Before(found[i], found[i + 1])

Rand == [i \in 1..300 |-> text[((i - 1) % Len(text)) + 1]]

\* Whatever is drawn, the rightnow workload leaves 4 of the 32 nodes free however
\* the scheduler packs it, with jobs of all five sizes, each with a time limit
\* between 83 minutes and ten hours (createRightNowWorkload, WorkflowManager::main).
FourNodesStayFree ==
    LET jobs  == RightNow(Rand, 15, 5)
        sizes == [k \in DOMAIN jobs |-> jobs[k][1]]
    IN  /\ LeavesSpace(sizes, 32, 4)
        /\ Range(sizes) = Range(RightNowSizes)
        /\ \A k \in DOMAIN jobs : Between(PilotJob(jobs[k]).t, 83, 601)

\* On n nodes, if the simulation starts, every background job fits the cluster of the
\* platform file, whose nodes the batch service has all, and has time to run
\* (createTraceFile, write_xml, createAndLaunchSimulation).
JobsFit(n) ==
    /\ BatchNodes(n) = PlatformNodes(n)
    /\ \A scheme \in {"none", "rightnow", "backfilling", "choices", "other"} :
          LET jobs == Workloads(scheme, n, [i \in 1..300 |-> i])
          IN  jobs # Ends => \A k \in DOMAIN jobs :
                  /\ PilotJob(jobs[k]).N \in 1..Cardinality(PlatformNodes(n))
                  /\ PilotJob(jobs[k]).t > 0

\* The background jobs of a simulation that starts fit the cluster, and those of the
\* scheme that promises room leave it (createTraceFile).
WorkloadFits ==
    /\ About("rand") /\ text # <<>> => FourNodesStayFree
    /\ About("nodes") => \A n \in Range(text) : JobsFit(n)

-----------------------------------------------------------------------------
(* client/index.js                                                         *)

\* A batch file the form lets one save asks for at least a node and a second, for what
\* the fields said, in whole minutes that are enough and no more; and the form shows
\* the same file again (changeBatch, editBatchFile, sendBatch, addJob).
FormIsSent ==
    LET fields  == [nodes |-> text[1], time |-> SubSeq(text, 2, 4)]
        changed == ChangeBatch(fields)
        job     == SendBatch(changed.file)
        meant(i) == ParseInt(text[i])[1]
    IN  ~changed.disabled =>
            /\ job.nodes = meant(1) /\ job.nodes >= 1
            /\ job.sec = (3600 * meant(2)) + (60 * meant(3)) + meant(4) /\ job.sec >= 1
            /\ 60 * Minutes(job.sec) \in job.sec..(job.sec + 59)
            /\ ChangeBatch(EditBatchFile(changed.file)) = changed

\* What a user types into the form is what the server is asked for, and a sleep is
\* refused before its milliseconds pass the int that addTime computes them in
\* (changeBatch, sendBatch, processCommand, addTime).
TypedIsSent ==
    /\ About("fields") /\ Len(text) = 4 => FormIsSent
    /\ About("sleep") /\ SleepTime(text) # NaN => ~Overflows(SleepTime(text)[1])

-----------------------------------------------------------------------------
(* What comments of the code say and the code does not do.                 *)

\* compute_rightnow_job_sizes.cpp:108, "If minimum is > half capacity, nevermind
\* (that would mean only one job at a time!)": a sequence of different sizes that
\* leaves the space, and does not begin with 1, is found if two jobs of its smallest
\* size fit the cluster.
HalfCapacityIsTried == About("sizes") => \A input \in Range(text) :
    LET nodes == input[1]
        k     == input[2]
        space == input[3]
    IN  {v \in [1..k -> 1..nodes] :
            /\ v[1] > 1 /\ IsInjective(v)
            /\ \E i \in 1..k : 2 * v[i] <= nodes
            /\ LeavesSpace(v, nodes, space)} \subseteq Range(ComputeJobSizes(nodes, k, space))
=============================================================================
