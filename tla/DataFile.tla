------------------------------ MODULE DataFile ------------------------------
(***************************************************************************)
(* avro: the data file that write_users.py, write_bunch_of_users.py and    *)
(* the readers work on, through DataFileWriter and DataFileReader of       *)
(* avro/devices/avro/datafile.py.  One writer at a time creates the file   *)
(* or appends to it while a reader comes and goes (readers change nothing, *)
(* so one stands for all).  What is written reaches the file in order but  *)
(* piecemeal, unless it is flushed.  The file is a sequence of tokens: a   *)
(* header that ends with the sync marker, then for each block its count,   *)
(* its length, its datums and the marker.  The tail of a datum is a string *)
(* or empty, which decodes from fewer bytes than it has.                   *)
(***************************************************************************)
EXTENDS Integers, Sequences, FiniteSets, FiniteSetsExt, SequencesExt

CONSTANTS
    Codecs,    \* what the header of a file of another program names
    SyncSize,  \* tokens of a marker (SYNC_SIZE, in bytes)
    Interval,  \* datums that fill a block (SYNC_INTERVAL, in bytes)
    MaxData,   \* bound on the datums appended
    MaxSessions, MaxReads, \* bounds on the writers and the readers opened
    MaxGot     \* bound on the datums that a reader gets

ValidCodecs == {"null", "deflate"}

ASSUME DataFileAssumption ==
    /\ Codecs \subseteq ValidCodecs \cup {"absent"}
    /\ SyncSize \in Nat \ {0} /\ Interval \in Nat \ {0}
    /\ MaxData \in Nat /\ MaxSessions \in Nat /\ MaxReads \in Nat /\ MaxGot \in Nat

VARIABLES
    file,      \* what writers have written
    seen,      \* how many tokens of it others see
    gen,       \* how often the file was created; its marker
    writer,    \* "none" or "open"
    buffer,    \* the datums of buffer_writer
    blockCount,\* the writer's block_count
    reader,    \* what the reader holds
    ends,      \* history: the ends of the header and of the blocks that follow
               \* each other without a gap
    accepted,  \* history: the datums that append took and no death has lost
    flushed,   \* history: the datums a flush has secured
    want,      \* history: what the reader must at least get, and whether it
               \* found the file whole
    nextDatum, sessions, reads

writerVars == <<writer, buffer, blockCount>>
readerVars == <<reader, want, reads>>
vars == <<file, seen, gen, writerVars, readerVars, ends, accepted, flushed, nextDatum, sessions>>

Marker(g)    == [i \in 1 .. SyncSize |-> <<"sync", g, i>>]
Header(c, g) == <<<<"header", c>>>> \o Marker(g)
HeaderEnd    == 1 + SyncSize
Codec        == file[1][2]

(* The whole datums of a piece of a file. *)
Datums(f) ==
    LET upto[n \in 0 .. Len(f)] ==
          IF n = 0 THEN <<>>
          ELSE IF f[n][1] = "tail" THEN Append(upto[n - 1], f[n][2]) ELSE upto[n - 1]
    IN  upto[Len(f)]
Upto(n)   == SubSeq(file, 1, n)

(* Where the last block ends that is whole within n tokens. *)
WholeAt(n) == Max({0} \cup {e \in ends : e <= n})

(* turn is history: how many datums the reader had got when it went astray:  *)
(* when _skip_sync first sent it back behind the place where it was, or when *)
(* it first took something else for the rest of a datum or for a block.      *)
Never  == -1
Closed == [at |-> "closed", gen |-> 0, pos |-> 0, length |-> 0, count |-> 0,
           inflated |-> <<>>, got |-> <<>>, turn |-> Never]
NoWant == [data |-> <<>>, whole |-> FALSE]

(* No file yet, or one that another program left with its header alone.      *)
Init ==
    /\ \/ file = <<>> /\ ends = {}
       \/ \E c \in Codecs : file = Header(c, 0) /\ ends = {HeaderEnd}
    /\ seen = Len(file) /\ gen = 0
    /\ writer = "none" /\ buffer = <<>> /\ blockCount = 0
    /\ reader = Closed /\ want = NoWant
    /\ accepted = <<>> /\ flushed = <<>>
    /\ nextDatum = 1 /\ sessions = 0 /\ reads = 0

-----------------------------------------------------------------------------
(* DataFileWriter on a file opened with "w" and a schema. *)
CreateFile(codec) ==
    /\ writer = "none" /\ sessions < MaxSessions
    /\ sessions' = sessions + 1
    /\ gen' = gen + 1
    /\ file' = Header(codec, gen') /\ ends' = {HeaderEnd} /\ seen' = 0
    /\ writer' = "open" /\ buffer' = <<>> /\ blockCount' = 0
    /\ accepted' = <<>> /\ flushed' = <<>>
    /\ UNCHANGED <<readerVars, nextDatum>>

(* DataFileWriter without a schema: read the header, seek to the end.        *)
OpenWriter ==
    /\ writer = "none" /\ sessions < MaxSessions /\ seen >= HeaderEnd
    /\ writer' = "open" /\ buffer' = <<>> /\ blockCount' = 0
    /\ sessions' = sessions + 1
    /\ UNCHANGED <<file, seen, gen, readerVars, ends, accepted, flushed, nextDatum>>

(* The tokens of a block, and where it ends if nothing before it is torn.    *)
Written(data, n) ==
    /\ file' = file \o <<<<"count", n>>, <<"len">>>>
                    \o [i \in 1 .. 2 * Len(data) |->
                          <<IF i % 2 = 1 THEN "head" ELSE "tail", data[(i + 1) \div 2]>>]
                    \o Marker(gen)
    /\ ends' = ends \cup {e \in {Len(file')} : Len(file) \in ends}

\* Mutant: block_count is not reset.
Block_NoReset(data, n) == Written(data, n) /\ buffer' = <<>> /\ blockCount' = n

\* Mutant: the buffer is not truncated.
Block_KeepsBuffer(data, n) == Written(data, n) /\ buffer' = data /\ blockCount' = 0

(* _write_block: count, length, datums and sync marker, then a fresh buffer. *)
Block(data, n) == Written(data, n) /\ buffer' = <<>> /\ blockCount' = 0

WriteBlock(data, n) ==
    IF n > 0 THEN Block(data, n)
    ELSE UNCHANGED <<file, ends>> /\ buffer' = data /\ blockCount' = n

(* A writer whose codec is None writes the count of the block and then       *)
(* raises; the program ends, and with it the file is closed.                 *)
NoCodec(n) == Codec = "absent" /\ n > 0
Raise(n) ==
    /\ file' = Append(file, <<"count", n>>)
    /\ seen' = Len(file')
    /\ writer' = "none" /\ buffer' = <<>> /\ blockCount' = 0
    /\ accepted' = Datums(file)
    /\ UNCHANGED <<ends, flushed>>

(* append: the datum goes to the buffer, and a full buffer to the file.      *)
AppendDatum ==
    LET full == Append(buffer, nextDatum)
        n == blockCount + 1 IN
    /\ writer = "open" /\ nextDatum <= MaxData
    /\ nextDatum' = nextDatum + 1
    /\ \/ /\ Len(full) < Interval
          /\ buffer' = full /\ blockCount' = n
          /\ accepted' = Append(accepted, nextDatum)
          /\ UNCHANGED <<file, ends, seen, writer, flushed>>
       \/ /\ Len(full) >= Interval /\ ~NoCodec(n)
          /\ WriteBlock(full, n)
          /\ accepted' = Append(accepted, nextDatum)
          /\ UNCHANGED <<seen, writer, flushed>>
       \/ Len(full) >= Interval /\ NoCodec(n) /\ Raise(n)
    /\ UNCHANGED <<gen, readerVars, sessions>>

(* sync ends the block but flushes nothing. *)
Sync ==
    /\ writer = "open"
    /\ \/ /\ ~NoCodec(blockCount) /\ WriteBlock(buffer, blockCount)
          /\ UNCHANGED <<seen, writer, accepted, flushed>>
       \/ NoCodec(blockCount) /\ Raise(blockCount)
    /\ UNCHANGED <<gen, readerVars, nextDatum, sessions>>

(* A flush secures what was accepted, unless it went behind a torn block.    *)
Secured == flushed' = IF Len(file') \in ends' THEN accepted ELSE flushed

\* Mutant: the block under way is not written.
FlushTo_NoBlock(state) ==
    /\ UNCHANGED <<file, ends, buffer, blockCount>>
    /\ seen' = Len(file') /\ writer' = state /\ Secured

FlushTo(state) ==
    /\ WriteBlock(buffer, blockCount)
    /\ seen' = Len(file') /\ writer' = state /\ Secured

(* flush, and close, which flushes first. *)
Flush ==
    /\ writer = "open"
    /\ \/ /\ ~NoCodec(blockCount) /\ \E state \in {"open", "none"} : FlushTo(state)
          /\ UNCHANGED accepted
       \/ NoCodec(blockCount) /\ Raise(blockCount)
    /\ UNCHANGED <<gen, readerVars, nextDatum, sessions>>

(* The file object hands on some of what was written, the header in one go.  *)
Spill ==
    /\ seen < Len(file)
    /\ seen' = IF seen < HeaderEnd THEN HeaderEnd ELSE seen + 1
    /\ UNCHANGED <<file, gen, writerVars, readerVars, ends, accepted, flushed, nextDatum, sessions>>

(* An exception (a datum that is not of the schema, a word that is not       *)
(* ASCII) ends the program: the file is closed, the block under way is lost. *)
Abort ==
    /\ writer = "open"
    /\ writer' = "none" /\ buffer' = <<>> /\ blockCount' = 0
    /\ seen' = Len(file) /\ accepted' = Datums(file)
    /\ UNCHANGED <<file, gen, readerVars, ends, flushed, nextDatum, sessions>>

(* The program is killed: what others did not see yet is lost as well.       *)
Kill ==
    /\ writer = "open"
    /\ writer' = "none" /\ buffer' = <<>> /\ blockCount' = 0
    /\ file' = Upto(seen) /\ accepted' = Datums(file')
    /\ ends' = {e \in ends : e <= seen}
    /\ UNCHANGED <<seen, gen, readerVars, flushed, nextDatum, sessions>>

-----------------------------------------------------------------------------
(* DataFileReader: header, and the length of the file as it is now.          *)
OpenReader ==
    /\ reader.at = "closed" /\ reads < MaxReads /\ seen >= HeaderEnd
    /\ reads' = reads + 1
    /\ reader' = [Closed EXCEPT !.at = "open", !.gen = gen, !.pos = HeaderEnd, !.length = seen]
    /\ want' = [data |-> Datums(Upto(WholeAt(seen))), whole |-> WholeAt(seen) = seen]
    /\ UNCHANGED <<file, seen, gen, writerVars, ends, accepted, flushed, nextDatum, sessions>>

Kind(p) == IF p <= seen THEN file[p][1] ELSE "eof"

Broken(b) == [b EXCEPT !.at = "broken"]
Astray(b) == IF b.turn = Never THEN [b EXCEPT !.turn = Len(b.got)] ELSE b

(* A datum whose bytes are not those of one that was appended. *)
Torn == 0

(* The decoder takes whatever bytes it finds for the rest of a datum or for  *)
(* the head of a block: it raises, or a datum comes of them, no error is     *)
(* seen, and the reader goes on from a place where nothing need begin.       *)
Lost(b) ==
    {Broken(b), [Astray(b) EXCEPT !.at = "lost", !.got = Append(@, Torn)]}

(* A datum that the decoder finds at p; n more are to come in its block.  If *)
(* the writer did not finish it and another one appended a block, its rest   *)
(* is read from there.                                                       *)
ReadDatum(b, p, n) ==
    CASE Kind(p + 1) = "head" /\ Kind(p + 2) = "tail" ->
            {[b EXCEPT !.count = n, !.pos = p + 2, !.got = Append(@, file[p + 1][2])]}
      [] Kind(p + 1) = "head" /\ Kind(p + 2) = "eof" ->
            {Broken(b), [b EXCEPT !.count = n, !.pos = p + 1, !.got = Append(@, Torn)]}
      [] Kind(p + 1) = "eof" -> {Broken(b)}
      [] OTHER -> Lost(b)

(* The datums of a compressed block are decoded from memory. *)
Decode(b, data) ==
    [b EXCEPT !.count = Len(data) - 1, !.got = Append(@, Head(data)), !.inflated = Tail(data)]

Inflate(b, p, n) ==
    IF p + 2 * n > seen THEN {Broken(b)}
    ELSE IF \E i \in 1 .. 2 * n : Kind(p + i) \notin {"head", "tail"} THEN Lost(b)
    ELSE {[Decode(b, Datums(SubSeq(file, p + 1, p + 2 * n))) EXCEPT !.pos = p + 2 * n]}

(* _read_block_header at p, and the first datum of the block.                *)
BeginBlock(b, p) ==
    CASE Kind(p + 1) = "count" /\ Kind(p + 2) = "len" ->
            IF Codec = "deflate" THEN Inflate(b, p + 2, file[p + 1][2])
            ELSE ReadDatum(b, p + 2, file[p + 1][2] - 1)
      [] Kind(p + 1) = "eof" \/ (Kind(p + 1) = "count" /\ Kind(p + 2) = "eof") -> {Broken(b)}
      [] OTHER -> Lost(b)

(* _skip_sync: past a marker; from anything else, back by a whole marker,    *)
(* which is too far when the file ended before a whole marker was read.  A   *)
(* block that is not longer than a marker is then read over and over again.  *)
SkipSync(p) ==
    LET q == IF p + SyncSize < seen THEN p + SyncSize ELSE seen
    IN  IF SubSeq(file, p + 1, q) = Marker(gen) THEN q ELSE q - SyncSize

\* Mutant: the end of the file is where it is now.
IsEOF_Now(b, p) == p = seen

IsEOF(b, p) == p = b.length

Turned(b, q) == IF q < b.pos THEN Astray(b) ELSE b

(* next: a datum, StopIteration, an exception; any of them once the reader   *)
(* is lost, or if the file was created anew under it.                        *)
Nexts(b) ==
    CASE b.at = "lost" -> Lost(b) \cup {[b EXCEPT !.at = "stopped"]}
      [] b.count > 0 /\ b.inflated # <<>> -> {Decode(b, b.inflated)}
      [] b.count = 0 /\ IsEOF(b, b.pos) -> {[b EXCEPT !.at = "stopped"]}
      [] OTHER ->
           IF b.gen # gen THEN Lost(b)
           ELSE IF b.count > 0 THEN ReadDatum(b, b.pos, b.count - 1)
           ELSE LET q == SkipSync(b.pos)
                IN  IF q > b.pos /\ IsEOF(b, q) THEN {[b EXCEPT !.at = "stopped", !.pos = q]}
                    ELSE BeginBlock(Turned(b, q), q)

ReadNext ==
    /\ reader.at \in {"open", "lost"} /\ Len(reader.got) < MaxGot
    /\ reader' \in Nexts(reader)
    /\ UNCHANGED <<file, seen, gen, writerVars, want, reads, ends, accepted, flushed, nextDatum, sessions>>

CloseReader ==
    /\ reader.at # "closed"
    /\ reader' = Closed /\ want' = NoWant
    /\ UNCHANGED <<file, seen, gen, writerVars, reads, ends, accepted, flushed, nextDatum, sessions>>

Next ==
    \/ \E c \in ValidCodecs : CreateFile(c)
    \/ OpenWriter \/ AppendDatum \/ Sync \/ Flush \/ Spill \/ Abort \/ Kill
    \/ OpenReader \/ ReadNext \/ CloseReader

Spec == Init /\ [][Next]_vars

-----------------------------------------------------------------------------
(* Types of the file, its writer and its reader; block_count is the number   *)
(* of datums buffered.                                                       *)
TypeOK ==
    /\ seen \in 0 .. Len(file) /\ ends \subseteq 1 .. Len(file)
    /\ writer \in {"none", "open"} /\ blockCount = Len(buffer)
    /\ reader.at \in {"closed", "open", "stopped", "broken", "lost"}
    /\ reader.count \in Nat
    /\ nextDatum \in 1 .. MaxData + 1 /\ sessions \in 0 .. MaxSessions /\ reads \in 0 .. MaxReads

Current == reader.at # "closed" /\ reader.gen = gen

(* What a reader got before it went astray. *)
Sure   == IF reader.turn = Never THEN reader.got ELSE SubSeq(reader.got, 1, reader.turn)
Untorn(got) ==
    Datums([i \in 1 .. Len(got) |-> <<IF got[i] = Torn THEN "torn" ELSE "tail", got[i]>>])

(* What next has returned are the datums that were appended, in their order, *)
(* none left out or twice, while writers append, die and append again, but   *)
(* for a datum that comes without its end at the end of the file: until the  *)
(* reader goes astray.  From then on nothing is known of what it returns: it *)
(* may be datums once more, or one that its writer did not finish and that   *)
(* goes on with the bytes of the block behind it, which raises no error.     *)
(* That is after all that was whole when it was opened, and never in a file  *)
(* that was whole then.                                                      *)
ReadersFaithful ==
    Current => /\ IsPrefix(Untorn(Sure), accepted)
               /\ reader.turn # Never => ~want.whole /\ IsPrefix(want.data, Sure)

(* A reader that is through got all whole blocks that were there when it was *)
(* opened; if there was nothing else, it got nothing else and just stopped,  *)
(* even if the file has grown since.                                         *)
SnapshotIsRead ==
    Current => /\ reader.at # "open" => IsPrefix(want.data, reader.got)
               /\ want.whole => /\ reader.at \in {"open", "stopped"}
                                /\ IsPrefix(reader.got, want.data)

(* What a flush secured can be read from the file from then on, whatever     *)
(* becomes of its writers, until it is created anew.  What append took is in *)
(* the file or in the buffer, once.                                          *)
FlushedStays ==
    /\ TypeOK
    /\ IsPrefix(flushed, Datums(Upto(WholeAt(seen))))
    /\ accepted = Datums(file) \o buffer
=============================================================================
