---------------------------- MODULE GcdbDownload ----------------------------
(***************************************************************************)
(* device/gcdb-updater/gamecontrollerdb_updater.c, what one update does:   *)
(* it asks for the controller database with the etag that its file has,    *)
(* and writes the lines of its platform as they come. libcurl calls back   *)
(* with whole header lines and with chunks of the body, which break lines  *)
(* anywhere: a line is two pieces here, the second ends it. The transfer   *)
(* may end in an error at any time (the limit is 10 seconds).              *)
(***************************************************************************)
EXTENDS Integers, Sequences

CONSTANTS
    Versions,    \* of the database, with different etags
    Content,     \* the lines of each
    Mine,        \* lines with the platform to look for
    Unended,     \* versions whose last line has no newline
    MaxUpdates   \* bound: updates

NoEtag == "no etag"

ASSUME DatabaseAssumption ==
    /\ NoEtag \notin Versions
    /\ \A v \in Versions : Content[v] \in Seq(STRING)
    /\ \A v \in Versions \cap Unended : Content[v] # <<>>

VARIABLES
    dbFile,     \* the file: <<>> when there is none, else its lines
    version,    \* the version the server has now
    stage,      \* of update_task: idle, asking, headers, body
    etags,      \* the if-none-match headers
    status,     \* ctx->status
    fp,         \* ctx->fp is open
    buf,        \* ctx->buf
    rest,       \* what libcurl has yet to deliver: header lines, or pieces
    result,     \* what update_task returned
    before,     \* history: the file when the update began
    cut,        \* history: the transfer that wrote the file ended in an error
    updates     \* counts updates, up to MaxUpdates

ctxVars == <<etags, status, fp, buf>>
dbVars == <<dbFile, version, stage, ctxVars, rest, result, before, cut, updates>>

EtagLine(v) == [etag |-> v, pieces |-> <<>>]
MapLine(pieces) == [etag |-> NoEtag, pieces |-> pieces]

\* the lines of a version that have a newline
WholeLines(v) == Len(Content[v]) - IF v \in Unended THEN 1 ELSE 0

Body(v) == [i \in 1..(Len(Content[v]) + WholeLines(v)) |->
               <<Content[v][(i + 1) \div 2], IF i % 2 = 1 THEN 1 ELSE 2>>]

DbInit == /\ dbFile = <<>>
          /\ version \in Versions
          /\ stage = "idle"
          /\ etags = {} /\ status = 0 /\ fp = FALSE /\ buf = <<>>
          /\ rest = <<>>
          /\ result = "none"
          /\ before = <<>>
          /\ cut = FALSE
          /\ updates = 0

Server == /\ \E v \in Versions \ {version} : version' = v
          /\ stage = "idle" /\ updates < MaxUpdates
          /\ UNCHANGED <<dbFile, stage, ctxVars, rest, result, before, cut, updates>>

\* update_thread_start, update_task: setup_headers reads the comments the file
\* begins with
Begin == /\ stage = "idle" /\ updates < MaxUpdates
         /\ etags' = {dbFile[i].etag : i \in {j \in DOMAIN dbFile : \A k \in 1..j :
                                                  dbFile[k].etag # NoEtag}}
         /\ status' = 0 /\ fp' = FALSE /\ buf' = <<>>
         /\ before' = dbFile
         /\ stage' = "asking"
         /\ updates' = updates + 1
         /\ UNCHANGED <<dbFile, version, rest, result, cut>>

\* header_cb on the first line of an answer, after redirections, which change
\* nothing: any code but 200 ends the transfer, for 200 the file is opened anew;
\* lockf is taken to succeed, since an assertion stops the program if it fails
AnswerOther(code) == /\ stage = "asking"
                     /\ status' = code
                     /\ stage' = "ended"
                     /\ UNCHANGED <<dbFile, version, etags, fp, buf, rest, result, before, cut, updates>>

Answer200 == /\ stage = "asking" /\ version \notin etags
             /\ \/ /\ status' = 200 /\ fp' = TRUE
                   /\ dbFile' = <<>>
                   /\ stage' = "headers"
                   /\ rest' = <<NoEtag, version, NoEtag>>
                \/ /\ status' = -1                     \* fopen fails
                   /\ stage' = "ended"
                   /\ UNCHANGED <<dbFile, fp, rest>>
             /\ UNCHANGED <<version, etags, buf, result, before, cut, updates>>

\* header_cb and write_header_lines, for a line of the headers
HeaderLine == /\ stage = "headers"
              /\ dbFile' = IF Head(rest) = NoEtag THEN dbFile ELSE Append(dbFile, EtagLine(Head(rest)))
              /\ IF Len(rest) > 1 THEN rest' = Tail(rest) /\ UNCHANGED stage
                 ELSE rest' = Body(version) /\ stage' = "body"
              /\ UNCHANGED <<version, ctxVars, result, before, cut, updates>>

\* write_mapping_lines: the lines that are whole, of the platform, are written;
\* what begins another stays in the buffer
Scan(x, piece) ==
    LET line == Append(x.line, piece)
    IN  IF piece[2] = 1 THEN [x EXCEPT !.line = line]
        ELSE [lines |-> IF piece[1] \in Mine THEN Append(x.lines, MapLine(line)) ELSE x.lines,
              line |-> <<>>]
Scanned(s) ==
    LET after[n \in 0..Len(s)] == IF n = 0 THEN [lines |-> <<>>, line |-> <<>>]
                                  ELSE Scan(after[n - 1], s[n])
    IN  after[Len(s)]
MappingLines(s) == Scanned(s).lines

\* mutant: nothing stays
RemainderLost(s) == <<>>
Remainder(s) == Scanned(s).line

\* body_cb
BodyChunk(n) == /\ stage = "body" /\ n \in 1..Len(rest)
                /\ LET all == buf \o SubSeq(rest, 1, n)
                   IN  /\ dbFile' = dbFile \o MappingLines(all)
                       /\ buf' = Remainder(all)
                /\ rest' = SubSeq(rest, n + 1, Len(rest))
                /\ UNCHANGED <<version, stage, etags, status, fp, result, before, cut, updates>>

\* curl_easy_perform returns: all has come, or an error; the rest of update_task
StatusOf(error) == CASE status = 200 -> "UPDATED"
                     [] status = 304 -> "NO_UPDATE"
                     [] status >= 400 -> "HTTP_ERROR"
                     [] status < 400 /\ status \notin {200, 304} ->
                           IF error THEN "CURL_ERROR" ELSE "NO_UPDATE"

End == /\ stage # "idle"
       /\ LET all == stage = "body" /\ rest = <<>>
          IN  /\ result' = StatusOf(~all)
              /\ cut' = IF fp THEN ~all ELSE cut
       /\ stage' = "idle"
       /\ rest' = <<>>
       /\ etags' = {} /\ status' = 0 /\ fp' = FALSE /\ buf' = <<>>
       /\ UNCHANGED <<dbFile, version, before, updates>>

DbNext == \/ Server \/ Begin
          \/ stage = "asking" /\ version \in etags /\ AnswerOther(304)
          \/ \E code \in {404, 503} : AnswerOther(code)
          \/ Answer200 \/ HeaderLine
          \/ \E n \in 1..Len(rest) : BodyChunk(n)
          \/ End

DbSpec == DbInit /\ [][DbNext]_dbVars

-----------------------------------------------------------------------------
\* Between updates the file is the one the server has, or had when its etag was
\* written: wherever the chunks broke the lines, every line of the platform is
\* in it once (but for a last line without a newline). It is empty only before the
\* first update that says UPDATED, and no other has changed it. This fails after a transfer that was cut: the
\* etag is written first and the result is UPDATED all the same (line 195), so
\* that the next update is told 304 and keeps the part that came.
Mapped(v) ==
    LET text[k \in 0..WholeLines(v)] ==
            IF k = 0 THEN <<EtagLine(v)>>
            ELSE LET l == Content[v][k]
                 IN  IF l \in Mine THEN Append(text[k - 1], MapLine(<<<<l, 1>>, <<l, 2>>>>))
                     ELSE text[k - 1]
    IN  text[WholeLines(v)]

FileTrueToEtag ==
    stage = "idle" =>
        /\ ~cut => \/ dbFile \in {Mapped(v) : v \in Versions}
                   \/ dbFile = <<>> /\ result # "UPDATED"
        /\ result # "UPDATED" => dbFile = before

=============================================================================
