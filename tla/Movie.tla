------------------------------- MODULE Movie -------------------------------
(***************************************************************************)
(* Input movies: movie.cpp, and what snapshot.cpp, the front-ends and the  *)
(* buttons of controls.cpp call of it.  A movie is a sequence of samples,  *)
(* one for every frame, every polling in between and every reset; snapshots*)
(* taken while it is active carry it, so that loading one rewinds it.      *)
(* Left out: which controllers a sample covers, metadata, the ROM's name,  *)
(* the count of re-recordings, files that can only be read, and the resets *)
(* of Snes9xController, which tell the movie nothing.                      *)
(***************************************************************************)
EXTENDS Naturals, Sequences, FiniteSets

CONSTANTS
    Inputs,        \* samples of the ports
    Files,
    Slots,         \* snapshots a user keeps
    MovieTruncate, WrongMovieStateProtection,
    Polls,         \* the histories, by length, after which the game polls
    MaxSamples,    \* bound: samples of a movie
    MaxMovies      \* bound: movies created

\* S9xDoAutoJoypad polls no more than once in a frame.
ASSUME MovieAssumption ==
    /\ MovieTruncate \in BOOLEAN /\ WrongMovieStateProtection \in BOOLEAN
    /\ MaxSamples \in Nat /\ MaxMovies \in Nat
    /\ \A p \in Polls : p \subseteq 1..(MaxSamples - 1) /\ \A n \in p : n + 1 \notin p

\* A sample of 0xff bytes; what the heap or an earlier movie left in the buffer;
\* the end of a file.
Reset == "reset"
Garbage == "garbage"
EOF == "eof"
None == "none"

ASSUME SamplesDiffer == {Reset, Garbage, EOF} \cap Inputs = {} /\ None \notin Files

VARIABLES
    Movie,      \* the fields of SMovie
    buffer,     \* InputBuffer, by sample; 0 is the baseline
    ptr,        \* InputBufferPtr, in samples
    file,       \* the movies on disk
    slot,       \* the snapshots
    fed,        \* what the machine was given since the movie began
    polls,      \* the game in play
    kept,       \* what the machine was given while a file was last recorded
    made        \* movies created

vars == <<Movie, buffer, ptr, file, slot, fed, polls, kept, made>>

Places == 0..MaxSamples
NoMovie == [MovieId |-> 0]

Most(a, b) == IF a < b THEN b ELSE a

S9xMovieActive == Movie.State # "none"

\* The game polls after history s. S9xMainLoop returns, and lets the user act,
\* only when a frame is next; after a reset one is.
Polled(s) == s # <<>> /\ Len(s) \in polls /\ s[Len(s)] # Reset
IsFrame == ~Polled(fed)

-----------------------------------------------------------------------------
(* The file. What fwrite appends to it for every sample is written again      *)
(* from the buffer when the file is flushed; nobody reads it before.          *)

flush(fs, m, samples) ==
    IF m.File = None THEN fs
    ELSE [fs EXCEPT ![m.File] =
            [MovieId |-> m.MovieId, MaxFrame |-> m.MaxFrame, MaxSample |-> m.MaxSample,
             data |-> [i \in Places |-> IF i <= m.MaxSample THEN samples[i] ELSE @.data[i]]]]

flush_movie(fs) == flush(fs, Movie, buffer)

truncate_movie(fs) ==
    IF ~MovieTruncate THEN fs
    ELSE [fs EXCEPT ![Movie.File].data =
            [i \in Places |-> IF i <= Movie.MaxSample THEN @[i] ELSE EOF]]

\* Mutant: a recording that goes over into playing is not flushed.
FilesAfterUnflushed(new) ==
    IF new = "none" /\ S9xMovieActive
    THEN truncate_movie(IF Movie.State = "record" THEN flush_movie(file) ELSE file)
    ELSE file

\* change_state: what becomes of the files, and of the recording.
FilesAfter(new) ==
    LET flushed == IF Movie.State = "record" /\ new # "record" THEN flush_movie(file) ELSE file
    IN  IF new = "none" /\ S9xMovieActive THEN truncate_movie(flushed) ELSE flushed

KeptAfter(new) ==
    IF Movie.State = "record" /\ new # "record"
    THEN [kept EXCEPT ![Movie.File] = fed]
    ELSE kept

Stopped == [Movie EXCEPT !.State = "none", !.File = None]

\* A movie that stops: change_state(MOVIE_STATE_NONE).
Stops ==
    /\ Movie' = Stopped
    /\ file' = FilesAfter("none") /\ kept' = KeptAfter("none")
    /\ fed' = <<>>
    /\ UNCHANGED <<buffer, ptr, slot, polls, made>>

-----------------------------------------------------------------------------
(* Creating and opening. Files that cannot be opened or read leave the movie  *)
(* stopped, or change nothing.                                                *)

\* Qt offers Record and Play only while no movie is active, other front-ends
\* always. Recording over the file of the active movie is left out.
S9xMovieCreate(f) ==
    /\ f # Movie.File /\ made < MaxMovies
    /\ made' = made + 1
    /\ Movie' = [State |-> "record", MovieId |-> made + 1, ReadOnly |-> FALSE, File |-> f,
                 MaxFrame |-> 0, MaxSample |-> 0, CurrentFrame |-> 0, CurrentSample |-> 0]
    /\ \E i \in Inputs : buffer' = [buffer EXCEPT ![0] = i]
    /\ ptr' = 1
    /\ file' = [FilesAfter("none") EXCEPT ![f] =
                  [MovieId |-> made + 1, MaxFrame |-> 0, MaxSample |-> 0,
                   data |-> [i \in Places |-> EOF]]]
    /\ kept' = [KeptAfter("none") EXCEPT ![f] = <<>>]
    /\ fed' = <<>>
    /\ UNCHANGED <<slot, polls>>

\* read_movie_header makes MaxSample no less than MaxFrame.
LastSample(m) == Most(m.MaxSample, m.MaxFrame)

\* The file of the active movie is flushed before it is read.
S9xMovieOpen(f, read_only) ==
    LET m == FilesAfter("none")[f]
        last == LastSample(m)
    IN  /\ file[f] # NoMovie
        /\ Movie' = [State |-> "play", MovieId |-> m.MovieId,
                     ReadOnly |-> read_only, File |-> f,
                     MaxFrame |-> m.MaxFrame, MaxSample |-> last,
                     CurrentFrame |-> 0, CurrentSample |-> 0]
        /\ buffer' = [i \in Places |-> IF i <= last /\ m.data[i] # EOF THEN m.data[i] ELSE buffer[i]]
        /\ ptr' = IF last > 0 /\ m.MaxFrame > 0 THEN 1 ELSE 0
        /\ file' = FilesAfter("none") /\ kept' = KeptAfter("none")
        /\ fed' = <<>>
        /\ UNCHANGED <<slot, polls, made>>

S9xMovieStop == S9xMovieActive /\ Stops

\* S9xMovieGetInfo flushes the active movie, whatever file it is asked about.
S9xMovieGetInfo ==
    /\ S9xMovieActive
    /\ file' = flush_movie(file)
    /\ UNCHANGED <<Movie, buffer, ptr, slot, fed, polls, kept, made>>

S9xMovieToggleRecState ==
    /\ S9xMovieActive
    /\ Movie' = [Movie EXCEPT !.ReadOnly = ~@]
    /\ UNCHANGED <<buffer, ptr, file, slot, fed, polls, kept, made>>

-----------------------------------------------------------------------------
(* S9xMovieUpdate: the next frame, or polling, of the game. Controllers that  *)
(* are not polled have no samples in between.                                 *)

Frames(n) == IF IsFrame THEN n + 1 ELSE n

AtEnd == Movie.CurrentFrame >= Movie.MaxFrame \/ Movie.CurrentSample >= Movie.MaxSample

PlayEnds == Movie.State = "play" /\ AtEnd /\ Stops

PlaySample ==
    /\ Movie.State = "play" /\ ~AtEnd
    /\ Movie' = [Movie EXCEPT !.CurrentSample = @ + 1, !.CurrentFrame = Frames(@)]
    /\ ptr' = ptr + 1
    /\ fed' = Append(fed, buffer[ptr])
    /\ UNCHANGED <<buffer, file, slot, polls, kept, made>>

\* A sample at the end of the movie: what was recorded after it is dropped.
Record(s, isFrame) ==
    LET cs == Movie.CurrentSample + 1
        cf == IF isFrame THEN Movie.CurrentFrame + 1 ELSE Movie.CurrentFrame
    IN  /\ Movie.State = "record" /\ Movie.CurrentSample < MaxSamples
        /\ buffer' = [buffer EXCEPT ![ptr] = s]
        /\ ptr' = ptr + 1
        /\ Movie' = [Movie EXCEPT !.CurrentSample = cs, !.MaxSample = cs, !.CurrentFrame = cf,
                                  !.MaxFrame = IF isFrame THEN cf ELSE @]
        /\ fed' = Append(fed, s)
        /\ UNCHANGED <<file, slot, polls, kept, made>>

RecordSample == \E i \in Inputs : Record(i, IsFrame)

\* Mutant: a reset is not a frame.
RecordResetUncounted == Record(Reset, FALSE)

\* S9xMovieUpdateOnReset and the reset that follows it; one that is not
\* recorded ends the playing.
RecordReset == Record(Reset, TRUE)

PlayReset == Movie.State = "play" /\ Stops

-----------------------------------------------------------------------------
(* Snapshots.                                                                 *)

\* S9xFreezeGame, with S9xMovieFreeze.
Freeze(n) ==
    /\ slot' = [slot EXCEPT ![n] =
          IF ~S9xMovieActive THEN NoMovie
          ELSE [MovieId |-> Movie.MovieId,
                CurrentFrame |-> Movie.CurrentFrame, MaxFrame |-> Movie.MaxFrame,
                CurrentSample |-> Movie.CurrentSample, MaxSample |-> Movie.MaxSample,
                data |-> [i \in 0..Movie.MaxSample |-> buffer[i]],
                fed |-> fed]]
    /\ UNCHANGED <<Movie, buffer, ptr, file, fed, polls, kept, made>>

\* memcmp of the first samples.
SameUpTo(s, n) == \A i \in 0..n : buffer[i] = s.data[i]

WrongMovie(s) ==
    \/ s.CurrentFrame > s.MaxFrame \/ s.CurrentSample > s.MaxSample
    \/ /\ WrongMovieStateProtection /\ s.MovieId # Movie.MovieId
       /\ \/ s.MaxFrame < Movie.MaxFrame \/ s.MaxSample < Movie.MaxSample
          \/ ~SameUpTo(s, s.MaxSample)

Inconsistent(s) ==
    \/ s.CurrentFrame > Movie.MaxFrame \/ s.CurrentSample > Movie.MaxSample
    \/ ~SameUpTo(s, s.CurrentSample)

\* The movie is the first thing that is looked at, and the machine is loaded
\* only if it agrees; read_frame_controller_data moves on to the next sample.
Loaded(s) ==
    /\ slot[s] # NoMovie /\ S9xMovieActive /\ ~WrongMovie(slot[s])
    /\ fed' = slot[s].fed
    /\ UNCHANGED <<slot, polls, made>>

\* S9xMovieUnfreeze of a movie that may be written: recording goes on from the
\* snapshot, with the movie it carries.
UnfreezeToRecord(n) ==
    LET s == slot[n]
        b == [i \in Places |-> IF i <= s.MaxSample THEN s.data[i] ELSE buffer[i]]
        m == [Movie EXCEPT !.State = "record",
                           !.CurrentFrame = s.CurrentFrame, !.MaxFrame = s.MaxFrame,
                           !.CurrentSample = s.CurrentSample, !.MaxSample = s.MaxSample]
    IN  /\ Loaded(n) /\ ~Movie.ReadOnly
        /\ Movie' = m /\ buffer' = b
        /\ ptr' = s.CurrentSample + 1
        /\ file' = flush(file, m, b)
        /\ UNCHANGED kept

\* Mutant: InputBufferPtr stays where it was.
UnfreezeToPlayPointerKept(n) ==
    /\ Loaded(n) /\ Movie.ReadOnly /\ ~Inconsistent(slot[n])
    /\ Movie' = [Movie EXCEPT !.State = "play", !.CurrentFrame = slot[n].CurrentFrame,
                              !.CurrentSample = slot[n].CurrentSample]
    /\ file' = FilesAfter("play") /\ kept' = KeptAfter("play")
    /\ UNCHANGED <<buffer, ptr>>

\* The same of one that is read only: it is played from the snapshot on.
UnfreezeToPlay(n) ==
    /\ Loaded(n) /\ Movie.ReadOnly /\ ~Inconsistent(slot[n])
    /\ Movie' = [Movie EXCEPT !.State = "play", !.CurrentFrame = slot[n].CurrentFrame,
                              !.CurrentSample = slot[n].CurrentSample]
    /\ ptr' = slot[n].CurrentSample + 1
    /\ file' = FilesAfter("play") /\ kept' = KeptAfter("play")
    /\ UNCHANGED buffer

-----------------------------------------------------------------------------
\* S9xMovieInit; the buffer is never freed.
Init ==
    /\ Movie = [State |-> "none", MovieId |-> 0, ReadOnly |-> FALSE, File |-> None,
                MaxFrame |-> 0, MaxSample |-> 0, CurrentFrame |-> 0, CurrentSample |-> 0]
    /\ buffer = [i \in Places |-> Garbage] /\ ptr = 0
    /\ file = [f \in Files |-> NoMovie]
    /\ slot = [n \in Slots |-> NoMovie]
    /\ fed = <<>> /\ polls \in Polls
    /\ kept = [f \in Files |-> <<>>] /\ made = 0

\* What happens between two frames.
Users ==
    \/ \E f \in Files : S9xMovieCreate(f) \/ \E r \in BOOLEAN : S9xMovieOpen(f, r)
    \/ S9xMovieStop \/ S9xMovieGetInfo \/ S9xMovieToggleRecState
    \/ RecordReset \/ PlayReset
    \/ \E n \in Slots : Freeze(n) \/ UnfreezeToRecord(n) \/ UnfreezeToPlay(n)

Next ==
    \/ PlayEnds \/ PlaySample \/ RecordSample
    \/ IsFrame /\ Users

Spec == Init /\ [][Next]_vars

-----------------------------------------------------------------------------
(* Properties. *)

\* However snapshots are loaded, of this movie or another, to record or to
\* play, the machine in memory has been given exactly the samples before the
\* current one, and the next sample is the one behind them (S9xMovieUnfreeze,
\* InputBufferPtr).
InStep ==
    S9xMovieActive =>
        /\ Len(fed) = Movie.CurrentSample
        /\ \A i \in 1..Len(fed) : buffer[i] = fed[i]
        /\ Movie.MaxSample > 0 /\ Movie.MaxFrame > 0 => ptr = Movie.CurrentSample + 1

\* A movie that is played is the one in its file, although the same buffer was
\* recorded into before (change_state, flush_movie).
PlaysFile ==
    Movie.State = "play" =>
        LET m == file[Movie.File]
        IN  /\ m.MaxFrame = Movie.MaxFrame /\ LastSample(m) = Movie.MaxSample
            /\ \A i \in 0..Movie.MaxSample : m.data[i] = buffer[i]

\* A file that is no longer recorded plays what the machine was given while it
\* was, to the last frame (MaxFrame, MaxSample, SMV header).
FramesOf(s) == Cardinality({i \in 1..Len(s) : ~Polled(SubSeq(s, 1, i - 1))})

FileReplays ==
    \A f \in Files : file[f] # NoMovie /\ ~(Movie.State = "record" /\ Movie.File = f) =>
        LET m == file[f]
        IN  /\ Len(kept[f]) <= LastSample(m)
            /\ \A i \in 1..Len(kept[f]) : m.data[i] = kept[f][i]
            /\ FramesOf(kept[f]) <= m.MaxFrame

\* A movie ends when all its samples have been played. Refuted: the frames are
\* counted when they begin, so the pollings of the last one find the movie at
\* its end (S9xMovieUpdate).
AllSamplesPlayed == [][PlayEnds => Len(fed) >= Movie.MaxSample]_vars
=============================================================================
