-------------------------- MODULE MovieCheatsProofs --------------------------
(***************************************************************************)
(* The machine and the movie stay in step, for any inputs, files, slots,   *)
(* pollings and bounds.  InStep is not inductive by itself: a snapshot     *)
(* brings back a history and a position of long ago, so that every slot    *)
(* has to be in step with the samples it carries (SlotsInStep), and the    *)
(* position has to lie in the buffer, whose size the frames of a movie     *)
(* bound as well as its samples (FramesWithin).                            *)
(* That the movie in play is the one in its file needs in addition that no *)
(* end of file is read: a movie has as many samples as frames (FramesFit), *)
(* for snapshots are taken between frames (SlotsFit).                      *)
(* That a file replays what the machine was given needs that CurrentFrame  *)
(* counts the frames of what it was given (Counted), in snapshots too.     *)
(*                                                                         *)
(* The game gets back the bytes its cheats replaced (Restored), and a      *)
(* cheat in effect is in place at the end of a frame (Applied): memory at  *)
(* an address is the game's byte, or that of the one cheat there, which    *)
(* then has saved the game's (Good, OK), and what is enabled is of an      *)
(* enabled group (Flagged).  Memory after so many cheats, and groups, is a *)
(* recursive function; that it exists, keeps its type and changes only     *)
(* where a cheat writes is by induction over its domain (NatSetInduction). *)
(***************************************************************************)
EXTENDS Movie, Cheats, FiniteSetTheorems, SequenceTheorems, TLAPS

Samples == Inputs \cup {Reset, Garbage, EOF}

Tapes == [MovieId : Nat, MaxFrame : Places, MaxSample : Places, data : [Places -> Samples]]

Disks == [Files -> Tapes \cup {NoMovie}]

TypeOK ==
    /\ Movie \in [State : {"none", "record", "play"}, MovieId : Nat, ReadOnly : BOOLEAN,
                  File : Files \cup {None}, MaxFrame : Places, MaxSample : Places,
                  CurrentFrame : Nat, CurrentSample : Nat]
    /\ buffer \in [Places -> Samples]
    /\ ptr \in Nat
    /\ file \in Disks
    /\ fed \in Seq(Samples)
    /\ made \in Nat

\* The active movie has a file.
HasFile == S9xMovieActive => Movie.File \in Files /\ file[Movie.File] \in Tapes

\* A frame is a sample, and the current one is not behind the last.
FramesWithin ==
    /\ Movie.CurrentFrame <= Movie.CurrentSample
    /\ Movie.CurrentSample <= Movie.MaxSample

\* Who records writes behind what the machine was given.
RecordsNext == Movie.State = "record" => ptr = Movie.CurrentSample + 1

\* What a snapshot carries agrees with the machine that is saved with it.
Carries(s) ==
    /\ s.MaxFrame \in Places /\ s.MaxSample \in Places
    /\ s.CurrentFrame \in Nat /\ s.CurrentSample \in Nat
    /\ s.CurrentFrame <= s.CurrentSample /\ s.CurrentSample <= s.MaxSample
    /\ \A i \in 0..s.MaxSample : s.data[i] \in Samples
    /\ s.fed \in Seq(Samples) /\ Len(s.fed) = s.CurrentSample
    /\ \A i \in 1..s.CurrentSample : s.data[i] = s.fed[i]

SlotsInStep ==
    /\ DOMAIN slot = Slots
    /\ \A n \in Slots : slot[n] # NoMovie => Carries(slot[n])

IInv == TypeOK /\ HasFile /\ FramesWithin /\ RecordsNext /\ SlotsInStep /\ InStep

-----------------------------------------------------------------------------
(* Files. *)

\* Writing a movie to its file gives a file that can be read again.
LEMMA FlushType ==
    ASSUME NEW fs \in Disks, NEW m, NEW samples \in [Places -> Samples],
           m.MovieId \in Nat, m.MaxFrame \in Places, m.MaxSample \in Places,
           m.File # None => m.File \in Files /\ fs[m.File] \in Tapes
    PROVE  /\ flush(fs, m, samples) \in Disks
           /\ \A f \in Files : fs[f] \in Tapes => flush(fs, m, samples)[f] \in Tapes
<1>1. CASE m.File = None
  BY <1>1 DEF flush
<1>2. CASE m.File # None
  <2> DEFINE d == [i \in Places |-> IF i <= m.MaxSample THEN samples[i] ELSE fs[m.File].data[i]]
             t == [MovieId |-> m.MovieId, MaxFrame |-> m.MaxFrame, MaxSample |-> m.MaxSample, data |-> d]
  <2>1. m.File \in Files /\ fs[m.File] \in Tapes
    BY <1>2
  <2>2. d \in [Places -> Samples]
    BY <2>1 DEF Tapes
  <2>3. t \in Tapes
    BY <2>2 DEF Tapes
  <2>4. flush(fs, m, samples) = [fs EXCEPT ![m.File] = t]
    BY <1>2 DEF flush
  <2> HIDE DEF t
  <2> QED
    BY <2>1, <2>3, <2>4 DEF Disks
<1> QED
  BY <1>1, <1>2

\* Cutting off a file leaves one that can be read.
LEMMA TruncateType ==
    ASSUME IInv, S9xMovieActive, NEW fs \in Disks, \A f \in Files : file[f] \in Tapes => fs[f] \in Tapes
    PROVE  /\ truncate_movie(fs) \in Disks
           /\ \A f \in Files : file[f] \in Tapes => truncate_movie(fs)[f] \in Tapes
<1>1. Movie.File \in Files /\ fs[Movie.File] \in Tapes
  BY DEF IInv, HasFile
<1>2. CASE ~MovieTruncate
  BY <1>2 DEF truncate_movie
<1>3. CASE MovieTruncate
  <2> DEFINE d == [i \in Places |-> IF i <= Movie.MaxSample THEN fs[Movie.File].data[i] ELSE EOF]
             t == [fs[Movie.File] EXCEPT !.data = d]
  <2>1. d \in [Places -> Samples]
    BY <1>1 DEF Tapes, Samples
  <2>2. t \in Tapes
    BY <1>1, <2>1 DEF Tapes
  <2>3. truncate_movie(fs) = [fs EXCEPT ![Movie.File] = t]
    BY <1>1, <1>3 DEF truncate_movie, Disks
  <2> HIDE DEF t
  <2> QED
    BY <1>1, <2>2, <2>3 DEF Disks
<1> QED
  BY <1>2, <1>3

\* So does every change of the movie's state.
LEMMA FilesAfterType ==
    ASSUME IInv, NEW new
    PROVE  /\ FilesAfter(new) \in Disks
           /\ \A f \in Files : file[f] \in Tapes => FilesAfter(new)[f] \in Tapes
<1> DEFINE flushed == IF Movie.State = "record" /\ new # "record" THEN flush_movie(file) ELSE file
<1>1. /\ flushed \in Disks
      /\ \A f \in Files : file[f] \in Tapes => flushed[f] \in Tapes
  <2>1. CASE Movie.State = "record" /\ new # "record"
    <3>1. Movie.MovieId \in Nat /\ Movie.MaxFrame \in Places /\ Movie.MaxSample \in Places
      BY DEF IInv, TypeOK
    <3>2. S9xMovieActive
      BY <2>1 DEF S9xMovieActive
    <3>3. Movie.File \in Files /\ file[Movie.File] \in Tapes
      BY <3>2 DEF IInv, HasFile
    <3>4. file \in Disks /\ buffer \in [Places -> Samples]
      BY DEF IInv, TypeOK
    <3> QED
      BY <2>1, <3>1, <3>3, <3>4, FlushType DEF flush_movie
  <2>2. CASE ~(Movie.State = "record" /\ new # "record")
    BY <2>2 DEF IInv, TypeOK
  <2> QED
    BY <2>1, <2>2
<1>2. FilesAfter(new) = IF new = "none" /\ S9xMovieActive THEN truncate_movie(flushed) ELSE flushed
  BY DEF FilesAfter
<1> HIDE DEF flushed
<1> QED
  BY <1>1, <1>2, TruncateType

-----------------------------------------------------------------------------
(* The steps. *)

LEMMA InitInv == Init => IInv
<1> SUFFICES ASSUME Init PROVE IInv
  OBVIOUS
<1>1. 0 \in Places
  BY MovieAssumption DEF Places
<1>2. TypeOK
  <2>1. <<>> \in Seq(Samples)
    OBVIOUS
  <2>2. file \in Disks
    BY DEF Init, Disks
  <2>3. buffer \in [Places -> Samples]
    BY DEF Init, Samples
  <2> QED
    BY <1>1, <2>1, <2>2, <2>3 DEF Init, TypeOK
<1>3. HasFile /\ InStep
  BY DEF Init, HasFile, InStep, S9xMovieActive
<1>4. FramesWithin /\ RecordsNext
  BY DEF Init, FramesWithin, RecordsNext
<1>5. SlotsInStep
  BY DEF Init, SlotsInStep
<1> QED
  BY <1>2, <1>3, <1>4, <1>5 DEF IInv

\* A movie that stops leaves the files as they can be read.
LEMMA StopsInv == ASSUME IInv, Stops PROVE IInv'
<1>1. file' \in Disks
  BY FilesAfterType DEF Stops
<1>2. Movie' = [Movie EXCEPT !.State = "none", !.File = None]
  BY DEF Stops, Stopped
<1>3. TypeOK'
  <2>1. UNCHANGED <<buffer, ptr, made>> /\ fed' = <<>>
    BY DEF Stops
  <2>2. fed' \in Seq(Samples)
    BY <2>1
  <2>3. Movie' \in [State : {"none", "record", "play"}, MovieId : Nat, ReadOnly : BOOLEAN,
                    File : Files \cup {None}, MaxFrame : Places, MaxSample : Places,
                    CurrentFrame : Nat, CurrentSample : Nat]
    BY <1>2 DEF IInv, TypeOK
  <2> QED
    BY <1>1, <2>1, <2>2, <2>3 DEF IInv, TypeOK
<1>4. Movie'.State = "none"
  BY <1>2 DEF IInv, TypeOK
<1>5. HasFile' /\ RecordsNext' /\ InStep'
  BY <1>4 DEF HasFile, RecordsNext, InStep, S9xMovieActive
<1>6. FramesWithin'
  BY <1>2 DEF IInv, TypeOK, FramesWithin
<1>7. SlotsInStep'
  BY DEF IInv, SlotsInStep, Stops
<1> QED
  BY <1>3, <1>5, <1>6, <1>7 DEF IInv

LEMMA CreateInv == ASSUME IInv, NEW f \in Files, S9xMovieCreate(f) PROVE IInv'
<1>1. 0 \in Places /\ made' \in Nat
  BY MovieAssumption DEF IInv, TypeOK, S9xMovieCreate, Places
<1>2. Movie' = [State |-> "record", MovieId |-> made', ReadOnly |-> FALSE, File |-> f,
                MaxFrame |-> 0, MaxSample |-> 0, CurrentFrame |-> 0, CurrentSample |-> 0]
  BY DEF S9xMovieCreate
<1>3. buffer' \in [Places -> Samples] /\ ptr' = 1 /\ fed' = <<>>
  BY DEF IInv, TypeOK, S9xMovieCreate, Samples
<1>4. file' \in Disks /\ file'[f] \in Tapes
  <2> DEFINE t == [MovieId |-> made + 1, MaxFrame |-> 0, MaxSample |-> 0,
                   data |-> [i \in Places |-> EOF]]
  <2>1. t \in Tapes
    BY <1>1 DEF S9xMovieCreate, Tapes, Samples
  <2>2. FilesAfter("none") \in Disks
    BY FilesAfterType
  <2>3. file' = [FilesAfter("none") EXCEPT ![f] = t]
    BY DEF S9xMovieCreate
  <2> HIDE DEF t
  <2> QED
    BY <2>1, <2>2, <2>3 DEF Disks
<1>5. TypeOK'
  BY <1>1, <1>2, <1>3, <1>4 DEF TypeOK
<1>6. HasFile' /\ FramesWithin' /\ RecordsNext'
  BY <1>2, <1>3, <1>4 DEF HasFile, FramesWithin, RecordsNext
<1>7. InStep'
  BY <1>2, <1>3 DEF InStep
<1>8. SlotsInStep'
  BY DEF IInv, SlotsInStep, S9xMovieCreate
<1> QED
  BY <1>5, <1>6, <1>7, <1>8 DEF IInv

LEMMA OpenInv == ASSUME IInv, NEW f \in Files, NEW r \in BOOLEAN, S9xMovieOpen(f, r) PROVE IInv'
<1> DEFINE m == FilesAfter("none")[f]
           last == LastSample(m)
<1>1. file[f] \in Tapes
  BY DEF IInv, TypeOK, Disks, S9xMovieOpen
<1>2. file' \in Disks /\ m \in Tapes /\ file'[f] \in Tapes
  BY <1>1, FilesAfterType DEF S9xMovieOpen
<1>3. m.MovieId \in Nat /\ m.MaxFrame \in Places /\ m.MaxSample \in Places /\ m.data \in [Places -> Samples]
  BY <1>2 DEF Tapes
<1>4. last \in Places /\ 0 \in Places
  BY <1>3, MovieAssumption DEF LastSample, Most, Places
<1>5. Movie' = [State |-> "play", MovieId |-> m.MovieId, ReadOnly |-> r, File |-> f,
                MaxFrame |-> m.MaxFrame, MaxSample |-> last, CurrentFrame |-> 0, CurrentSample |-> 0]
  BY DEF S9xMovieOpen
<1>6. buffer' \in [Places -> Samples]
  BY <1>3 DEF IInv, TypeOK, S9xMovieOpen
<1>7. ptr' = (IF last > 0 /\ m.MaxFrame > 0 THEN 1 ELSE 0) /\ fed' = <<>> /\ made' = made
  BY DEF S9xMovieOpen
<1> HIDE DEF last, m
<1>8. TypeOK'
  BY <1>2, <1>3, <1>4, <1>5, <1>6, <1>7 DEF IInv, TypeOK
<1>9. HasFile' /\ FramesWithin' /\ RecordsNext'
  BY <1>2, <1>4, <1>5 DEF HasFile, FramesWithin, RecordsNext, Places
<1>10. InStep'
  BY <1>3, <1>4, <1>5, <1>7 DEF InStep, Places
<1>11. SlotsInStep'
  BY DEF IInv, SlotsInStep, S9xMovieOpen
<1> QED
  BY <1>8, <1>9, <1>10, <1>11 DEF IInv

LEMMA GetInfoInv == ASSUME IInv, S9xMovieGetInfo PROVE IInv'
<1>1. Movie.File \in Files /\ file[Movie.File] \in Tapes
  BY DEF IInv, HasFile, S9xMovieGetInfo
<1>2. /\ file' \in Disks
      /\ \A f \in Files : file[f] \in Tapes => file'[f] \in Tapes
  <2>1. Movie.MovieId \in Nat /\ Movie.MaxFrame \in Places /\ Movie.MaxSample \in Places
    BY DEF IInv, TypeOK
  <2>2. file \in Disks /\ buffer \in [Places -> Samples] /\ file' = flush(file, Movie, buffer)
    BY DEF IInv, TypeOK, S9xMovieGetInfo, flush_movie
  <2> QED
    BY <1>1, <2>1, <2>2, FlushType
<1>3. UNCHANGED <<Movie, buffer, ptr, slot, fed, made>>
  BY DEF S9xMovieGetInfo
<1>4. TypeOK'
  BY <1>2, <1>3 DEF IInv, TypeOK
<1>5. HasFile'
  BY <1>1, <1>2, <1>3 DEF HasFile
<1>6. FramesWithin' /\ RecordsNext' /\ SlotsInStep' /\ InStep'
  BY <1>3 DEF IInv, FramesWithin, RecordsNext, SlotsInStep, InStep, S9xMovieActive
<1> QED
  BY <1>4, <1>5, <1>6 DEF IInv

LEMMA ToggleInv == ASSUME IInv, S9xMovieToggleRecState PROVE IInv'
<1>1. /\ Movie' = [Movie EXCEPT !.ReadOnly = ~@]
      /\ UNCHANGED <<buffer, ptr, file, slot, fed, made>>
  BY DEF S9xMovieToggleRecState
<1>2. TypeOK'
  BY <1>1 DEF IInv, TypeOK
<1>3. /\ Movie'.State = Movie.State /\ Movie'.File = Movie.File
      /\ Movie'.MaxFrame = Movie.MaxFrame /\ Movie'.MaxSample = Movie.MaxSample
      /\ Movie'.CurrentFrame = Movie.CurrentFrame /\ Movie'.CurrentSample = Movie.CurrentSample
  BY <1>1 DEF IInv, TypeOK
<1>4. HasFile' /\ FramesWithin' /\ RecordsNext' /\ SlotsInStep' /\ InStep'
  BY <1>1, <1>3 DEF IInv, HasFile, FramesWithin, RecordsNext, SlotsInStep, InStep, S9xMovieActive
<1> QED
  BY <1>2, <1>4 DEF IInv

\* The sample at the pointer is the one behind those that were played.
LEMMA PlayInv == ASSUME IInv, PlaySample PROVE IInv'
<1>1. /\ Movie' = [Movie EXCEPT !.CurrentSample = @ + 1, !.CurrentFrame = Frames(@)]
      /\ ptr' = ptr + 1 /\ fed' = Append(fed, buffer[ptr])
      /\ UNCHANGED <<buffer, file, slot, made>>
  BY DEF PlaySample
<1>2. /\ Frames(Movie.CurrentFrame) \in Nat
      /\ Frames(Movie.CurrentFrame) <= Movie.CurrentFrame + 1
  BY DEF IInv, TypeOK, Frames
<1>3. /\ Movie.State = "play" /\ Movie.MaxSample \in Nat /\ Movie.MaxFrame \in Nat
      /\ Movie.CurrentFrame < Movie.MaxFrame /\ Movie.CurrentSample < Movie.MaxSample
      /\ Movie.CurrentFrame \in Nat /\ Movie.CurrentSample \in Nat
  BY MovieAssumption DEF IInv, TypeOK, PlaySample, AtEnd, Places
<1>4. ptr = Movie.CurrentSample + 1 /\ Len(fed) = Movie.CurrentSample
  BY <1>3 DEF IInv, InStep, S9xMovieActive
<1>5. ptr \in Places
  <2>1. Movie.MaxSample <= MaxSamples
    BY MovieAssumption DEF IInv, TypeOK, Places
  <2> QED
    BY <1>3, <1>4, <2>1, MovieAssumption DEF Places
<1>6. fed \in Seq(Samples) /\ buffer[ptr] \in Samples
  BY <1>5 DEF IInv, TypeOK
<1>7. /\ Movie'.State = Movie.State /\ Movie'.File = Movie.File
      /\ Movie'.MaxFrame = Movie.MaxFrame /\ Movie'.MaxSample = Movie.MaxSample
      /\ Movie'.CurrentFrame = Frames(Movie.CurrentFrame)
      /\ Movie'.CurrentSample = Movie.CurrentSample + 1
  BY <1>1 DEF IInv, TypeOK
<1>8. TypeOK'
  <2>1. fed' \in Seq(Samples)
    BY <1>1, <1>6
  <2>2. Movie.CurrentSample + 1 \in Nat /\ ptr + 1 \in Nat
    BY <1>3, <1>4
  <2> QED
    BY <1>1, <1>2, <2>1, <2>2 DEF IInv, TypeOK
<1>9. HasFile' /\ RecordsNext' /\ SlotsInStep'
  BY <1>1, <1>3, <1>7 DEF IInv, HasFile, RecordsNext, SlotsInStep, S9xMovieActive
<1>10. FramesWithin'
  BY <1>2, <1>3, <1>7 DEF IInv, FramesWithin
<1>11. InStep'
  <2>1. Len(fed') = Len(fed) + 1 /\ \A i \in 1..Len(fed) : fed'[i] = fed[i]
    BY <1>1, <1>6
  <2>2. fed'[Len(fed) + 1] = buffer[ptr]
    BY <1>1, <1>6
  <2>3. \A i \in 1..Len(fed) : buffer[i] = fed[i]
    BY <1>3 DEF IInv, InStep, S9xMovieActive
  <2> QED
    BY <1>1, <1>3, <1>4, <1>7, <2>1, <2>2, <2>3 DEF InStep
<1> QED
  BY <1>8, <1>9, <1>10, <1>11 DEF IInv

\* What is recorded goes into the buffer and to the machine at the same place.
LEMMA RecordInv == ASSUME IInv, NEW s \in Samples, NEW b \in BOOLEAN, Record(s, b) PROVE IInv'
<1> DEFINE cs == Movie.CurrentSample + 1
           cf == IF b THEN Movie.CurrentFrame + 1 ELSE Movie.CurrentFrame
           mf == IF b THEN cf ELSE Movie.MaxFrame
<1>1. /\ Movie' = [Movie EXCEPT !.CurrentSample = cs, !.MaxSample = cs, !.CurrentFrame = cf,
                                !.MaxFrame = mf]
      /\ buffer' = [buffer EXCEPT ![ptr] = s]
      /\ ptr' = ptr + 1 /\ fed' = Append(fed, s)
      /\ UNCHANGED <<file, slot, made>>
  BY DEF IInv, TypeOK, Record
<1>2. /\ Movie.State = "record" /\ Movie.CurrentSample < MaxSamples
      /\ Movie.CurrentFrame \in Nat /\ Movie.CurrentSample \in Nat
      /\ Movie.CurrentFrame <= Movie.CurrentSample
  BY DEF IInv, TypeOK, FramesWithin, Record
<1>3. cs \in Places /\ cf \in Nat /\ cf <= cs /\ mf \in Places
  BY <1>2, MovieAssumption DEF IInv, TypeOK, Places
<1>4. ptr = cs /\ Len(fed) = Movie.CurrentSample /\ fed \in Seq(Samples)
  BY <1>2 DEF IInv, TypeOK, InStep, RecordsNext, S9xMovieActive
<1>5. /\ Movie'.State = "record" /\ Movie'.File = Movie.File
      /\ Movie'.MaxSample = cs /\ Movie'.CurrentFrame = cf /\ Movie'.CurrentSample = cs
  BY <1>1, <1>2 DEF IInv, TypeOK
<1> HIDE DEF cf, mf
<1>6. TypeOK'
  <2>1. fed' \in Seq(Samples)
    BY <1>1, <1>4
  <2>9. buffer' \in [Places -> Samples]
    BY <1>1 DEF IInv, TypeOK
  <2>2. cs \in Nat /\ ptr + 1 \in Nat
    BY <1>2, <1>4
  <2> HIDE DEF cs
  <2> QED
    BY <1>1, <1>3, <2>1, <2>9, <2>2 DEF IInv, TypeOK
<1>7. HasFile' /\ SlotsInStep'
  BY <1>1, <1>2, <1>5 DEF IInv, HasFile, SlotsInStep, S9xMovieActive
<1>8. FramesWithin' /\ RecordsNext'
  BY <1>1, <1>2, <1>3, <1>4, <1>5 DEF FramesWithin, RecordsNext
<1>9. InStep'
  <2>1. Len(fed') = cs /\ fed'[cs] = s /\ \A i \in 1..Len(fed) : fed'[i] = fed[i]
    BY <1>1, <1>4
  <2>2. \A i \in 1..Len(fed) : buffer[i] = fed[i]
    BY <1>2 DEF IInv, InStep, S9xMovieActive
  <2>3. buffer'[cs] = s
    BY <1>1, <1>3, <1>4 DEF IInv, TypeOK
  <2>4. \A i \in 1..Len(fed) : buffer'[i] = buffer[i]
    BY <1>1, <1>2, <1>3, <1>4 DEF IInv, TypeOK, Places
  <2> QED
    BY <1>1, <1>2, <1>4, <1>5, <2>1, <2>2, <2>3, <2>4 DEF InStep
<1> QED
  BY <1>6, <1>7, <1>8, <1>9 DEF IInv

\* A snapshot is taken of a machine that is in step.
LEMMA FreezeInv == ASSUME IInv, NEW n \in Slots, Freeze(n) PROVE IInv'
<1> DEFINE new == [MovieId |-> Movie.MovieId,
                   CurrentFrame |-> Movie.CurrentFrame, MaxFrame |-> Movie.MaxFrame,
                   CurrentSample |-> Movie.CurrentSample, MaxSample |-> Movie.MaxSample,
                   data |-> [i \in 0..Movie.MaxSample |-> buffer[i]],
                   fed |-> fed]
<1>1. /\ slot' = [slot EXCEPT ![n] = IF ~S9xMovieActive THEN NoMovie ELSE new]
      /\ UNCHANGED <<Movie, buffer, ptr, file, fed, made>>
  BY DEF Freeze
<1>2. ASSUME S9xMovieActive PROVE Carries(new)
  <2>1. /\ Movie.MaxFrame \in Places /\ Movie.MaxSample \in Places
        /\ Movie.CurrentFrame \in Nat /\ Movie.CurrentSample \in Nat
        /\ Movie.CurrentFrame <= Movie.CurrentSample /\ Movie.CurrentSample <= Movie.MaxSample
        /\ fed \in Seq(Samples) /\ buffer \in [Places -> Samples]
    BY DEF IInv, TypeOK, FramesWithin
  <2>2. Len(fed) = Movie.CurrentSample /\ \A i \in 1..Len(fed) : buffer[i] = fed[i]
    BY <1>2 DEF IInv, InStep
  <2>3. \A i \in 0..Movie.MaxSample : buffer[i] \in Samples
    BY <2>1, MovieAssumption DEF Places
  <2>4. 1..Movie.CurrentSample \subseteq 0..Movie.MaxSample
    BY <2>1, MovieAssumption DEF Places
  <2> QED
    BY <2>1, <2>2, <2>3, <2>4 DEF Carries
<1> HIDE DEF new
<1>3. SlotsInStep'
  BY <1>1, <1>2 DEF IInv, SlotsInStep
<1>4. TypeOK' /\ HasFile' /\ FramesWithin' /\ RecordsNext' /\ InStep'
  BY <1>1 DEF IInv, TypeOK, HasFile, FramesWithin, RecordsNext, InStep, S9xMovieActive
<1> QED
  BY <1>3, <1>4 DEF IInv

\* A snapshot that is loaded to record brings its own samples.
LEMMA ToRecordInv == ASSUME IInv, NEW n \in Slots, UnfreezeToRecord(n) PROVE IInv'
<1> DEFINE s == slot[n]
           b == [i \in Places |-> IF i <= s.MaxSample THEN s.data[i] ELSE buffer[i]]
           m == [Movie EXCEPT !.State = "record",
                              !.CurrentFrame = s.CurrentFrame, !.MaxFrame = s.MaxFrame,
                              !.CurrentSample = s.CurrentSample, !.MaxSample = s.MaxSample]
<1>1. /\ Movie' = m /\ buffer' = b /\ ptr' = s.CurrentSample + 1
      /\ file' = flush(file, m, b)
      /\ fed' = s.fed /\ UNCHANGED <<slot, made>>
  BY DEF UnfreezeToRecord, Loaded
<1>2. Carries(s) /\ S9xMovieActive
  BY DEF IInv, SlotsInStep, UnfreezeToRecord, Loaded
<1>3. /\ s.MaxFrame \in Places /\ s.MaxSample \in Places
      /\ s.CurrentFrame \in Nat /\ s.CurrentSample \in Nat
      /\ s.CurrentFrame <= s.CurrentSample /\ s.CurrentSample <= s.MaxSample
      /\ s.fed \in Seq(Samples) /\ Len(s.fed) = s.CurrentSample
  BY <1>2 DEF Carries
<1>4. b \in [Places -> Samples]
  <2>1. \A i \in 0..s.MaxSample : s.data[i] \in Samples
    BY <1>2 DEF Carries
  <2>2. \A i \in Places : i <= s.MaxSample => i \in 0..s.MaxSample
    BY <1>3, MovieAssumption DEF Places
  <2> QED
    BY <2>1, <2>2 DEF IInv, TypeOK
<1>5. /\ m \in [State : {"none", "record", "play"}, MovieId : Nat, ReadOnly : BOOLEAN,
                File : Files \cup {None}, MaxFrame : Places, MaxSample : Places,
                CurrentFrame : Nat, CurrentSample : Nat]
      /\ m.State = "record" /\ m.File = Movie.File /\ m.MovieId = Movie.MovieId
      /\ m.MaxFrame = s.MaxFrame /\ m.MaxSample = s.MaxSample
      /\ m.CurrentFrame = s.CurrentFrame /\ m.CurrentSample = s.CurrentSample
  BY <1>3 DEF IInv, TypeOK
<1>6. Movie.File \in Files /\ file[Movie.File] \in Tapes
  BY <1>2 DEF IInv, HasFile
<1>7. \A i \in 1..s.CurrentSample : b[i] = s.fed[i]
  <2>1. \A i \in 1..s.CurrentSample : s.data[i] = s.fed[i]
    BY <1>2 DEF Carries
  <2>2. \A i \in 1..s.CurrentSample : i \in Places /\ i <= s.MaxSample
    BY <1>3, MovieAssumption DEF Places
  <2> QED
    BY <2>1, <2>2
<1> HIDE DEF b, m
<1>8. /\ file' \in Disks
      /\ \A f \in Files : file[f] \in Tapes => file'[f] \in Tapes
  <2>1. file \in Disks
    BY DEF IInv, TypeOK
  <2>2. m.MovieId \in Nat
    BY <1>5
  <2> QED
    BY <1>1, <1>3, <1>4, <1>5, <1>6, <2>1, <2>2, FlushType
<1>9. TypeOK'
  BY <1>1, <1>3, <1>4, <1>5, <1>8 DEF IInv, TypeOK
<1>10. HasFile' /\ FramesWithin' /\ RecordsNext' /\ SlotsInStep'
  BY <1>1, <1>3, <1>5, <1>6, <1>8 DEF IInv, HasFile, FramesWithin, RecordsNext, SlotsInStep
<1>11. InStep'
  BY <1>1, <1>3, <1>5, <1>7 DEF InStep
<1> QED
  BY <1>9, <1>10, <1>11 DEF IInv

\* A snapshot that is loaded to play has to agree with the movie up to where it
\* was taken.
LEMMA ToPlayInv == ASSUME IInv, NEW n \in Slots, UnfreezeToPlay(n) PROVE IInv'
<1> DEFINE s == slot[n]
<1>1. /\ Movie' = [Movie EXCEPT !.State = "play", !.CurrentFrame = s.CurrentFrame,
                                !.CurrentSample = s.CurrentSample]
      /\ ptr' = s.CurrentSample + 1 /\ file' = FilesAfter("play")
      /\ fed' = s.fed /\ UNCHANGED <<buffer, slot, made>>
  BY DEF UnfreezeToPlay, Loaded
<1>2. Carries(s) /\ S9xMovieActive /\ ~Inconsistent(s)
  BY DEF IInv, SlotsInStep, UnfreezeToPlay, Loaded
<1>3. /\ s.CurrentFrame \in Nat /\ s.CurrentSample \in Nat
      /\ s.CurrentFrame <= s.CurrentSample
      /\ s.fed \in Seq(Samples) /\ Len(s.fed) = s.CurrentSample
      /\ \A i \in 1..s.CurrentSample : s.data[i] = s.fed[i]
  BY <1>2 DEF Carries
<1>4. s.CurrentSample <= Movie.MaxSample
  BY <1>2, <1>3, MovieAssumption DEF IInv, TypeOK, Inconsistent, Places
<1>5. \A i \in 1..s.CurrentSample : buffer[i] = s.fed[i]
  BY <1>2, <1>3 DEF Inconsistent, SameUpTo
<1>6. /\ Movie' \in [State : {"none", "record", "play"}, MovieId : Nat, ReadOnly : BOOLEAN,
                     File : Files \cup {None}, MaxFrame : Places, MaxSample : Places,
                     CurrentFrame : Nat, CurrentSample : Nat]
      /\ Movie'.State = "play" /\ Movie'.File = Movie.File
      /\ Movie'.MaxSample = Movie.MaxSample
      /\ Movie'.CurrentFrame = s.CurrentFrame /\ Movie'.CurrentSample = s.CurrentSample
  BY <1>1, <1>3 DEF IInv, TypeOK
<1>7. /\ file' \in Disks
      /\ \A f \in Files : file[f] \in Tapes => file'[f] \in Tapes
  BY <1>1, FilesAfterType
<1>8. TypeOK'
  BY <1>1, <1>3, <1>6, <1>7, SMTT(20) DEF IInv, TypeOK
<1>9. HasFile' /\ FramesWithin' /\ RecordsNext' /\ SlotsInStep'
  BY <1>1, <1>2, <1>3, <1>4, <1>6, <1>7
     DEF IInv, HasFile, FramesWithin, RecordsNext, SlotsInStep
<1>10. InStep'
  BY <1>1, <1>3, <1>5, <1>6 DEF InStep
<1> QED
  BY <1>8, <1>9, <1>10 DEF IInv

LEMMA NextInv == IInv /\ [Next]_vars => IInv'
<1> SUFFICES ASSUME IInv, [Next]_vars PROVE IInv'
  OBVIOUS
<1>1. CASE PlayEnds
  BY <1>1, StopsInv DEF PlayEnds
<1>2. CASE PlaySample
  BY <1>2, PlayInv
<1>3. CASE RecordSample
  <2>1. PICK i \in Inputs : Record(i, IsFrame)
    BY <1>3 DEF RecordSample
  <2>2. IsFrame \in BOOLEAN /\ i \in Samples
    BY DEF IsFrame, Samples
  <2> QED
    BY <2>1, <2>2, RecordInv
<1>4. CASE Users
  <2>1. CASE \E f \in Files : S9xMovieCreate(f)
    BY <2>1, CreateInv
  <2>2. CASE \E f \in Files, r \in BOOLEAN : S9xMovieOpen(f, r)
    BY <2>2, OpenInv
  <2>3. CASE S9xMovieStop \/ PlayReset
    BY <2>3, StopsInv DEF S9xMovieStop, PlayReset
  <2>4. CASE S9xMovieGetInfo
    BY <2>4, GetInfoInv
  <2>5. CASE S9xMovieToggleRecState
    BY <2>5, ToggleInv
  <2>6. CASE RecordReset
    BY <2>6, RecordInv DEF RecordReset, Samples
  <2>7. CASE \E n \in Slots : Freeze(n)
    BY <2>7, FreezeInv
  <2>8. CASE \E n \in Slots : UnfreezeToRecord(n)
    BY <2>8, ToRecordInv
  <2>9. CASE \E n \in Slots : UnfreezeToPlay(n)
    BY <2>9, ToPlayInv
  <2> QED
    BY <1>4, <2>1, <2>2, <2>3, <2>4, <2>5, <2>6, <2>7, <2>8, <2>9 DEF Users
<1>5. CASE UNCHANGED vars
  BY <1>5 DEF vars, IInv, TypeOK, HasFile, FramesWithin, RecordsNext, SlotsInStep, InStep,
              S9xMovieActive
<1> QED
  BY <1>1, <1>2, <1>3, <1>4, <1>5 DEF Next

\* However snapshots of this movie or another are loaded, to record or to play,
\* the machine in memory has been given exactly the samples before the current
\* one and is given the next one next (S9xMovieUnfreeze, S9xMovieUpdate).
THEOREM InStepInv == Spec => []InStep
<1>1. Init => IInv
  BY InitInv
<1>2. IInv /\ [Next]_vars => IInv'
  BY NextInv
<1>3. IInv => InStep
  BY DEF IInv
<1> QED
  BY <1>1, <1>2, <1>3, PTL DEF Spec

-----------------------------------------------------------------------------
(* What is played is what the file holds. For that no end of a file may be     *)
(* met, which is so when a movie has no more frames than samples.              *)

\* A file that can be played to its end.
Whole(t) == t.MaxFrame <= t.MaxSample /\ \A i \in 0..t.MaxSample : t.data[i] # EOF

FilesWhole ==
    \A f \in Files :
        file[f] \in Tapes /\ ~(Movie.State = "record" /\ Movie.File = f) => Whole(file[f])

\* The frame that a polling belongs to has been counted: none that a snapshot
\* brought are counted after it.
FramesFit ==
    /\ polls \in Polls
    /\ Movie.MaxFrame <= Movie.MaxSample
    /\ Movie.State = "record" /\ Polled(fed) => Movie.MaxFrame <= Movie.CurrentFrame
    /\ \A i \in Places : buffer[i] # EOF

SlotsFit ==
    \A n \in Slots : slot[n] # NoMovie =>
        /\ slot[n].MaxFrame <= slot[n].MaxSample /\ ~Polled(slot[n].fed)
        /\ \A i \in 0..slot[n].MaxSample : slot[n].data[i] # EOF

PInv == FilesWhole /\ FramesFit /\ SlotsFit /\ PlaysFile

\* A file that was flushed holds the movie in memory; the others are untouched.
Holds(t, m, samples) ==
    /\ t.MaxFrame = m.MaxFrame /\ t.MaxSample = m.MaxSample
    /\ \A i \in 0..m.MaxSample : t.data[i] = samples[i]

LEMMA FlushHolds ==
    ASSUME NEW fs \in Disks, NEW m, NEW samples \in [Places -> Samples],
           m.MaxSample \in Places, m.File \in Files
    PROVE  /\ Holds(flush(fs, m, samples)[m.File], m, samples)
           /\ \A f \in Files \ {m.File} : flush(fs, m, samples)[f] = fs[f]
<1> DEFINE d == [i \in Places |-> IF i <= m.MaxSample THEN samples[i] ELSE fs[m.File].data[i]]
           t == [MovieId |-> m.MovieId, MaxFrame |-> m.MaxFrame, MaxSample |-> m.MaxSample, data |-> d]
<1>1. flush(fs, m, samples) = [fs EXCEPT ![m.File] = t]
  BY SamplesDiffer DEF flush
<1>2. \A i \in 0..m.MaxSample : i \in Places /\ i <= m.MaxSample
  BY MovieAssumption DEF Places
<1>3. \A i \in 0..m.MaxSample : d[i] = samples[i]
  BY <1>2
<1> HIDE DEF d
<1>4. Holds(t, m, samples)
  BY <1>3 DEF Holds
<1> HIDE DEF t
<1> QED
  BY <1>1, <1>4 DEF Disks

LEMMA HoldsWhole ==
    ASSUME NEW t, NEW m, NEW samples, Holds(t, m, samples), m.MaxSample \in Places,
           m.MaxFrame <= m.MaxSample, \A i \in Places : samples[i] # EOF
    PROVE  Whole(t)
<1>1. \A i \in 0..m.MaxSample : i \in Places
  BY MovieAssumption DEF Places
<1> QED
  BY <1>1 DEF Holds, Whole

\* A movie that goes over into playing is in its file.
LEMMA FlushedPlays ==
    ASSUME IInv, PInv, Movie.State = "record"
    PROVE  /\ FilesAfter("play") = flush_movie(file)
           /\ Holds(flush_movie(file)[Movie.File], Movie, buffer)
           /\ Whole(flush_movie(file)[Movie.File])
           /\ \A f \in Files \ {Movie.File} : flush_movie(file)[f] = file[f]
<1>1. Movie.File \in Files
  BY DEF IInv, HasFile, S9xMovieActive
<1>2. file \in Disks /\ buffer \in [Places -> Samples] /\ Movie.MaxSample \in Places
  BY DEF IInv, TypeOK
<1>3. /\ Holds(flush_movie(file)[Movie.File], Movie, buffer)
      /\ \A f \in Files \ {Movie.File} : flush_movie(file)[f] = file[f]
  BY <1>1, <1>2, FlushHolds DEF flush_movie
<1>4. Whole(flush_movie(file)[Movie.File])
  BY <1>2, <1>3, HoldsWhole DEF PInv, FramesFit
<1>5. FilesAfter("play") = flush_movie(file)
  BY DEF FilesAfter
<1> QED
  BY <1>3, <1>4, <1>5

LEMMA PlayFiles == ASSUME IInv, PInv, Movie.State # "record" PROVE FilesAfter("play") = file
BY DEF FilesAfter

\* A movie in play has as many samples as its file, no more.
LEMMA PlayedIsWhole ==
    ASSUME IInv, PInv, Movie.State = "play"
    PROVE  Whole(file[Movie.File]) /\ Holds(file[Movie.File], Movie, buffer)
<1>1. Movie.File \in Files /\ file[Movie.File] \in Tapes
  BY DEF IInv, HasFile, S9xMovieActive
<1>2. /\ file[Movie.File].MaxFrame = Movie.MaxFrame
      /\ LastSample(file[Movie.File]) = Movie.MaxSample
      /\ \A i \in 0..Movie.MaxSample : file[Movie.File].data[i] = buffer[i]
  BY DEF PInv, PlaysFile
<1>3. Whole(file[Movie.File])
  BY <1>1 DEF PInv, FilesWhole
<1>4. file[Movie.File].MaxSample \in Nat /\ file[Movie.File].MaxFrame \in Nat
  <2>1. file[Movie.File].MaxSample \in Places /\ file[Movie.File].MaxFrame \in Places
    BY <1>1 DEF Tapes
  <2> QED
    BY <2>1, MovieAssumption DEF Places
<1>5. file[Movie.File].MaxSample = Movie.MaxSample
  BY <1>2, <1>3, <1>4 DEF Whole, LastSample, Most
<1> QED
  BY <1>2, <1>3, <1>5 DEF Holds

\* A movie that stops leaves its file with what is in memory, and no other
\* file is touched.
LEMMA FilesAfterHolds ==
    ASSUME IInv, PInv, S9xMovieActive, NEW new, new \in {"none", "play"}
    PROVE  /\ Movie.File \in Files /\ Holds(FilesAfter(new)[Movie.File], Movie, buffer)
           /\ \A g \in Files \ {Movie.File} : FilesAfter(new)[g] = file[g]
<1> DEFINE flushed == IF Movie.State = "record" THEN flush_movie(file) ELSE file
<1>1. FilesAfter(new) = IF new = "none" THEN truncate_movie(flushed) ELSE flushed
  BY DEF FilesAfter
<1>2. flushed \in Disks /\ file \in Disks
  BY FilesAfterType, PlayFiles, FlushedPlays DEF IInv, TypeOK
<1>3. /\ Movie.File \in Files
      /\ Holds(flushed[Movie.File], Movie, buffer)
      /\ \A g \in Files \ {Movie.File} : flushed[g] = file[g]
  BY FlushedPlays, PlayedIsWhole DEF IInv, HasFile, TypeOK, S9xMovieActive
<1>4. flushed[Movie.File] \in Tapes
  <2>1. FilesAfter("play") = flushed /\ file[Movie.File] \in Tapes
    BY DEF FilesAfter, IInv, HasFile
  <2> QED
    BY <1>3, <2>1, FilesAfterType
<1> HIDE DEF flushed
<1>5. CASE new = "play" \/ ~MovieTruncate
  <2>1. FilesAfter(new) = flushed
    BY <1>1, <1>5 DEF truncate_movie
  <2> QED
    BY <1>3, <2>1
<1>6. CASE new = "none" /\ MovieTruncate
  <2> DEFINE d == [i \in Places |-> IF i <= Movie.MaxSample THEN flushed[Movie.File].data[i] ELSE EOF]
             t == [flushed[Movie.File] EXCEPT !.data = d]
  <2>1. FilesAfter(new) = [flushed EXCEPT ![Movie.File] = t]
    BY <1>1, <1>2, <1>3, <1>6 DEF truncate_movie, Disks
  <2>2. /\ t.MaxFrame = flushed[Movie.File].MaxFrame
        /\ t.MaxSample = flushed[Movie.File].MaxSample /\ t.data = d
    BY <1>4 DEF Tapes
  <2>3. \A i \in 0..Movie.MaxSample : i \in Places /\ i <= Movie.MaxSample
    BY MovieAssumption DEF IInv, TypeOK, Places
  <2>4. \A i \in 0..Movie.MaxSample : d[i] = flushed[Movie.File].data[i]
    BY <2>3
  <2>5. Holds(t, Movie, buffer)
    <3> HIDE DEF d, t
    <3> QED
      BY <1>3, <2>2, <2>4 DEF Holds
  <2> HIDE DEF t
  <2> QED
    BY <1>2, <1>3, <2>1, <2>5 DEF Disks
<1> QED
  BY <1>5, <1>6

\* A movie that stops leaves every file whole.
LEMMA FilesAfterWhole ==
    ASSUME IInv, PInv, NEW f \in Files, FilesAfter("none")[f] \in Tapes
    PROVE  Whole(FilesAfter("none")[f])
<1>1. CASE ~S9xMovieActive
  BY <1>1 DEF FilesAfter, S9xMovieActive, PInv, FilesWhole
<1>2. CASE S9xMovieActive /\ f # Movie.File
  BY <1>2, FilesAfterHolds DEF PInv, FilesWhole
<1>3. CASE S9xMovieActive /\ f = Movie.File
  <2>1. Holds(FilesAfter("none")[f], Movie, buffer)
    BY <1>3, FilesAfterHolds
  <2>2. /\ Movie.MaxSample \in Places /\ Movie.MaxFrame <= Movie.MaxSample
        /\ \A i \in Places : buffer[i] # EOF
    BY DEF IInv, TypeOK, PInv, FramesFit
  <2> QED
    BY <2>1, <2>2, HoldsWhole
<1> QED
  BY <1>1, <1>2, <1>3

LEMMA InitPlays == Init => PInv
<1> SUFFICES ASSUME Init PROVE PInv
  OBVIOUS
<1>1. FilesWhole
  <2>1. \A f \in Files : file[f] = NoMovie
    BY DEF Init
  <2>2. NoMovie \notin Tapes
    BY DEF NoMovie, Tapes
  <2> QED
    BY <2>1, <2>2 DEF FilesWhole
<1>2. FramesFit
  <2>1. polls \in Polls /\ Movie.MaxFrame = 0 /\ Movie.MaxSample = 0 /\ Movie.State = "none"
    BY DEF Init
  <2>2. \A i \in Places : buffer[i] # EOF
    BY DEF Init, Garbage, EOF
  <2> QED
    BY <2>1, <2>2 DEF FramesFit
<1>3. SlotsFit /\ PlaysFile
  BY DEF Init, SlotsFit, PlaysFile
<1> QED
  BY <1>1, <1>2, <1>3 DEF PInv

LEMMA StopsPlays == ASSUME IInv, PInv, Stops PROVE PInv'
<1>1. /\ Movie'.State = "none" /\ Movie'.MaxFrame = Movie.MaxFrame
      /\ Movie'.MaxSample = Movie.MaxSample
  BY DEF IInv, TypeOK, Stops, Stopped
<1>2. file' = FilesAfter("none") /\ UNCHANGED <<buffer, slot, polls>>
  BY DEF Stops
<1>3. FilesWhole'
  BY <1>2, FilesAfterWhole DEF FilesWhole
<1>4. FramesFit' /\ SlotsFit' /\ PlaysFile'
  BY <1>1, <1>2 DEF PInv, FramesFit, SlotsFit, PlaysFile, Polled
<1> QED
  BY <1>3, <1>4 DEF PInv

LEMMA CreatePlays == ASSUME IInv, PInv, NEW f \in Files, S9xMovieCreate(f) PROVE PInv'
<1>1. /\ Movie'.State = "record" /\ Movie'.File = f
      /\ Movie'.MaxFrame = 0 /\ Movie'.MaxSample = 0 /\ Movie'.CurrentFrame = 0
      /\ UNCHANGED <<slot, polls>>
  BY DEF S9xMovieCreate
<1>2. \A g \in Files \ {f} : file'[g] = FilesAfter("none")[g]
  <2>1. FilesAfter("none") \in Disks
    BY FilesAfterType
  <2> QED
    BY <2>1 DEF S9xMovieCreate, Disks
<1>3. FilesWhole'
  BY <1>1, <1>2, FilesAfterWhole DEF FilesWhole
<1>4. \A i \in Places : buffer'[i] # EOF
  BY SamplesDiffer DEF IInv, TypeOK, PInv, FramesFit, S9xMovieCreate
<1>5. FramesFit' /\ SlotsFit' /\ PlaysFile'
  BY <1>1, <1>4 DEF PInv, FramesFit, SlotsFit, PlaysFile, Polled
<1> QED
  BY <1>3, <1>5 DEF PInv

LEMMA OpenPlays == ASSUME IInv, PInv, NEW f \in Files, NEW r \in BOOLEAN, S9xMovieOpen(f, r) PROVE PInv'
<1> DEFINE m == FilesAfter("none")[f]
           last == LastSample(m)
<1>1. file[f] \in Tapes
  BY DEF IInv, TypeOK, Disks, S9xMovieOpen
<1>2. m \in Tapes
  BY <1>1, FilesAfterType
<1>3. Whole(m)
  BY <1>2, FilesAfterWhole
<1>4. m.MaxFrame \in Nat /\ m.MaxSample \in Nat /\ m.MaxSample \in Places
  <2>1. m.MaxFrame \in Places /\ m.MaxSample \in Places
    BY <1>2 DEF Tapes
  <2> HIDE DEF m
  <2> QED
    BY <2>1, MovieAssumption DEF Places
<1>5. last = m.MaxSample
  <2> HIDE DEF m
  <2> QED
    BY <1>3, <1>4 DEF Whole, LastSample, Most
<1>6. /\ Movie' = [State |-> "play", MovieId |-> m.MovieId, ReadOnly |-> r, File |-> f,
                   MaxFrame |-> m.MaxFrame, MaxSample |-> last,
                   CurrentFrame |-> 0, CurrentSample |-> 0]
      /\ buffer' = [i \in Places |-> IF i <= last /\ m.data[i] # EOF THEN m.data[i] ELSE buffer[i]]
      /\ file' = FilesAfter("none") /\ UNCHANGED <<slot, polls>>
  BY DEF S9xMovieOpen
<1>7. file'[f] = m
  BY <1>6
<1> HIDE DEF m, last
<1>8. \A i \in 0..last : i \in Places /\ i <= last
  BY <1>4, <1>5, MovieAssumption DEF Places
<1>9. \A i \in 0..last : buffer'[i] = m.data[i]
  BY <1>3, <1>5, <1>6, <1>8 DEF Whole
<1>10. PlaysFile'
  BY <1>6, <1>7, <1>9 DEF PlaysFile, last
<1>11. FilesWhole'
  BY <1>6, FilesAfterWhole DEF FilesWhole
<1>12. \A i \in Places : buffer'[i] # EOF
  BY <1>6 DEF PInv, FramesFit
<1>13. FramesFit' /\ SlotsFit'
  BY <1>3, <1>5, <1>6, <1>12 DEF PInv, FramesFit, SlotsFit, Polled, Whole
<1> QED
  BY <1>10, <1>11, <1>13 DEF PInv

LEMMA GetInfoPlays == ASSUME IInv, PInv, S9xMovieGetInfo PROVE PInv'
<1>1. Movie.File \in Files /\ UNCHANGED <<Movie, buffer, fed, slot, polls>> /\ S9xMovieActive
  BY DEF IInv, HasFile, S9xMovieGetInfo
<1>2. file \in Disks /\ buffer \in [Places -> Samples] /\ Movie.MaxSample \in Places
  BY DEF IInv, TypeOK
<1>3. /\ Holds(file'[Movie.File], Movie, buffer)
      /\ \A f \in Files \ {Movie.File} : file'[f] = file[f]
  BY <1>1, <1>2, FlushHolds DEF flush_movie, S9xMovieGetInfo
<1>4. Whole(file'[Movie.File])
  BY <1>2, <1>3, HoldsWhole DEF PInv, FramesFit
<1>5. FilesWhole'
  BY <1>1, <1>3, <1>4 DEF PInv, FilesWhole
<1>6. Movie.MaxFrame \in Nat /\ Movie.MaxSample \in Nat /\ Movie.MaxFrame <= Movie.MaxSample
  BY MovieAssumption DEF IInv, TypeOK, PInv, FramesFit, Places
<1>7. LastSample(file'[Movie.File]) = Movie.MaxSample
  BY <1>3, <1>6 DEF Holds, LastSample, Most
<1>8. PlaysFile'
  BY <1>1, <1>3, <1>7 DEF PlaysFile, Holds
<1>9. FramesFit' /\ SlotsFit'
  BY <1>1 DEF PInv, FramesFit, SlotsFit, Polled
<1> QED
  BY <1>5, <1>8, <1>9 DEF PInv

LEMMA TogglePlays == ASSUME IInv, PInv, S9xMovieToggleRecState PROVE PInv'
<1>1. /\ Movie'.State = Movie.State /\ Movie'.File = Movie.File
      /\ Movie'.MaxFrame = Movie.MaxFrame /\ Movie'.MaxSample = Movie.MaxSample
      /\ Movie'.CurrentFrame = Movie.CurrentFrame
      /\ UNCHANGED <<buffer, file, slot, fed, polls>>
  BY DEF IInv, TypeOK, S9xMovieToggleRecState
<1> QED
  BY <1>1 DEF PInv, FilesWhole, FramesFit, SlotsFit, PlaysFile, Polled

LEMMA PlayPlays == ASSUME IInv, PInv, PlaySample PROVE PInv'
<1>1. /\ Movie'.State = Movie.State /\ Movie'.File = Movie.File
      /\ Movie'.MaxFrame = Movie.MaxFrame /\ Movie'.MaxSample = Movie.MaxSample
      /\ Movie.State = "play" /\ UNCHANGED <<buffer, file, slot, polls>>
  BY DEF IInv, TypeOK, PlaySample
<1> QED
  BY <1>1 DEF PInv, FilesWhole, FramesFit, SlotsFit, PlaysFile, Polled

\* A polling is never the sample after a snapshot, nor after a polling, so that
\* its frame has been recorded.
LEMMA RecordPlays ==
    ASSUME IInv, PInv, NEW s \in Samples \ {EOF}, NEW b \in BOOLEAN, Record(s, b), b \/ ~IsFrame
    PROVE  PInv'
<1> DEFINE cs == Movie.CurrentSample + 1
           cf == IF b THEN Movie.CurrentFrame + 1 ELSE Movie.CurrentFrame
           mf == IF b THEN cf ELSE Movie.MaxFrame
<1>1. /\ Movie'.State = "record" /\ Movie'.File = Movie.File /\ Movie'.MaxFrame = mf
      /\ Movie'.MaxSample = cs /\ Movie'.CurrentFrame = cf
      /\ buffer' = [buffer EXCEPT ![ptr] = s] /\ fed' = Append(fed, s)
      /\ UNCHANGED <<file, slot, polls>>
  BY DEF IInv, TypeOK, Record
<1>2. /\ Movie.State = "record"
      /\ Movie.CurrentFrame \in Nat /\ Movie.CurrentSample \in Nat
      /\ Movie.CurrentFrame <= Movie.CurrentSample
  BY DEF IInv, TypeOK, FramesWithin, Record
<1>3. Movie.MaxFrame \in Nat
  BY MovieAssumption DEF IInv, TypeOK, Places
<1>4. ASSUME ~b PROVE Movie.MaxFrame <= Movie.CurrentFrame /\ Polled(fed)
  BY <1>2, <1>4 DEF PInv, FramesFit, IsFrame
<1>5. mf <= cs
  BY <1>2, <1>3, <1>4
<1>6. ~b => ~Polled(fed)'
  <2> SUFFICES ASSUME ~b PROVE ~Polled(fed)'
    OBVIOUS
  <2>1. Len(fed) \in polls /\ polls \in Polls /\ fed \in Seq(Samples)
    BY <1>4 DEF IInv, TypeOK, PInv, FramesFit, Polled
  <2>2. Len(fed) + 1 \notin polls
    BY <2>1, MovieAssumption
  <2>3. Len(fed') = Len(fed) + 1 /\ polls' = polls
    BY <1>1, <2>1
  <2> QED
    BY <2>2, <2>3 DEF Polled
<1>7. Polled(fed)' => mf <= cf
  BY <1>2, <1>6
<1>8. \A i \in Places : buffer'[i] # EOF
  BY <1>1 DEF IInv, TypeOK, PInv, FramesFit
<1>9. FramesFit'
  BY <1>1, <1>5, <1>7, <1>8 DEF PInv, FramesFit
<1>10. FilesWhole' /\ SlotsFit' /\ PlaysFile'
  BY <1>1, <1>2 DEF PInv, FilesWhole, SlotsFit, PlaysFile, Polled
<1> QED
  BY <1>9, <1>10 DEF PInv

LEMMA FreezePlays == ASSUME IInv, PInv, IsFrame, NEW n \in Slots, Freeze(n) PROVE PInv'
<1> DEFINE new == [MovieId |-> Movie.MovieId,
                   CurrentFrame |-> Movie.CurrentFrame, MaxFrame |-> Movie.MaxFrame,
                   CurrentSample |-> Movie.CurrentSample, MaxSample |-> Movie.MaxSample,
                   data |-> [i \in 0..Movie.MaxSample |-> buffer[i]],
                   fed |-> fed]
<1>1. /\ slot' = [slot EXCEPT ![n] = IF ~S9xMovieActive THEN NoMovie ELSE new]
      /\ UNCHANGED <<Movie, buffer, file, fed, polls>>
  BY DEF Freeze
<1>2. \A i \in 0..Movie.MaxSample : i \in Places
  BY MovieAssumption DEF IInv, TypeOK, Places
<1>3. /\ new.MaxFrame <= new.MaxSample /\ ~Polled(new.fed)
      /\ \A i \in 0..new.MaxSample : new.data[i] # EOF
  BY <1>2 DEF PInv, FramesFit, IsFrame
<1> HIDE DEF new
<1>4. SlotsFit'
  <2> SUFFICES ASSUME NEW k \in Slots, slot'[k] # NoMovie
               PROVE  /\ slot'[k].MaxFrame <= slot'[k].MaxSample /\ ~Polled(slot[k].fed)'
                      /\ \A i \in 0..slot'[k].MaxSample : slot'[k].data[i] # EOF
    BY DEF SlotsFit
  <2>1. slot'[k] = new \/ slot'[k] = slot[k]
    BY <1>1 DEF IInv, SlotsInStep
  <2> QED
    BY <1>1, <1>3, <2>1 DEF PInv, SlotsFit, Polled
<1>5. FilesWhole' /\ FramesFit' /\ PlaysFile'
  BY <1>1 DEF PInv, FilesWhole, FramesFit, PlaysFile, Polled
<1> QED
  BY <1>4, <1>5 DEF PInv

LEMMA ToRecordPlays == ASSUME IInv, PInv, NEW n \in Slots, UnfreezeToRecord(n) PROVE PInv'
<1> DEFINE s == slot[n]
           b == [i \in Places |-> IF i <= s.MaxSample THEN s.data[i] ELSE buffer[i]]
           m == [Movie EXCEPT !.State = "record",
                              !.CurrentFrame = s.CurrentFrame, !.MaxFrame = s.MaxFrame,
                              !.CurrentSample = s.CurrentSample, !.MaxSample = s.MaxSample]
<1>1. /\ Movie' = m /\ buffer' = b /\ file' = flush(file, m, b)
      /\ fed' = s.fed /\ UNCHANGED <<slot, polls>>
  BY DEF UnfreezeToRecord, Loaded
<1>2. /\ Carries(s) /\ S9xMovieActive /\ s.MaxFrame <= s.MaxSample /\ ~Polled(s.fed)
      /\ \A i \in 0..s.MaxSample : s.data[i] # EOF
  BY DEF IInv, SlotsInStep, PInv, SlotsFit, UnfreezeToRecord, Loaded
<1>3. s.MaxSample \in Places
  BY <1>2 DEF Carries
<1>4. \A i \in Places : i <= s.MaxSample => i \in 0..s.MaxSample
  BY <1>3, MovieAssumption DEF Places
<1>5. b \in [Places -> Samples] /\ \A i \in Places : b[i] # EOF
  BY <1>2, <1>4 DEF Carries, IInv, TypeOK, PInv, FramesFit
<1>6. /\ m.State = "record" /\ m.File = Movie.File
      /\ m.MaxFrame = s.MaxFrame /\ m.MaxSample = s.MaxSample
  BY DEF IInv, TypeOK
<1>7. Movie.File \in Files /\ file \in Disks
  BY <1>2 DEF IInv, HasFile, TypeOK
<1> HIDE DEF b, m
<1>8. \A f \in Files \ {Movie.File} : file'[f] = file[f]
  BY <1>1, <1>3, <1>5, <1>6, <1>7, FlushHolds
<1>9. FilesWhole'
  BY <1>1, <1>6, <1>8 DEF PInv, FilesWhole
<1>10. FramesFit'
  BY <1>1, <1>2, <1>5, <1>6 DEF PInv, FramesFit, Polled
<1>11. SlotsFit' /\ PlaysFile'
  BY <1>1, <1>6 DEF PInv, SlotsFit, PlaysFile, Polled
<1> QED
  BY <1>9, <1>10, <1>11 DEF PInv

LEMMA ToPlayPlays == ASSUME IInv, PInv, NEW n \in Slots, UnfreezeToPlay(n) PROVE PInv'
<1>1. /\ Movie'.State = "play" /\ Movie'.File = Movie.File
      /\ Movie'.MaxFrame = Movie.MaxFrame /\ Movie'.MaxSample = Movie.MaxSample
      /\ file' = FilesAfter("play") /\ UNCHANGED <<buffer, slot, polls>>
  BY DEF IInv, TypeOK, UnfreezeToPlay, Loaded
<1>2. Movie.File \in Files /\ S9xMovieActive
  BY DEF IInv, HasFile, UnfreezeToPlay, Loaded
<1>3. /\ Holds(file'[Movie.File], Movie, buffer) /\ Whole(file'[Movie.File])
      /\ \A f \in Files \ {Movie.File} : file'[f] = file[f]
  <2>1. CASE Movie.State = "record"
    BY <1>1, <2>1, FlushedPlays
  <2>2. CASE Movie.State = "play"
    BY <1>1, <2>2, PlayFiles, PlayedIsWhole
  <2> QED
    BY <1>2, <2>1, <2>2 DEF IInv, TypeOK, S9xMovieActive
<1>4. FilesWhole'
  BY <1>1, <1>3 DEF PInv, FilesWhole
<1>5. Movie.MaxFrame \in Nat /\ Movie.MaxSample \in Nat /\ Movie.MaxFrame <= Movie.MaxSample
  BY MovieAssumption DEF IInv, TypeOK, PInv, FramesFit, Places
<1>6. LastSample(file'[Movie.File]) = Movie.MaxSample
  BY <1>3, <1>5 DEF Holds, LastSample, Most
<1>7. PlaysFile'
  BY <1>1, <1>3, <1>6 DEF PlaysFile, Holds
<1>8. FramesFit' /\ SlotsFit'
  BY <1>1 DEF PInv, FramesFit, SlotsFit, Polled
<1> QED
  BY <1>4, <1>7, <1>8 DEF PInv

LEMMA NextPlays == IInv /\ PInv /\ [Next]_vars => PInv'
<1> SUFFICES ASSUME IInv, PInv, [Next]_vars PROVE PInv'
  OBVIOUS
<1>1. CASE PlayEnds
  BY <1>1, StopsPlays DEF PlayEnds
<1>2. CASE PlaySample
  BY <1>2, PlayPlays
<1>3. CASE RecordSample
  <2>1. PICK i \in Inputs : Record(i, IsFrame)
    BY <1>3 DEF RecordSample
  <2>2. IsFrame \in BOOLEAN /\ i \in Samples \ {EOF}
    BY SamplesDiffer DEF IsFrame, Samples
  <2> QED
    BY <2>1, <2>2, RecordPlays
<1>4. CASE IsFrame /\ Users
  <2>1. CASE \E f \in Files : S9xMovieCreate(f)
    BY <2>1, CreatePlays
  <2>2. CASE \E f \in Files, r \in BOOLEAN : S9xMovieOpen(f, r)
    BY <2>2, OpenPlays
  <2>3. CASE S9xMovieStop \/ PlayReset
    BY <2>3, StopsPlays DEF S9xMovieStop, PlayReset
  <2>4. CASE S9xMovieGetInfo
    BY <2>4, GetInfoPlays
  <2>5. CASE S9xMovieToggleRecState
    BY <2>5, TogglePlays
  <2>6. CASE RecordReset
    <3>1. Reset \in Samples \ {EOF}
      BY DEF Samples, Reset, EOF
    <3> QED
      BY <2>6, <3>1, RecordPlays DEF RecordReset
  <2>7. CASE \E n \in Slots : Freeze(n)
    BY <1>4, <2>7, FreezePlays
  <2>8. CASE \E n \in Slots : UnfreezeToRecord(n)
    BY <2>8, ToRecordPlays
  <2>9. CASE \E n \in Slots : UnfreezeToPlay(n)
    BY <2>9, ToPlayPlays
  <2> QED
    BY <1>4, <2>1, <2>2, <2>3, <2>4, <2>5, <2>6, <2>7, <2>8, <2>9 DEF Users
<1>5. CASE UNCHANGED vars
  BY <1>5 DEF vars, PInv, FilesWhole, FramesFit, SlotsFit, PlaysFile, Polled
<1> QED
  BY <1>1, <1>2, <1>3, <1>4, <1>5 DEF Next

\* A movie that is played is the one in its file, whatever was recorded into the
\* buffer, or loaded into it from snapshots, before (change_state, flush_movie).
THEOREM PlaysFileInv == Spec => []PlaysFile
<1>1. Init => IInv /\ PInv
  BY InitInv, InitPlays
<1>2. IInv /\ PInv /\ [Next]_vars => IInv' /\ PInv'
  BY NextInv, NextPlays
<1>3. PInv => PlaysFile
  BY DEF PInv
<1> QED
  BY <1>1, <1>2, <1>3, PTL DEF Spec
-----------------------------------------------------------------------------
(* What a file plays is what the machine was given while it was recorded. For *)
(* that CurrentFrame has to be the FramesOf of the history, also in every     *)
(* snapshot.                                                                  *)

\* Polled and FramesOf of a game that polls as p says.
PolledIn(p, s) == s # <<>> /\ Len(s) \in p /\ s[Len(s)] # Reset

FrameStarts(p, s) == {i \in 1..Len(s) : ~PolledIn(p, SubSeq(s, 1, i - 1))}

FramesIn(p, s) == Cardinality(FrameStarts(p, s))

LEMMA FramesAre ==
    /\ \A s : FramesOf(s) = FramesIn(polls, s)
    /\ \A s : Polled(s) = PolledIn(polls, s)
BY DEF FramesOf, FramesIn, FrameStarts, Polled, PolledIn

LEMMA NoFrames == ASSUME NEW p PROVE FramesIn(p, <<>>) = 0
<1>1. FrameStarts(p, <<>>) = {}
  BY DEF FrameStarts
<1> QED
  BY <1>1, FS_EmptySet DEF FramesIn

\* A sample is a frame unless the game polls for it.
LEMMA FrameCounted ==
    ASSUME NEW p, NEW S, NEW s, s \in Seq(S), NEW x, x \in S
    PROVE  /\ FramesIn(p, s) \in Nat
           /\ FramesIn(p, Append(s, x))
                = IF PolledIn(p, s) THEN FramesIn(p, s) ELSE FramesIn(p, s) + 1
<1> DEFINE n == Len(s)
           t == Append(s, x)
<1>1. n \in Nat /\ Len(t) = n + 1 /\ t \in Seq(S)
  OBVIOUS
<1>2. IsFiniteSet(FrameStarts(p, s)) /\ n + 1 \notin FrameStarts(p, s)
  <2>1. IsFiniteSet(1..n) /\ FrameStarts(p, s) \subseteq 1..n
    BY <1>1, FS_Interval DEF FrameStarts
  <2> QED
    BY <1>1, <2>1, FS_Subset
<1>3. FramesIn(p, s) \in Nat
  BY <1>2, FS_CardinalityType DEF FramesIn
<1>4. ASSUME NEW i \in 1..n + 1
      PROVE  SubSeq(t, 1, i - 1) = SubSeq(s, 1, i - 1)
  <2> DEFINE a == SubSeq(t, 1, i - 1)
             b == SubSeq(s, 1, i - 1)
  <2>1. i - 1 \in 0..n
    BY <1>1
  <2>2. a = [j \in 1..i - 1 |-> t[j]] /\ b = [j \in 1..i - 1 |-> s[j]]
    BY <1>1, <2>1
  <2>3. \A j \in 1..i - 1 : t[j] = s[j]
    BY <1>1, <2>1
  <2> QED
    BY <2>2, <2>3
<1>5. SubSeq(s, 1, n + 1 - 1) = s
  BY <1>1
<1>6. \A i \in 1..n + 1 : PolledIn(p, SubSeq(t, 1, i - 1)) = PolledIn(p, SubSeq(s, 1, i - 1))
  BY <1>4
<1>7. FrameStarts(p, t)
        = FrameStarts(p, s) \cup (IF PolledIn(p, s) THEN {} ELSE {n + 1})
  <2>1. FrameStarts(p, t) = {i \in 1..n + 1 : ~PolledIn(p, SubSeq(s, 1, i - 1))}
    BY <1>1, <1>6 DEF FrameStarts
  <2>2. 1..n + 1 = 1..n \cup {n + 1}
    BY <1>1
  <2>3. PolledIn(p, SubSeq(s, 1, n + 1 - 1)) = PolledIn(p, s)
    BY <1>5
  <2> HIDE DEF t
  <2> QED
    BY <2>1, <2>2, <2>3 DEF FrameStarts
<1>8. CASE PolledIn(p, s)
  <2>1. FrameStarts(p, t) = FrameStarts(p, s)
    BY <1>7, <1>8
  <2> QED
    BY <1>3, <1>8, <2>1 DEF FramesIn
<1>9. CASE ~PolledIn(p, s)
  <2>1. FrameStarts(p, t) = FrameStarts(p, s) \cup {n + 1}
    BY <1>7, <1>9
  <2>2. Cardinality(FrameStarts(p, s) \cup {n + 1}) = Cardinality(FrameStarts(p, s)) + 1
    BY <1>2, FS_AddElement
  <2> QED
    BY <1>3, <1>9, <2>1, <2>2 DEF FramesIn
<1> QED
  BY <1>8, <1>9

\* A file of which the machine, while it was recorded, was given h.
Replay(t, h, frames) ==
    /\ Len(h) <= t.MaxSample
    /\ \A i \in 1..Len(h) : t.data[i] = h[i]
    /\ frames <= t.MaxFrame

Replays ==
    \A f \in Files :
        file[f] \in Tapes /\ ~(Movie.State = "record" /\ Movie.File = f)
            => Replay(file[f], kept[f], FramesIn(polls, kept[f]))

\* The frames of the movie are those the machine was given.
Counted ==
    S9xMovieActive =>
        /\ FramesIn(polls, fed) = Movie.CurrentFrame
        /\ Movie.CurrentFrame <= Movie.MaxFrame

SlotsCounted ==
    \A n \in Slots : slot[n] # NoMovie =>
        FramesIn(polls, slot[n].fed) = slot[n].CurrentFrame

RInv == kept \in [Files -> Seq(Samples)] /\ Replays /\ Counted /\ SlotsCounted

\* A file in which the movie in memory is, replays what was recorded of it.
LEMMA RecordedReplays ==
    ASSUME IInv, RInv, S9xMovieActive, NEW t, Holds(t, Movie, buffer)
    PROVE  Replay(t, fed, FramesIn(polls, fed))
<1>1. /\ Len(fed) = Movie.CurrentSample /\ Movie.CurrentSample <= Movie.MaxSample
      /\ \A i \in 1..Len(fed) : buffer[i] = fed[i]
      /\ Movie.CurrentSample \in Nat
  BY DEF IInv, TypeOK, InStep, FramesWithin
<1>2. Movie.MaxSample \in Nat
  BY MovieAssumption DEF IInv, TypeOK, Places
<1>3. FramesIn(polls, fed) <= Movie.MaxFrame
  BY DEF RInv, Counted
<1> QED
  BY <1>1, <1>2, <1>3 DEF Holds, Replay

\* One in which a movie is that replays h, replays h.
LEMMA SameReplays ==
    ASSUME NEW t, NEW u, NEW h, NEW k, NEW m, NEW samples, NEW S, h \in Seq(S),
           m.MaxSample \in Nat, Holds(t, m, samples), Holds(u, m, samples), Replay(t, h, k)
    PROVE  Replay(u, h, k)
<1>1. Len(h) <= m.MaxSample /\ Len(h) \in Nat
  BY DEF Holds, Replay
<1>2. \A i \in 1..Len(h) : i \in 0..m.MaxSample
  BY <1>1
<1> QED
  BY <1>1, <1>2 DEF Holds, Replay

\* After a movie has stopped or goes over into playing, every file replays what
\* the machine was given while it was recorded.
LEMMA AfterReplays ==
    ASSUME IInv, PInv, RInv, NEW new, new \in {"none", "play"}, NEW f, f \in Files,
           FilesAfter(new)[f] \in Tapes
    PROVE  Replay(FilesAfter(new)[f], KeptAfter(new)[f], FramesIn(polls, KeptAfter(new)[f]))
<1>1. kept \in [Files -> Seq(Samples)] /\ file \in Disks
  BY DEF RInv, IInv, TypeOK
<1>2. CASE ~S9xMovieActive
  <2>1. FilesAfter(new) = file /\ KeptAfter(new) = kept
    BY <1>2 DEF S9xMovieActive, FilesAfter, KeptAfter
  <2> QED
    BY <1>2, <2>1 DEF S9xMovieActive, RInv, Replays
<1>3. CASE S9xMovieActive /\ f # Movie.File
  <2>1. FilesAfter(new)[f] = file[f] /\ KeptAfter(new)[f] = kept[f]
    BY <1>1, <1>3, FilesAfterHolds DEF KeptAfter
  <2> QED
    BY <1>3, <2>1 DEF RInv, Replays
<1>4. CASE Movie.State = "record" /\ f = Movie.File
  <2>1. S9xMovieActive /\ KeptAfter(new)[f] = fed
    BY <1>1, <1>4 DEF S9xMovieActive, KeptAfter
  <2>2. Holds(FilesAfter(new)[f], Movie, buffer)
    BY <1>4, <2>1, FilesAfterHolds
  <2> QED
    BY <2>1, <2>2, RecordedReplays
<1>5. CASE Movie.State = "play" /\ f = Movie.File
  <2>1. S9xMovieActive /\ KeptAfter(new) = kept
    BY <1>5 DEF S9xMovieActive, KeptAfter
  <2>2. Holds(FilesAfter(new)[f], Movie, buffer)
    BY <1>5, <2>1, FilesAfterHolds
  <2>3. Holds(file[f], Movie, buffer) /\ file[f] \in Tapes
    BY <1>5, <2>1, PlayedIsWhole DEF IInv, HasFile
  <2>4. Replay(file[f], kept[f], FramesIn(polls, kept[f]))
    BY <1>5, <2>3 DEF RInv, Replays
  <2>5. Movie.MaxSample \in Nat /\ kept[f] \in Seq(Samples)
    BY <1>1, MovieAssumption DEF IInv, TypeOK, Places
  <2> QED
    BY <2>1, <2>2, <2>3, <2>4, <2>5, SameReplays
<1> QED
  BY <1>2, <1>3, <1>4, <1>5 DEF IInv, TypeOK, S9xMovieActive

LEMMA KeptAfterType ==
    ASSUME IInv, RInv, NEW new PROVE KeptAfter(new) \in [Files -> Seq(Samples)]
BY DEF IInv, TypeOK, RInv, KeptAfter

LEMMA InitReplays == Init => RInv
<1> SUFFICES ASSUME Init PROVE RInv
  OBVIOUS
<1>1. \A f \in Files : file[f] = NoMovie /\ NoMovie \notin Tapes
  BY DEF Init, NoMovie, Tapes
<1>2. kept \in [Files -> Seq(Samples)]
  BY DEF Init
<1>3. Counted /\ SlotsCounted
  BY DEF Init, Counted, SlotsCounted, S9xMovieActive
<1> QED
  BY <1>1, <1>2, <1>3 DEF RInv, Replays

LEMMA StopsReplays == ASSUME IInv, PInv, RInv, Stops PROVE RInv'
<1>1. /\ Movie'.State = "none" /\ file' = FilesAfter("none") /\ kept' = KeptAfter("none")
      /\ UNCHANGED <<slot, polls>>
  BY DEF IInv, TypeOK, Stops, Stopped
<1>2. kept' \in [Files -> Seq(Samples)]
  BY <1>1, KeptAfterType
<1>3. Replays'
  BY <1>1, AfterReplays DEF Replays
<1>4. Counted' /\ SlotsCounted'
  BY <1>1 DEF RInv, Counted, SlotsCounted, S9xMovieActive
<1> QED
  BY <1>2, <1>3, <1>4 DEF RInv

\* A new movie has no frames, and is not compared while it is recorded.
LEMMA CreateReplays ==
    ASSUME IInv, PInv, RInv, NEW f \in Files, S9xMovieCreate(f) PROVE RInv'
<1>1. /\ Movie'.State = "record" /\ Movie'.File = f
      /\ Movie'.MaxFrame = 0 /\ Movie'.CurrentFrame = 0
      /\ fed' = <<>> /\ UNCHANGED <<slot, polls>>
  BY DEF S9xMovieCreate
<1>2. FilesAfter("none") \in Disks /\ KeptAfter("none") \in [Files -> Seq(Samples)]
  BY FilesAfterType, KeptAfterType
<1>3. kept' = [KeptAfter("none") EXCEPT ![f] = <<>>]
  BY DEF S9xMovieCreate
<1>4. kept' \in [Files -> Seq(Samples)]
  BY <1>2, <1>3
<1>5. \A g \in Files \ {f} : file'[g] = FilesAfter("none")[g] /\ kept'[g] = KeptAfter("none")[g]
  BY <1>2 DEF S9xMovieCreate, Disks
<1>6. Replays'
  BY <1>1, <1>5, AfterReplays DEF Replays
<1>7. FramesIn(polls', fed') = 0
  BY <1>1, NoFrames
<1>8. Counted' /\ SlotsCounted'
  BY <1>1, <1>7 DEF RInv, Counted, SlotsCounted
<1> QED
  BY <1>4, <1>6, <1>8 DEF RInv

LEMMA OpenReplays ==
    ASSUME IInv, PInv, RInv, NEW f \in Files, NEW r \in BOOLEAN, S9xMovieOpen(f, r) PROVE RInv'
<1>1. /\ Movie'.State = "play" /\ Movie'.CurrentFrame = 0 /\ fed' = <<>>
      /\ Movie'.MaxFrame = file'[f].MaxFrame
      /\ file' = FilesAfter("none") /\ kept' = KeptAfter("none")
      /\ UNCHANGED <<slot, polls>>
  BY DEF S9xMovieOpen
<1>2. kept' \in [Files -> Seq(Samples)]
  BY <1>1, KeptAfterType
<1>3. Replays'
  BY <1>1, AfterReplays DEF Replays
<1>4. Movie'.MaxFrame \in Nat
  BY OpenInv, MovieAssumption DEF IInv, TypeOK, Places
<1>5. FramesIn(polls', fed') = 0
  BY <1>1, NoFrames
<1>6. Counted' /\ SlotsCounted'
  BY <1>1, <1>4, <1>5 DEF RInv, Counted, SlotsCounted
<1> QED
  BY <1>2, <1>3, <1>6 DEF RInv

\* The file of a movie in play is written as it is.
LEMMA GetInfoReplays == ASSUME IInv, PInv, RInv, S9xMovieGetInfo PROVE RInv'
<1>1. /\ Movie.File \in Files /\ S9xMovieActive
      /\ UNCHANGED <<Movie, fed, slot, polls, kept>>
  BY DEF IInv, HasFile, S9xMovieGetInfo
<1>2. file \in Disks /\ buffer \in [Places -> Samples] /\ Movie.MaxSample \in Places
  BY DEF IInv, TypeOK
<1>3. /\ Holds(file'[Movie.File], Movie, buffer)
      /\ \A f \in Files \ {Movie.File} : file'[f] = file[f]
  BY <1>1, <1>2, FlushHolds DEF flush_movie, S9xMovieGetInfo
<1>4. ASSUME Movie.State = "play"
      PROVE  Replay(file'[Movie.File], kept[Movie.File], FramesIn(polls, kept[Movie.File]))
  <2>1. Holds(file[Movie.File], Movie, buffer) /\ file[Movie.File] \in Tapes
    BY <1>1, <1>4, PlayedIsWhole DEF IInv, HasFile
  <2>2. Replay(file[Movie.File], kept[Movie.File], FramesIn(polls, kept[Movie.File]))
    BY <1>1, <1>4, <2>1 DEF RInv, Replays
  <2>3. Movie.MaxSample \in Nat /\ kept[Movie.File] \in Seq(Samples)
    BY <1>1, <1>2, MovieAssumption DEF RInv, Places
  <2> QED
    BY <1>3, <2>1, <2>2, <2>3, SameReplays
<1>5. Movie.State \in {"record", "play"}
  BY <1>1 DEF IInv, TypeOK, S9xMovieActive
<1>6. Replays'
  BY <1>1, <1>3, <1>4, <1>5 DEF RInv, Replays
<1>7. Counted' /\ SlotsCounted'
  BY <1>1 DEF RInv, Counted, SlotsCounted, S9xMovieActive
<1> QED
  BY <1>1, <1>6, <1>7 DEF RInv

LEMMA ToggleReplays == ASSUME IInv, RInv, S9xMovieToggleRecState PROVE RInv'
<1>1. /\ Movie'.State = Movie.State /\ Movie'.File = Movie.File
      /\ Movie'.MaxFrame = Movie.MaxFrame /\ Movie'.CurrentFrame = Movie.CurrentFrame
      /\ UNCHANGED <<file, slot, fed, polls, kept>>
  BY DEF IInv, TypeOK, S9xMovieToggleRecState
<1> QED
  BY <1>1 DEF RInv, Replays, Counted, SlotsCounted, S9xMovieActive

LEMMA PlayReplays == ASSUME IInv, RInv, PlaySample PROVE RInv'
<1>1. /\ Movie'.State = Movie.State /\ Movie'.File = Movie.File
      /\ Movie'.MaxFrame = Movie.MaxFrame /\ Movie'.CurrentFrame = Frames(Movie.CurrentFrame)
      /\ fed' = Append(fed, buffer[ptr])
      /\ UNCHANGED <<file, slot, polls, kept>>
  BY DEF IInv, TypeOK, PlaySample
<1>2. /\ Movie.State = "play" /\ Movie.MaxFrame \in Nat /\ Movie.MaxSample \in Nat
      /\ Movie.CurrentFrame \in Nat /\ Movie.CurrentSample \in Nat
      /\ Movie.CurrentFrame < Movie.MaxFrame /\ Movie.CurrentSample < Movie.MaxSample
  BY MovieAssumption DEF IInv, TypeOK, PlaySample, AtEnd, Places
<1>3. fed \in Seq(Samples) /\ buffer[ptr] \in Samples
  <2>1. ptr = Movie.CurrentSample + 1
    BY <1>2 DEF IInv, InStep, S9xMovieActive
  <2>2. Movie.MaxSample <= MaxSamples
    BY MovieAssumption DEF IInv, TypeOK, Places
  <2>3. ptr \in Places
    BY <1>2, <2>1, <2>2, MovieAssumption DEF Places
  <2> QED
    BY <2>3 DEF IInv, TypeOK
<1>4. FramesIn(polls, fed) = Movie.CurrentFrame
  BY <1>2 DEF RInv, Counted, S9xMovieActive
<1>5. FramesIn(polls, Append(fed, buffer[ptr])) = Frames(Movie.CurrentFrame)
  BY <1>3, <1>4, FrameCounted, FramesAre DEF Frames, IsFrame
<1>6. Counted'
  BY <1>1, <1>2, <1>5 DEF Counted, Frames
<1>7. Replays' /\ SlotsCounted'
  BY <1>1 DEF RInv, Replays, SlotsCounted
<1> QED
  BY <1>1, <1>6, <1>7 DEF RInv

\* A sample that is recorded counts as a frame when the game does not poll.
LEMMA RecordReplays ==
    ASSUME IInv, RInv, NEW s \in Samples, NEW b \in BOOLEAN, Record(s, b), b = IsFrame
    PROVE  RInv'
<1> DEFINE cf == IF b THEN Movie.CurrentFrame + 1 ELSE Movie.CurrentFrame
           mf == IF b THEN cf ELSE Movie.MaxFrame
<1>1. /\ Movie'.State = "record" /\ Movie'.File = Movie.File
      /\ Movie'.MaxFrame = mf /\ Movie'.CurrentFrame = cf
      /\ fed' = Append(fed, s)
      /\ UNCHANGED <<file, slot, polls, kept>>
  BY DEF IInv, TypeOK, Record
<1>2. /\ Movie.State = "record" /\ Movie.CurrentFrame \in Nat /\ Movie.MaxFrame \in Nat
      /\ fed \in Seq(Samples)
  BY MovieAssumption DEF IInv, TypeOK, Places, Record
<1>3. FramesIn(polls, fed) = Movie.CurrentFrame /\ Movie.CurrentFrame <= Movie.MaxFrame
  BY <1>2 DEF RInv, Counted, S9xMovieActive
<1>4. FramesIn(polls, Append(fed, s)) = cf
  <2>1. b = ~PolledIn(polls, fed)
    BY FramesAre DEF IsFrame
  <2>2. FramesIn(polls, Append(fed, s))
          = IF PolledIn(polls, fed) THEN Movie.CurrentFrame ELSE Movie.CurrentFrame + 1
    BY <1>2, <1>3, FrameCounted
  <2>3. CASE b = TRUE
    BY <2>1, <2>2, <2>3
  <2>4. CASE b = FALSE
    BY <2>1, <2>2, <2>4
  <2> QED
    BY <2>3, <2>4
<1>5. cf <= mf
  BY <1>2, <1>3
<1>6. Counted'
  BY <1>1, <1>4, <1>5 DEF Counted
<1>7. Replays' /\ SlotsCounted'
  BY <1>1, <1>2 DEF RInv, Replays, SlotsCounted
<1> QED
  BY <1>1, <1>6, <1>7 DEF RInv

LEMMA FreezeReplays == ASSUME IInv, RInv, NEW n \in Slots, Freeze(n) PROVE RInv'
<1> DEFINE new == [MovieId |-> Movie.MovieId,
                   CurrentFrame |-> Movie.CurrentFrame, MaxFrame |-> Movie.MaxFrame,
                   CurrentSample |-> Movie.CurrentSample, MaxSample |-> Movie.MaxSample,
                   data |-> [i \in 0..Movie.MaxSample |-> buffer[i]],
                   fed |-> fed]
<1>1. /\ slot' = [slot EXCEPT ![n] = IF ~S9xMovieActive THEN NoMovie ELSE new]
      /\ UNCHANGED <<Movie, file, fed, polls, kept>>
  BY DEF Freeze
<1>2. S9xMovieActive => FramesIn(polls, new.fed) = new.CurrentFrame
  BY DEF RInv, Counted
<1> HIDE DEF new
<1>3. SlotsCounted'
  <2> SUFFICES ASSUME NEW k \in Slots, slot'[k] # NoMovie
               PROVE  FramesIn(polls', slot'[k].fed) = slot'[k].CurrentFrame
    BY DEF SlotsCounted
  <2>1. (S9xMovieActive /\ slot'[k] = new) \/ slot'[k] = slot[k]
    BY <1>1 DEF IInv, SlotsInStep
  <2> QED
    BY <1>1, <1>2, <2>1 DEF RInv, SlotsCounted
<1>4. Replays' /\ Counted'
  BY <1>1 DEF RInv, Replays, Counted, S9xMovieActive
<1> QED
  BY <1>1, <1>3, <1>4 DEF RInv

\* A snapshot whose movie has fewer frames than have been played is refused.
LEMMA ToRecordReplays ==
    ASSUME IInv, PInv, RInv, NEW n \in Slots, UnfreezeToRecord(n) PROVE RInv'
<1> DEFINE s == slot[n]
           b == [i \in Places |-> IF i <= s.MaxSample THEN s.data[i] ELSE buffer[i]]
           m == [Movie EXCEPT !.State = "record",
                              !.CurrentFrame = s.CurrentFrame, !.MaxFrame = s.MaxFrame,
                              !.CurrentSample = s.CurrentSample, !.MaxSample = s.MaxSample]
<1>1. /\ Movie' = m /\ file' = flush(file, m, b)
      /\ fed' = s.fed /\ UNCHANGED <<slot, polls, kept>>
  BY DEF UnfreezeToRecord, Loaded
<1>2. Carries(s) /\ S9xMovieActive /\ s # NoMovie /\ ~WrongMovie(s)
  BY DEF IInv, SlotsInStep, UnfreezeToRecord, Loaded
<1>3. s.MaxSample \in Places /\ s.MaxFrame \in Nat /\ s.CurrentFrame \in Nat
  BY <1>2, MovieAssumption DEF Carries, Places
<1>4. s.CurrentFrame <= s.MaxFrame
  BY <1>2, <1>3 DEF WrongMovie
<1>5. \A i \in Places : i <= s.MaxSample => i \in 0..s.MaxSample
  BY <1>3, MovieAssumption DEF Places
<1>6. b \in [Places -> Samples]
  BY <1>2, <1>5 DEF Carries, IInv, TypeOK
<1>7. /\ m.State = "record" /\ m.File = Movie.File /\ m.MaxSample = s.MaxSample
      /\ m.MaxFrame = s.MaxFrame /\ m.CurrentFrame = s.CurrentFrame
  BY DEF IInv, TypeOK
<1>8. Movie.File \in Files /\ file \in Disks
  BY <1>2 DEF IInv, HasFile, TypeOK
<1> HIDE DEF b, m
<1>9. \A f \in Files \ {Movie.File} : file'[f] = file[f]
  BY <1>1, <1>3, <1>6, <1>7, <1>8, FlushHolds
<1>10. Replays'
  BY <1>1, <1>7, <1>9 DEF RInv, Replays
<1>11. FramesIn(polls, s.fed) = s.CurrentFrame
  BY <1>2 DEF RInv, SlotsCounted
<1>12. Counted' /\ SlotsCounted'
  BY <1>1, <1>4, <1>7, <1>11 DEF RInv, Counted, SlotsCounted
<1> QED
  BY <1>1, <1>10, <1>12 DEF RInv

LEMMA ToPlayReplays ==
    ASSUME IInv, PInv, RInv, NEW n \in Slots, UnfreezeToPlay(n) PROVE RInv'
<1> DEFINE s == slot[n]
<1>1. /\ Movie'.State = "play" /\ Movie'.CurrentFrame = s.CurrentFrame
      /\ Movie'.MaxFrame = Movie.MaxFrame
      /\ file' = FilesAfter("play") /\ kept' = KeptAfter("play")
      /\ fed' = s.fed /\ UNCHANGED <<slot, polls>>
  BY DEF IInv, TypeOK, UnfreezeToPlay, Loaded
<1>2. Carries(s) /\ s # NoMovie /\ ~Inconsistent(s)
  BY DEF IInv, SlotsInStep, UnfreezeToPlay, Loaded
<1>3. s.CurrentFrame \in Nat /\ Movie.MaxFrame \in Nat
  BY <1>2, MovieAssumption DEF Carries, IInv, TypeOK, Places
<1>4. s.CurrentFrame <= Movie.MaxFrame
  BY <1>2, <1>3 DEF Inconsistent
<1>5. kept' \in [Files -> Seq(Samples)]
  BY <1>1, KeptAfterType
<1>6. Replays'
  BY <1>1, AfterReplays DEF Replays
<1>7. FramesIn(polls, s.fed) = s.CurrentFrame
  BY <1>2 DEF RInv, SlotsCounted
<1>8. Counted' /\ SlotsCounted'
  BY <1>1, <1>4, <1>7 DEF RInv, Counted, SlotsCounted
<1> QED
  BY <1>5, <1>6, <1>8 DEF RInv

LEMMA NextReplays == IInv /\ PInv /\ RInv /\ [Next]_vars => RInv'
<1> SUFFICES ASSUME IInv, PInv, RInv, [Next]_vars PROVE RInv'
  OBVIOUS
<1>1. CASE PlayEnds
  BY <1>1, StopsReplays DEF PlayEnds
<1>2. CASE PlaySample
  BY <1>2, PlayReplays
<1>3. CASE RecordSample
  <2>1. PICK i \in Inputs : Record(i, IsFrame)
    BY <1>3 DEF RecordSample
  <2>2. IsFrame \in BOOLEAN /\ i \in Samples
    BY DEF IsFrame, Samples
  <2> QED
    BY <2>1, <2>2, RecordReplays
<1>4. CASE IsFrame /\ Users
  <2>1. CASE \E f \in Files : S9xMovieCreate(f)
    BY <2>1, CreateReplays
  <2>2. CASE \E f \in Files, r \in BOOLEAN : S9xMovieOpen(f, r)
    BY <2>2, OpenReplays
  <2>3. CASE S9xMovieStop \/ PlayReset
    BY <2>3, StopsReplays DEF S9xMovieStop, PlayReset
  <2>4. CASE S9xMovieGetInfo
    BY <2>4, GetInfoReplays
  <2>5. CASE S9xMovieToggleRecState
    BY <2>5, ToggleReplays
  <2>6. CASE RecordReset
    <3>1. Reset \in Samples /\ IsFrame = TRUE
      BY <1>4 DEF Samples, IsFrame
    <3> QED
      BY <2>6, <3>1, RecordReplays DEF RecordReset
  <2>7. CASE \E n \in Slots : Freeze(n)
    BY <2>7, FreezeReplays
  <2>8. CASE \E n \in Slots : UnfreezeToRecord(n)
    BY <2>8, ToRecordReplays
  <2>9. CASE \E n \in Slots : UnfreezeToPlay(n)
    BY <2>9, ToPlayReplays
  <2> QED
    BY <1>4, <2>1, <2>2, <2>3, <2>4, <2>5, <2>6, <2>7, <2>8, <2>9 DEF Users
<1>5. CASE UNCHANGED vars
  BY <1>5 DEF vars, RInv, Replays, Counted, SlotsCounted, S9xMovieActive
<1> QED
  BY <1>1, <1>2, <1>3, <1>4, <1>5 DEF Next

LEMMA ReplaysIsFileReplays ==
    ASSUME IInv, RInv, NEW f, f \in Files, file[f] # NoMovie,
           ~(Movie.State = "record" /\ Movie.File = f)
    PROVE  /\ Len(kept[f]) <= LastSample(file[f])
           /\ \A i \in 1..Len(kept[f]) : file[f].data[i] = kept[f][i]
           /\ FramesOf(kept[f]) <= file[f].MaxFrame
<1>1. file[f] \in Tapes
  BY DEF IInv, TypeOK, Disks
<1>2. Replay(file[f], kept[f], FramesIn(polls, kept[f]))
  BY <1>1 DEF RInv, Replays
<1>3. file[f].MaxSample \in Nat /\ file[f].MaxFrame \in Nat /\ Len(kept[f]) \in Nat
  <2>1. file[f].MaxSample \in Places /\ file[f].MaxFrame \in Places
    BY <1>1 DEF Tapes
  <2>2. kept[f] \in Seq(Samples)
    BY DEF RInv
  <2> QED
    BY <2>1, <2>2, MovieAssumption DEF Places
<1>4. file[f].MaxSample <= LastSample(file[f]) /\ LastSample(file[f]) \in Nat
  BY <1>3 DEF LastSample, Most
<1> QED
  BY <1>2, <1>3, <1>4, FramesAre DEF Replay

\* A file that is no longer recorded plays what the machine was given while it
\* was, whatever snapshots were loaded meanwhile, to its last frame (flush_movie,
\* truncate_movie, S9xMovieUnfreeze).
THEOREM FileReplaysInv == Spec => []FileReplays
<1>1. Init => IInv /\ PInv /\ RInv
  BY InitInv, InitPlays, InitReplays
<1>2. IInv /\ PInv /\ RInv /\ [Next]_vars => IInv' /\ PInv' /\ RInv'
  BY NextInv, NextPlays, NextReplays
<1>3. IInv /\ RInv => FileReplays
  BY ReplaysIsFileReplays DEF FileReplays
<1> QED
  BY <1>1, <1>2, <1>3, PTL DEF Spec

-----------------------------------------------------------------------------
(* Cheats. *)

Memory == [Addresses -> Bytes]

Cheat == [address : Addresses, byte : Bytes, conditional : BOOLEAN, cond_byte : Bytes,
          saved_byte : Bytes, cond_true : BOOLEAN, enabled : BOOLEAN]

Group == [enabled : BOOLEAN, cheat : Seq(Cheat)]

Groups == Seq(Group)

\* What is done to a cheat, by name.
Kinds == {"update", "off", "on", "mark"}

EnableOff(m, c) == S9xEnableCheat(m, c, FALSE)

Do(w, m, c) == IF w = "update" THEN S9xUpdateCheatInMemory(m, c)
               ELSE IF w = "off" THEN S9xDisableCheat(m, c)
               ELSE IF w = "on" THEN EnableOn(m, c)
               ELSE EnableOff(m, c)

\* The cheats whose address it may write to.
Touches(w, c) == IF w = "update" THEN c.enabled
                 ELSE IF w = "off" THEN on /\ c.enabled
                 ELSE IF w = "on" THEN ~c.enabled
                 ELSE FALSE

SameCode(c, d) == /\ d.address = c.address /\ d.byte = c.byte
                  /\ d.conditional = c.conditional /\ d.cond_byte = c.cond_byte

\* What is done to a cheat touches no other address and keeps the code.
Decent(m, c, u) == /\ u.mem \in Memory /\ u.cheat \in Cheat /\ SameCode(c, u.cheat)
                   /\ \A a \in Addresses \ {c.address} : u.mem[a] = m[a]

Left(m, c, u) == u.mem = m /\ u.cheat = c

LEMMA PutFacts ==
    ASSUME NEW m \in Memory, NEW c \in Cheat, NEW b \in Bytes
    PROVE  /\ Put(m, c, b) \in Memory
           /\ Put(m, c, b)[c.address] = b
           /\ \A a \in Addresses \ {c.address} : Put(m, c, b)[a] = m[a]
BY DEF Put, Memory, Cheat

LEMMA UpdateFacts ==
    ASSUME NEW m \in Memory, NEW c \in Cheat
    PROVE  LET u == S9xUpdateCheatInMemory(m, c)
           IN  /\ Decent(m, c, u)
               /\ u.cheat.enabled = c.enabled
               /\ ~c.enabled => Left(m, c, u)
<1> DEFINE byte == m[c.address]
           met == c.conditional /\ byte = c.cond_byte
           u == S9xUpdateCheatInMemory(m, c)
           c1 == [c EXCEPT !.saved_byte = byte, !.cond_true = FALSE]
           c2 == [c EXCEPT !.saved_byte = byte, !.cond_true = met \/ @]
<1>1. byte \in Bytes /\ c.byte \in Bytes
  BY DEF Memory, Cheat
<1>2. /\ c1 \in Cheat /\ SameCode(c, c1) /\ c1.enabled = c.enabled
      /\ c2 \in Cheat /\ SameCode(c, c2) /\ c2.enabled = c.enabled
  BY <1>1 DEF Cheat, SameCode
<1>3. SameCode(c, c)
  BY DEF SameCode
<1>4. \/ u.mem = m /\ u.cheat = c
      \/ c.enabled /\ u.mem = m /\ u.cheat = c1
      \/ c.enabled /\ u.mem = Put(m, c, c.byte) /\ u.cheat = c2
  BY DEF S9xUpdateCheatInMemory, After
<1> HIDE DEF u, c1, c2, byte
<1>5. CASE u.mem = m /\ u.cheat = c
  BY <1>3, <1>5 DEF u, Decent, Left
<1>6. CASE c.enabled /\ u.mem = m /\ u.cheat = c1
  BY <1>2, <1>6 DEF u, Decent, Left
<1>7. CASE c.enabled /\ u.mem = Put(m, c, c.byte) /\ u.cheat = c2
  <2>1. /\ Put(m, c, c.byte) \in Memory
        /\ \A a \in Addresses \ {c.address} : Put(m, c, c.byte)[a] = m[a]
    BY <1>1, PutFacts
  <2> QED
    BY <1>2, <1>7, <2>1 DEF u, Decent, Left
<1> QED
  BY <1>4, <1>5, <1>6, <1>7 DEF u, Decent, Left

LEMMA DisableFacts ==
    ASSUME NEW m \in Memory, NEW c \in Cheat
    PROVE  LET u == S9xDisableCheat(m, c)
           IN  /\ Decent(m, c, u)
               /\ u.cheat.enabled = FALSE
               /\ ~on => u.mem = m
               /\ ~c.enabled => Left(m, c, u)
<1> DEFINE u == S9xUpdateCheatInMemory(m, c)
           off == [u.cheat EXCEPT !.enabled = FALSE]
           c1 == [c EXCEPT !.enabled = FALSE]
           c2 == [off EXCEPT !.cond_true = FALSE]
           d == S9xDisableCheat(m, c)
<1>1. /\ u.mem \in Memory /\ u.cheat \in Cheat /\ SameCode(c, u.cheat)
      /\ \A a \in Addresses \ {c.address} : u.mem[a] = m[a]
  BY UpdateFacts DEF Decent
<1> HIDE DEF u, Decent, Left
<1>2. off \in Cheat /\ SameCode(c, off) /\ off.enabled = FALSE /\ off.saved_byte \in Bytes
  BY <1>1 DEF Cheat, SameCode
<1>3. c1 \in Cheat /\ SameCode(c, c1) /\ c1.enabled = FALSE /\ SameCode(c, c)
  BY DEF Cheat, SameCode
<1>4. \/ ~c.enabled /\ d.mem = m /\ d.cheat = c
      \/ c.enabled /\ ~on /\ d.mem = m /\ d.cheat = c1
      \/ c.enabled /\ on /\ d.mem = u.mem /\ d.cheat = off
      \/ c.enabled /\ on /\ d.mem = Put(u.mem, c, off.saved_byte) /\ d.cheat = c2
  BY DEF S9xDisableCheat, After, u
<1> HIDE DEF off
<1>5. c2 \in Cheat /\ SameCode(c, c2) /\ c2.enabled = FALSE
  BY <1>2 DEF Cheat, SameCode
<1> HIDE DEF c1, c2, d
<1>6. CASE ~c.enabled /\ d.mem = m /\ d.cheat = c
  <2>1. c.enabled = FALSE
    BY <1>6 DEF Cheat
  <2> QED
    BY <1>3, <1>6, <2>1 DEF d, Decent, Left
<1>7. CASE c.enabled /\ ~on /\ d.mem = m /\ d.cheat = c1
  BY <1>3, <1>7 DEF d, Decent, Left
<1>8. CASE c.enabled /\ on /\ d.mem = u.mem /\ d.cheat = off
  BY <1>1, <1>2, <1>8 DEF d, Decent, Left
<1>9. CASE c.enabled /\ on /\ d.mem = Put(u.mem, c, off.saved_byte) /\ d.cheat = c2
  <2>1. /\ Put(u.mem, c, off.saved_byte) \in Memory
        /\ \A a \in Addresses \ {c.address} : Put(u.mem, c, off.saved_byte)[a] = u.mem[a]
    BY <1>1, <1>2, PutFacts
  <2> QED
    BY <1>1, <1>5, <1>9, <2>1 DEF d, Decent, Left
<1> QED
  BY <1>4, <1>6, <1>7, <1>8, <1>9

LEMMA EnableOnFacts ==
    ASSUME NEW m \in Memory, NEW c \in Cheat
    PROVE  LET u == EnableOn(m, c)
           IN  /\ Decent(m, c, u)
               /\ u.cheat.enabled = TRUE
               /\ c.enabled => Left(m, c, u)
<1> DEFINE byte == m[c.address]
           enabled == [c EXCEPT !.enabled = TRUE]
           e2 == [enabled EXCEPT !.saved_byte = byte, !.cond_true = c.conditional \/ @]
           u == EnableOn(m, c)
<1>1. byte \in Bytes /\ c.byte \in Bytes /\ c.enabled \in BOOLEAN
  BY DEF Memory, Cheat
<1>2. enabled \in Cheat /\ SameCode(c, enabled) /\ enabled.enabled = TRUE /\ SameCode(c, c)
  BY DEF Cheat, SameCode
<1>3. e2 \in Cheat /\ SameCode(c, e2) /\ e2.enabled = TRUE
  BY <1>1 DEF Cheat, SameCode
<1>4. \/ c.enabled /\ u.mem = m /\ u.cheat = c
      \/ ~c.enabled /\ u.mem = m /\ u.cheat = enabled
      \/ ~c.enabled /\ u.mem = Put(m, c, c.byte) /\ u.cheat = e2
  BY DEF EnableOn, S9xEnableCheat, After
<1> HIDE DEF u, enabled, e2, byte
<1>5. CASE c.enabled /\ u.mem = m /\ u.cheat = c
  BY <1>1, <1>2, <1>5 DEF u, Decent, Left
<1>6. CASE ~c.enabled /\ u.mem = m /\ u.cheat = enabled
  BY <1>2, <1>6 DEF u, Decent, Left
<1>7. CASE ~c.enabled /\ u.mem = Put(m, c, c.byte) /\ u.cheat = e2
  <2>1. /\ Put(m, c, c.byte) \in Memory
        /\ \A a \in Addresses \ {c.address} : Put(m, c, c.byte)[a] = m[a]
    BY <1>1, PutFacts
  <2> QED
    BY <1>1, <1>3, <1>7, <2>1 DEF u, Decent, Left
<1> QED
  BY <1>4, <1>5, <1>6, <1>7

LEMMA EnableOffFacts ==
    ASSUME NEW m \in Memory, NEW c \in Cheat
    PROVE  LET u == EnableOff(m, c)
           IN  /\ Decent(m, c, u)
               /\ u.cheat.enabled = TRUE
               /\ u.mem = m
               /\ c.enabled => Left(m, c, u)
<1> DEFINE enabled == [c EXCEPT !.enabled = TRUE]
           u == EnableOff(m, c)
<1>1. c.enabled \in BOOLEAN
  BY DEF Cheat
<1>2. enabled \in Cheat /\ SameCode(c, enabled) /\ enabled.enabled = TRUE /\ SameCode(c, c)
  BY DEF Cheat, SameCode
<1>3. \/ c.enabled /\ u.mem = m /\ u.cheat = c
      \/ ~c.enabled /\ u.mem = m /\ u.cheat = enabled
  BY DEF EnableOff, S9xEnableCheat, After
<1> HIDE DEF u, enabled
<1>4. CASE c.enabled /\ u.mem = m /\ u.cheat = c
  BY <1>1, <1>2, <1>4 DEF u, Decent, Left
<1>5. CASE ~c.enabled /\ u.mem = m /\ u.cheat = enabled
  BY <1>2, <1>5 DEF u, Decent, Left
<1> QED
  BY <1>3, <1>4, <1>5

LEMMA DoFacts ==
    ASSUME NEW w \in Kinds, NEW m \in Memory, NEW c \in Cheat
    PROVE  LET u == Do(w, m, c)
           IN  /\ Decent(m, c, u)
               /\ u.cheat.enabled = IF w = "update" THEN c.enabled ELSE w # "off"
               /\ ~Touches(w, c) => u.mem = m
               /\ u.cheat.enabled = c.enabled /\ (w = "update" => ~c.enabled) => u.cheat = c
<1>1. c.enabled \in BOOLEAN
  BY DEF Cheat
<1> DEFINE u == Do(w, m, c)
<1>2. CASE w = "update"
  <2>1. u = S9xUpdateCheatInMemory(m, c)
    BY <1>2 DEF Do
  <2> HIDE DEF u
  <2> QED
    BY <1>1, <1>2, <2>1, UpdateFacts DEF Touches, Left, u
<1>3. CASE w = "off"
  <2>1. u = S9xDisableCheat(m, c)
    BY <1>3 DEF Do
  <2> HIDE DEF u
  <2>2. /\ Decent(m, c, u)
        /\ u.cheat.enabled = FALSE
        /\ ~on => u.mem = m
        /\ ~c.enabled => Left(m, c, u)
    <3>1. Decent(m, c, u)
      BY <2>1, DisableFacts, Zenon
    <3>2. u.cheat.enabled = FALSE
      BY <2>1, DisableFacts, Zenon
    <3>3. ~on => u.mem = m
      BY <2>1, DisableFacts, Zenon
    <3>4. ~c.enabled => Left(m, c, u)
      BY <2>1, DisableFacts, Zenon
    <3> QED
      BY <3>1, <3>2, <3>3, <3>4
  <2> QED
    BY <1>1, <1>3, <2>2 DEF Touches, Left, u
<1>4. CASE w = "on"
  <2>1. u = EnableOn(m, c)
    BY <1>4 DEF Do
  <2> HIDE DEF u
  <2>2. /\ Decent(m, c, u)
        /\ u.cheat.enabled = TRUE
        /\ c.enabled => Left(m, c, u)
    <3>1. Decent(m, c, u)
      BY <2>1, EnableOnFacts, Zenon
    <3>2. u.cheat.enabled = TRUE
      BY <2>1, EnableOnFacts, Zenon
    <3>3. c.enabled => Left(m, c, u)
      BY <2>1, EnableOnFacts, Zenon
    <3> QED
      BY <3>1, <3>2, <3>3
  <2> QED
    BY <1>1, <1>4, <2>2 DEF Touches, Left, u
<1>5. CASE w = "mark"
  <2>1. u = EnableOff(m, c)
    BY <1>5 DEF Do
  <2> HIDE DEF u
  <2>2. /\ Decent(m, c, u)
        /\ u.cheat.enabled = TRUE /\ u.mem = m
        /\ c.enabled => Left(m, c, u)
    BY <2>1, EnableOffFacts, Zenon
  <2> QED
    BY <1>1, <1>5, <2>2 DEF Touches, Left, u
<1> QED
  BY <1>2, <1>3, <1>4, <1>5 DEF Kinds
-----------------------------------------------------------------------------
(* Cheats taken in order, and groups: the memory after each of them is a    *)
(* recursive function, which exists because one can be built step by step.  *)

\* A set that holds 0 and with every number the next holds them all: else to
\* take 1 off would map the missing numbers up to the greatest one into
\* themselves, one to one and not onto.
LEMMA NatSetInduction ==
    ASSUME NEW S, 0 \in S, \A n \in Nat : n \in S => n + 1 \in S
    PROVE  Nat \subseteq S
<1>1. SUFFICES ASSUME NEW x \in Nat, x \notin S PROVE FALSE
  OBVIOUS
<1> DEFINE B == {n \in 0 .. x : n \notin S}
           f == [n \in B |-> n - 1]
<1>2. IsFiniteSet(B)
  <2>1. IsFiniteSet(0 .. x) /\ B \in SUBSET (0 .. x)
    BY FS_Interval
  <2> HIDE DEF B
  <2> QED
    BY <2>1, FS_Subset
<1>3. x \in B /\ B \subseteq 0 .. x
  BY <1>1
<1>4. \A n \in B : n - 1 \in B
  <2>1. TAKE n \in B
  <2>2. n # 0 /\ n - 1 \in Nat /\ n - 1 + 1 = n
    OBVIOUS
  <2>3. n - 1 \notin S
    BY <2>2
  <2> QED
    BY <2>2, <2>3
<1>5. f \in Injection(B, B)
  <2> HIDE DEF B
  <2> QED
    BY <1>3, <1>4 DEF Injection, IsInjective
<1>6. f \in Surjection(B, B)
  <2> HIDE DEF B, f
  <2> QED
    BY <1>2, <1>5, FS_Injection
<1>7. PICK n \in B : f[n] = x
  <2> HIDE DEF B, f
  <2> QED
    BY <1>3, <1>6 DEF Surjection
<1> HIDE DEF B
<1> QED
  BY <1>3, <1>7

\* From a first value on, step by step.
CanIterate(S, first, step, n) ==
    \E g \in [0..n -> S] : g[0] = first /\ \A i \in 1..n : g[i] = step[i][g[i - 1]]

LEMMA Iterated ==
    ASSUME NEW S, NEW n \in Nat, NEW first \in S, NEW step \in [1..n -> [S -> S]]
    PROVE  CanIterate(S, first, step, n)
<1> DEFINE Up(g, m) == /\ g \in [0..m -> S] /\ g[0] = first
                       /\ \A i \in 1..m : g[i] = step[i][g[i - 1]]
           T == {m \in Nat : m <= n => \E g \in [0..m -> S] : Up(g, m)}
<1>1. 0 \in T
  <2> DEFINE g0 == [i \in 0..0 |-> first]
  <2>1. g0 \in [0..0 -> S] /\ g0[0] = first
    OBVIOUS
  <2>2. \A i \in 1..0 : g0[i] = step[i][g0[i - 1]]
    OBVIOUS
  <2> HIDE DEF g0
  <2>3. Up(g0, 0)
    BY <2>1, <2>2
  <2> QED
    BY <2>1, <2>3
<1>2. ASSUME NEW m \in Nat, m \in T
      PROVE  m + 1 \in T
  <2>1. SUFFICES ASSUME m + 1 <= n PROVE \E g \in [0..(m + 1) -> S] : Up(g, m + 1)
    OBVIOUS
  <2>2. PICK g \in [0..m -> S] : Up(g, m)
    BY <1>2, <2>1
  <2> DEFINE h == [i \in 0..(m + 1) |-> IF i = m + 1 THEN step[m + 1][g[m]] ELSE g[i]]
  <2>3. step[m + 1] \in [S -> S] /\ g[m] \in S
    BY <2>1, <2>2
  <2>4. h \in [0..(m + 1) -> S]
    BY <2>2, <2>3
  <2>5. h[0] = first
    BY <2>2
  <2>6. ASSUME NEW i \in 1..(m + 1)
        PROVE  h[i] = step[i][h[i - 1]]
    <3>1. i - 1 \in 0..m /\ i - 1 # m + 1
      OBVIOUS
    <3>2. h[i - 1] = g[i - 1]
      BY <3>1
    <3>3. CASE i = m + 1
      <4>1. h[i] = step[m + 1][g[m]] /\ i - 1 = m
        BY <3>3
      <4> QED
        BY <3>2, <3>3, <4>1
    <3>4. CASE i # m + 1
      <4>1. i \in 1..m
        BY <3>4
      <4> QED
        BY <2>2, <3>2, <3>4, <4>1
    <3> QED
      BY <3>3, <3>4
  <2> HIDE DEF h
  <2> QED
    BY <2>4, <2>5, <2>6
<1> HIDE DEF T
<1>3. n \in T
  BY <1>1, <1>2, NatSetInduction
<1> QED
  BY <1>3 DEF T, CanIterate

LEMMA IteratedType ==
    ASSUME NEW S, NEW n \in Nat, NEW f, f[0] \in S,
           \A i \in 1..n : f[i - 1] \in S => f[i] \in S
    PROVE  \A i \in 0..n : f[i] \in S
<1> DEFINE T == {i \in Nat : i <= n => f[i] \in S}
<1>1. 0 \in T
  OBVIOUS
<1>2. ASSUME NEW i \in Nat, i \in T PROVE i + 1 \in T
  <2>1. SUFFICES ASSUME i + 1 <= n PROVE f[i + 1] \in S
    OBVIOUS
  <2>2. i + 1 \in 1..n /\ (i + 1) - 1 = i /\ i <= n
    BY <2>1
  <2>3. f[(i + 1) - 1] \in S
    BY <1>2, <2>2
  <2> QED
    BY <2>2, <2>3
<1> HIDE DEF T
<1>3. Nat \subseteq T
  BY <1>1, <1>2, NatSetInduction
<1> QED
  BY <1>3 DEF T

\* f is the memory before, between and after the cheats.
Steps(w, m, cs, f) ==
    /\ f \in [0..Len(cs) -> Memory] /\ f[0] = m
    /\ \A i \in 1..Len(cs) : f[i] = Do(w, f[i - 1], cs[i]).mem

Run(w, m, cs, r) ==
    \E f : /\ Steps(w, m, cs, f)
           /\ r.mem = f[Len(cs)]
           /\ r.cheats = [i \in 1..Len(cs) |-> Do(w, f[i - 1], cs[i]).cheat]

LEMMA StepsExist ==
    ASSUME NEW w \in Kinds, NEW m \in Memory, NEW cs \in Seq(Cheat)
    PROVE  \E f : Steps(w, m, cs, f)
<1> DEFINE step == [i \in 1..Len(cs) |-> [k \in Memory |-> Do(w, k, cs[i]).mem]]
<1>1. Len(cs) \in Nat /\ \A i \in 1..Len(cs) : cs[i] \in Cheat
  OBVIOUS
<1>2. \A i \in 1..Len(cs), k \in Memory : Do(w, k, cs[i]).mem \in Memory
  BY <1>1, DoFacts DEF Decent
<1>3. step \in [1..Len(cs) -> [Memory -> Memory]]
  BY <1>2
<1>4. \A i \in 1..Len(cs), k \in Memory : step[i][k] = Do(w, k, cs[i]).mem
  OBVIOUS
<1> HIDE DEF step
<1>5. PICK g \in [0..Len(cs) -> Memory] :
         g[0] = m /\ \A i \in 1..Len(cs) : g[i] = step[i][g[i - 1]]
  <2>1. CanIterate(Memory, m, step, Len(cs))
    BY <1>1, <1>3, Iterated
  <2> QED
    BY <2>1 DEF CanIterate
<1>6. ASSUME NEW i \in 1..Len(cs) PROVE g[i] = Do(w, g[i - 1], cs[i]).mem
  <2>1. i - 1 \in 0..Len(cs)
    BY <1>1
  <2>2. g[i - 1] \in Memory
    BY <2>1
  <2> QED
    BY <1>4, <1>5, <2>2
<1>7. Steps(w, m, cs, g)
  BY <1>5, <1>6 DEF Steps
<1> QED
  BY <1>7

LEMMA StepsTyped ==
    ASSUME NEW w \in Kinds, NEW m \in Memory, NEW cs \in Seq(Cheat), NEW f,
           f = [i \in 0..Len(cs) |-> IF i = 0 THEN m ELSE Do(w, f[i - 1], cs[i]).mem]
    PROVE  Steps(w, m, cs, f)
<1>1. Len(cs) \in Nat /\ \A i \in 1..Len(cs) : cs[i] \in Cheat
  OBVIOUS
<1>2. f[0] = m /\ \A i \in 1..Len(cs) : f[i] = Do(w, f[i - 1], cs[i]).mem
  BY <1>1
<1>3. \A i \in 1..Len(cs) : f[i - 1] \in Memory => f[i] \in Memory
  BY <1>1, <1>2, DoFacts DEF Decent
<1>4. \A i \in 0..Len(cs) : f[i] \in Memory
  BY <1>1, <1>2, <1>3, IteratedType
<1>5. f \in [0..Len(cs) -> Memory]
  BY <1>4
<1> QED
  BY <1>2, <1>5 DEF Steps

LEMMA UpdateRuns ==
    ASSUME NEW m \in Memory, NEW cs \in Seq(Cheat)
    PROVE  Run("update", m, cs, Each(S9xUpdateCheatInMemory, m, cs))
<1> DEFINE Eq(f) == f = [i \in 0..Len(cs) |->
                           IF i = 0 THEN m ELSE S9xUpdateCheatInMemory(f[i - 1], cs[i]).mem]
           after == CHOOSE f : Eq(f)
           r == Each(S9xUpdateCheatInMemory, m, cs)
<1>1. \A k, c : Do("update", k, c) = S9xUpdateCheatInMemory(k, c)
  BY DEF Do
<1>2. PICK g : Steps("update", m, cs, g)
  BY StepsExist DEF Kinds
<1>3. \E f : Eq(f)
  <2>1. g = [i \in 0..Len(cs) |-> g[i]]
    BY <1>2 DEF Steps
  <2>2. \A i \in 0..Len(cs) :
           g[i] = IF i = 0 THEN m ELSE S9xUpdateCheatInMemory(g[i - 1], cs[i]).mem
    BY <1>1, <1>2 DEF Steps
  <2>3. Eq(g)
    BY <2>1, <2>2
  <2> QED
    BY <2>3
<1>4. Eq(after)
  BY <1>3
<1>5. r.mem = after[Len(cs)]
      /\ r.cheats = [i \in DOMAIN cs |-> S9xUpdateCheatInMemory(after[i - 1], cs[i]).cheat]
  BY DEF Each
<1> HIDE DEF after, r
<1>6. after = [i \in 0..Len(cs) |-> IF i = 0 THEN m ELSE Do("update", after[i - 1], cs[i]).mem]
  <2>1. \A i \in 0..Len(cs) :
           (IF i = 0 THEN m ELSE S9xUpdateCheatInMemory(after[i - 1], cs[i]).mem)
             = IF i = 0 THEN m ELSE Do("update", after[i - 1], cs[i]).mem
    BY <1>1
  <2> QED
    BY <1>4, <2>1
<1>7. Steps("update", m, cs, after)
  BY <1>6, StepsTyped DEF Kinds
<1>8. r.cheats = [i \in 1..Len(cs) |-> Do("update", after[i - 1], cs[i]).cheat]
  BY <1>1, <1>5
<1> QED
  BY <1>5, <1>7, <1>8 DEF Run, r

LEMMA DisableRuns ==
    ASSUME NEW m \in Memory, NEW cs \in Seq(Cheat)
    PROVE  Run("off", m, cs, Each(S9xDisableCheat, m, cs))
<1> DEFINE Eq(f) == f = [i \in 0..Len(cs) |->
                           IF i = 0 THEN m ELSE S9xDisableCheat(f[i - 1], cs[i]).mem]
           after == CHOOSE f : Eq(f)
           r == Each(S9xDisableCheat, m, cs)
<1>1. \A k, c : Do("off", k, c) = S9xDisableCheat(k, c)
  BY DEF Do
<1>2. PICK g : Steps("off", m, cs, g)
  BY StepsExist DEF Kinds
<1>3. \E f : Eq(f)
  <2>1. g = [i \in 0..Len(cs) |-> g[i]]
    BY <1>2 DEF Steps
  <2>2. \A i \in 0..Len(cs) :
           g[i] = IF i = 0 THEN m ELSE S9xDisableCheat(g[i - 1], cs[i]).mem
    BY <1>1, <1>2 DEF Steps
  <2>3. Eq(g)
    BY <2>1, <2>2
  <2> QED
    BY <2>3
<1>4. Eq(after)
  BY <1>3
<1>5. r.mem = after[Len(cs)]
      /\ r.cheats = [i \in DOMAIN cs |-> S9xDisableCheat(after[i - 1], cs[i]).cheat]
  BY DEF Each
<1> HIDE DEF after, r
<1>6. after = [i \in 0..Len(cs) |-> IF i = 0 THEN m ELSE Do("off", after[i - 1], cs[i]).mem]
  <2>1. \A i \in 0..Len(cs) :
           (IF i = 0 THEN m ELSE S9xDisableCheat(after[i - 1], cs[i]).mem)
             = IF i = 0 THEN m ELSE Do("off", after[i - 1], cs[i]).mem
    BY <1>1
  <2> QED
    BY <1>4, <2>1
<1>7. Steps("off", m, cs, after)
  BY <1>6, StepsTyped DEF Kinds
<1>8. r.cheats = [i \in 1..Len(cs) |-> Do("off", after[i - 1], cs[i]).cheat]
  BY <1>1, <1>5
<1> QED
  BY <1>5, <1>7, <1>8 DEF Run, r

LEMMA EnableOnRuns ==
    ASSUME NEW m \in Memory, NEW cs \in Seq(Cheat)
    PROVE  Run("on", m, cs, Each(EnableOn, m, cs))
<1> DEFINE Eq(f) == f = [i \in 0..Len(cs) |->
                           IF i = 0 THEN m ELSE EnableOn(f[i - 1], cs[i]).mem]
           after == CHOOSE f : Eq(f)
           r == Each(EnableOn, m, cs)
<1>1. \A k, c : Do("on", k, c) = EnableOn(k, c)
  BY DEF Do
<1>2. PICK g : Steps("on", m, cs, g)
  BY StepsExist DEF Kinds
<1>3. \E f : Eq(f)
  <2>1. g = [i \in 0..Len(cs) |-> g[i]]
    BY <1>2 DEF Steps
  <2>2. \A i \in 0..Len(cs) :
           g[i] = IF i = 0 THEN m ELSE EnableOn(g[i - 1], cs[i]).mem
    BY <1>1, <1>2 DEF Steps
  <2>3. Eq(g)
    BY <2>1, <2>2
  <2> QED
    BY <2>3
<1>4. Eq(after)
  BY <1>3
<1>5. r.mem = after[Len(cs)]
      /\ r.cheats = [i \in DOMAIN cs |-> EnableOn(after[i - 1], cs[i]).cheat]
  BY DEF Each
<1> HIDE DEF after, r
<1>6. after = [i \in 0..Len(cs) |-> IF i = 0 THEN m ELSE Do("on", after[i - 1], cs[i]).mem]
  <2>1. \A i \in 0..Len(cs) :
           (IF i = 0 THEN m ELSE EnableOn(after[i - 1], cs[i]).mem)
             = IF i = 0 THEN m ELSE Do("on", after[i - 1], cs[i]).mem
    BY <1>1
  <2> QED
    BY <1>4, <2>1
<1>7. Steps("on", m, cs, after)
  BY <1>6, StepsTyped DEF Kinds
<1>8. r.cheats = [i \in 1..Len(cs) |-> Do("on", after[i - 1], cs[i]).cheat]
  BY <1>1, <1>5
<1> QED
  BY <1>5, <1>7, <1>8 DEF Run, r

\* What enabling a cheat is, now.
Now == IF on THEN "on" ELSE "mark"

LEMMA EnableNowRuns ==
    ASSUME NEW m \in Memory, NEW cs \in Seq(Cheat)
    PROVE  Run(Now, m, cs, Each(EnableNow, m, cs))
<1> DEFINE Eq(f) == f = [i \in 0..Len(cs) |->
                           IF i = 0 THEN m ELSE EnableNow(f[i - 1], cs[i]).mem]
           after == CHOOSE f : Eq(f)
           r == Each(EnableNow, m, cs)
<1>1. \A k, c : Do(Now, k, c) = EnableNow(k, c)
  <2>1. TAKE k, c
  <2>2. CASE on
    <3>1. Now = "on"
      BY <2>2 DEF Now
    <3>2. EnableOn(k, c) = EnableNow(k, c)
      BY <2>2 DEF EnableOn, EnableNow, S9xEnableCheat
    <3> QED
      BY <3>1, <3>2 DEF Do
  <2>3. CASE ~on
    <3>1. Now = "mark"
      BY <2>3 DEF Now
    <3>2. EnableOff(k, c) = EnableNow(k, c)
      BY <2>3 DEF EnableOff, EnableNow, S9xEnableCheat
    <3> QED
      BY <3>1, <3>2 DEF Do
  <2> QED
    BY <2>2, <2>3
<1>2. PICK g : Steps(Now, m, cs, g)
  BY StepsExist DEF Kinds, Now
<1>3. \E f : Eq(f)
  <2>1. g = [i \in 0..Len(cs) |-> g[i]]
    BY <1>2 DEF Steps
  <2>2. \A i \in 0..Len(cs) :
           g[i] = IF i = 0 THEN m ELSE EnableNow(g[i - 1], cs[i]).mem
    BY <1>1, <1>2 DEF Steps
  <2>3. Eq(g)
    BY <2>1, <2>2
  <2> QED
    BY <2>3
<1>4. Eq(after)
  BY <1>3
<1>5. r.mem = after[Len(cs)]
      /\ r.cheats = [i \in DOMAIN cs |-> EnableNow(after[i - 1], cs[i]).cheat]
  BY DEF Each
<1> HIDE DEF after, r
<1>6. after = [i \in 0..Len(cs) |-> IF i = 0 THEN m ELSE Do(Now, after[i - 1], cs[i]).mem]
  <2>1. \A i \in 0..Len(cs) :
           (IF i = 0 THEN m ELSE EnableNow(after[i - 1], cs[i]).mem)
             = IF i = 0 THEN m ELSE Do(Now, after[i - 1], cs[i]).mem
    BY <1>1
  <2> QED
    BY <1>4, <2>1
<1>7. Steps(Now, m, cs, after)
  BY <1>6, StepsTyped DEF Kinds, Now
<1>8. r.cheats = [i \in 1..Len(cs) |-> Do(Now, after[i - 1], cs[i]).cheat]
  BY <1>1, <1>5
<1> QED
  BY <1>5, <1>7, <1>8 DEF Run, r

LEMMA RunType ==
    ASSUME NEW w \in Kinds, NEW m \in Memory, NEW cs \in Seq(Cheat), NEW r, Run(w, m, cs, r)
    PROVE  r.mem \in Memory /\ r.cheats \in Seq(Cheat) /\ Len(r.cheats) = Len(cs)
<1>1. PICK f : /\ Steps(w, m, cs, f) /\ r.mem = f[Len(cs)]
               /\ r.cheats = [i \in 1..Len(cs) |-> Do(w, f[i - 1], cs[i]).cheat]
  BY DEF Run
<1>2. Len(cs) \in Nat /\ \A i \in 1..Len(cs) : cs[i] \in Cheat
  OBVIOUS
<1>3. \A i \in 1..Len(cs) : f[i - 1] \in Memory
  BY <1>1, <1>2 DEF Steps
<1>4. \A i \in 1..Len(cs) : Do(w, f[i - 1], cs[i]).cheat \in Cheat
  BY <1>2, <1>3, DoFacts DEF Decent
<1>5. r.cheats \in [1..Len(cs) -> Cheat]
  BY <1>1, <1>4
<1> QED
  BY <1>1, <1>2, <1>5 DEF Steps

\* Of the groups gs those in picked are run through from memory m on; the last
\* memory is m2, and hs are the groups then.
GroupRun(w, picked, m, gs, m2, hs) ==
    /\ Len(hs) = Len(gs)
    /\ \E f \in [0..Len(gs) -> Memory] :
          /\ f[0] = m /\ f[Len(gs)] = m2
          /\ \A i \in 1..Len(gs) :
                \/ i \in picked /\ \E r : /\ Run(w, f[i - 1], gs[i].cheat, r)
                                         /\ f[i] = r.mem /\ hs[i].cheat = r.cheats
                \/ i \notin picked /\ f[i] = f[i - 1] /\ hs[i].cheat = gs[i].cheat

LEMMA GroupFacts ==
    ASSUME NEW gs \in Groups
    PROVE  /\ Len(gs) \in Nat /\ DOMAIN gs = 1..Len(gs)
           /\ \A i \in 1..Len(gs) : /\ gs[i] \in Group /\ gs[i].cheat \in Seq(Cheat)
                                     /\ gs[i].enabled \in BOOLEAN
<1>1. Len(gs) \in Nat /\ DOMAIN gs = 1..Len(gs) /\ \A i \in 1..Len(gs) : gs[i] \in Group
  BY DEF Groups
<1>2. \A g \in Group : g.cheat \in Seq(Cheat) /\ g.enabled \in BOOLEAN
  BY DEF Group
<1> QED
  BY <1>1, <1>2

LEMMA MakeGroups ==
    ASSUME NEW n \in Nat, NEW f, f = [i \in 1..n |-> f[i]], \A i \in 1..n : f[i] \in Group
    PROVE  f \in Groups
BY DEF Groups

\* A recursive function that runs through the groups by R exists.
CanRun(R, picked, m, n) ==
    \E f \in [0..n -> Memory] :
       /\ f[0] = m
       /\ \A i \in 1..n : f[i] = IF i \in picked THEN R[i][f[i - 1]].mem ELSE f[i - 1]

LEMMA GroupsIterated ==
    ASSUME NEW n \in Nat, NEW picked, NEW m \in Memory, NEW R,
           \A i \in 1..n, k \in Memory : R[i][k].mem \in Memory
    PROVE  CanRun(R, picked, m, n)
<1> DEFINE step == [i \in 1..n |-> [k \in Memory |-> IF i \in picked THEN R[i][k].mem ELSE k]]
<1>1. step \in [1..n -> [Memory -> Memory]]
  OBVIOUS
<1>2. \A i \in 1..n, k \in Memory : step[i][k] = IF i \in picked THEN R[i][k].mem ELSE k
  OBVIOUS
<1> HIDE DEF step
<1>3. CanIterate(Memory, m, step, n)
  BY <1>1, Iterated
<1>4. PICK g \in [0..n -> Memory] : g[0] = m /\ \A i \in 1..n : g[i] = step[i][g[i - 1]]
  BY <1>3 DEF CanIterate
<1>5. \A i \in 1..n : g[i - 1] \in Memory
  OBVIOUS
<1>6. \A i \in 1..n : g[i] = IF i \in picked THEN R[i][g[i - 1]].mem ELSE g[i - 1]
  BY <1>2, <1>4, <1>5
<1> QED
  BY <1>4, <1>6 DEF CanRun

-----------------------------------------------------------------------------
(* Groups taken in order: the four ways the code goes through all of them.   *)

LEMMA GroupsRun ==
    ASSUME NEW w \in Kinds, NEW picked, NEW m \in Memory, NEW gs \in Groups, NEW R,
           \A i \in 1..Len(gs), k \in Memory : Run(w, k, gs[i].cheat, R[i][k]),
           NEW f \in [0..Len(gs) -> Memory], f[0] = m,
           \A i \in 1..Len(gs) : f[i] = IF i \in picked THEN R[i][f[i - 1]].mem ELSE f[i - 1],
           NEW hs, Len(hs) = Len(gs),
           \A i \in 1..Len(gs) : hs[i].cheat = IF i \in picked THEN R[i][f[i - 1]].cheats
                                               ELSE gs[i].cheat
    PROVE  GroupRun(w, picked, m, gs, f[Len(gs)], hs)
<1>1. Len(gs) \in Nat
  BY GroupFacts
<1>2. ASSUME NEW i \in 1..Len(gs)
      PROVE  \/ i \in picked /\ \E r : /\ Run(w, f[i - 1], gs[i].cheat, r)
                                        /\ f[i] = r.mem /\ hs[i].cheat = r.cheats
             \/ i \notin picked /\ f[i] = f[i - 1] /\ hs[i].cheat = gs[i].cheat
  <2>1. f[i - 1] \in Memory
    BY <1>1
  <2>2. CASE i \in picked
    <3>1. Run(w, f[i - 1], gs[i].cheat, R[i][f[i - 1]])
      BY <2>1
    <3> QED
      BY <2>2, <3>1
  <2>3. CASE i \notin picked
    BY <2>3
  <2> QED
    BY <2>2, <2>3
<1> QED
  BY <1>2 DEF GroupRun

LEMMA GroupRunType ==
    ASSUME NEW w \in Kinds, NEW picked, NEW m \in Memory, NEW gs \in Groups, NEW m2, NEW hs,
           GroupRun(w, picked, m, gs, m2, hs)
    PROVE  /\ m2 \in Memory
           /\ \A i \in 1..Len(gs) : hs[i].cheat \in Seq(Cheat) /\ Len(hs[i].cheat) = Len(gs[i].cheat)
<1>1. PICK f \in [0..Len(gs) -> Memory] :
          /\ f[0] = m /\ f[Len(gs)] = m2
          /\ \A i \in 1..Len(gs) :
                \/ i \in picked /\ \E r : /\ Run(w, f[i - 1], gs[i].cheat, r)
                                         /\ f[i] = r.mem /\ hs[i].cheat = r.cheats
                \/ i \notin picked /\ f[i] = f[i - 1] /\ hs[i].cheat = gs[i].cheat
  BY DEF GroupRun
<1>2. Len(gs) \in Nat /\ \A i \in 1..Len(gs) : gs[i].cheat \in Seq(Cheat)
  BY GroupFacts
<1>3. ASSUME NEW i \in 1..Len(gs)
      PROVE  hs[i].cheat \in Seq(Cheat) /\ Len(hs[i].cheat) = Len(gs[i].cheat)
  <2>1. f[i - 1] \in Memory
    BY <1>2
  <2>2. gs[i].cheat \in Seq(Cheat)
    BY <1>2
  <2>3. CASE i \in picked
    <3>1. PICK r : Run(w, f[i - 1], gs[i].cheat, r) /\ hs[i].cheat = r.cheats
      BY <1>1, <2>3
    <3>2. r.cheats \in Seq(Cheat) /\ Len(r.cheats) = Len(gs[i].cheat)
      BY <2>1, <2>2, <3>1, RunType
    <3> QED
      BY <3>1, <3>2
  <2>4. CASE i \notin picked
    BY <1>1, <2>2, <2>4
  <2> QED
    BY <2>3, <2>4
<1> QED
  BY <1>1, <1>2, <1>3

LEMMA UpdateGroups ==
    ASSUME NEW m \in Memory, NEW gs \in Groups
    PROVE  LET r == EachGroup(S9xUpdateCheatInMemory, All, Same, m, gs)
               picked == 1..Len(gs)
           IN  /\ GroupRun("update", picked, m, gs, r.mem, r.group)
               /\ r.group \in Groups
               /\ \A i \in 1..Len(gs) : r.group[i].enabled = gs[i].enabled
<1> DEFINE picked == 1..Len(gs)
           r == EachGroup(S9xUpdateCheatInMemory, All, Same, m, gs)
           E(i, k) == Each(S9xUpdateCheatInMemory, k, gs[i].cheat)
           R == [i \in 1..Len(gs) |-> [k \in Memory |-> E(i, k)]]
           Eq(f) == f = [i \in 0..Len(gs) |->
                           IF i = 0 THEN m
                           ELSE IF All(gs[i]) THEN Each(S9xUpdateCheatInMemory, f[i - 1], gs[i].cheat).mem
                           ELSE f[i - 1]]
           after == CHOOSE f : Eq(f)
<1>1. /\ Len(gs) \in Nat /\ DOMAIN gs = 1..Len(gs)
      /\ \A i \in 1..Len(gs) : gs[i].cheat \in Seq(Cheat) /\ gs[i].enabled \in BOOLEAN
  BY GroupFacts
<1>2. \A i \in 1..Len(gs), k \in Memory : Run("update", k, gs[i].cheat, E(i, k))
  <2>1. TAKE i \in 1..Len(gs), k \in Memory
  <2>2. gs[i].cheat \in Seq(Cheat)
    BY <1>1
  <2> QED
    BY <2>2, UpdateRuns
<1>3. \A i \in 1..Len(gs), k \in Memory : E(i, k).mem \in Memory
  <2>1. TAKE i \in 1..Len(gs), k \in Memory
  <2>2. gs[i].cheat \in Seq(Cheat) /\ Run("update", k, gs[i].cheat, E(i, k))
    BY <1>1, <1>2
  <2> HIDE DEF E
  <2>3. "update" \in Kinds
    BY DEF Kinds
  <2> QED
    BY <2>2, <2>3, RunType
<1>4. \A i \in 1..Len(gs) : i \in picked <=> All(gs[i])
  BY <1>1 DEF All
<1> HIDE DEF picked
<1>5. r.mem = after[Len(gs)]
      /\ r.group = [i \in DOMAIN gs |->
                      IF All(gs[i]) THEN [enabled |-> Same(gs[i]), cheat |-> E(i, after[i - 1]).cheats]
                      ELSE gs[i]]
  BY DEF EachGroup
<1> DEFINE Eq2(f) == f = [i \in 0..Len(gs) |->
                           IF i = 0 THEN m ELSE IF i \in picked THEN E(i, f[i - 1]).mem ELSE f[i - 1]]
<1>6. ASSUME NEW f PROVE Eq(f) <=> Eq2(f)
  <2>1. \A i \in 0..Len(gs) :
           (IF i = 0 THEN m ELSE IF All(gs[i]) THEN Each(S9xUpdateCheatInMemory, f[i - 1], gs[i].cheat).mem ELSE f[i - 1])
             = IF i = 0 THEN m ELSE IF i \in picked THEN E(i, f[i - 1]).mem ELSE f[i - 1]
    <3> HIDE DEF E
    <3>1. \A i \in 0..Len(gs) : i # 0 => i \in 1..Len(gs)
      BY <1>1
    <3>2. \A i \in 1..Len(gs) : E(i, f[i - 1]) = Each(S9xUpdateCheatInMemory, f[i - 1], gs[i].cheat)
      BY DEF E
    <3> QED
      BY <1>4, <3>1, <3>2
  <2> QED
    BY <2>1
<1> HIDE DEF E
<1>7. \A i \in 1..Len(gs), k \in Memory : R[i][k] = E(i, k)
  OBVIOUS
<1> HIDE DEF R
<1>8. \E f : Eq(f)
  <2>1. \A i \in 1..Len(gs), k \in Memory : R[i][k].mem \in Memory
    BY <1>3, <1>7
  <2>2. CanRun(R, picked, m, Len(gs))
    BY <1>1, <2>1, GroupsIterated
  <2>3. PICK f \in [0..Len(gs) -> Memory] :
          /\ f[0] = m
          /\ \A i \in 1..Len(gs) : f[i] = IF i \in picked THEN R[i][f[i - 1]].mem ELSE f[i - 1]
    BY <2>2 DEF CanRun
  <2>4. \A i \in 1..Len(gs) : f[i - 1] \in Memory
    BY <1>1
  <2>5. \A i \in 1..Len(gs) : f[i] = IF i \in picked THEN E(i, f[i - 1]).mem ELSE f[i - 1]
    BY <1>7, <2>3, <2>4
  <2>6. \A i \in 0..Len(gs) : i # 0 => i \in 1..Len(gs)
    BY <1>1
  <2>7. \A i \in 0..Len(gs) :
          f[i] = IF i = 0 THEN m ELSE IF i \in picked THEN E(i, f[i - 1]).mem ELSE f[i - 1]
    BY <2>3, <2>5, <2>6
  <2>8. f = [i \in 0..Len(gs) |-> f[i]]
    OBVIOUS
  <2>9. Eq2(f)
    BY <2>7, <2>8
  <2> QED
    BY <1>6, <2>9
<1>9. Eq2(after)
  <2>1. Eq(after)
    BY <1>8
  <2> HIDE DEF after, Eq, Eq2
  <2> QED
    BY <1>6, <2>1
<1> HIDE DEF after, Eq, r
<1>10. after[0] = m /\ \A i \in 1..Len(gs) :
         after[i] = IF i \in picked THEN E(i, after[i - 1]).mem ELSE after[i - 1]
  BY <1>1, <1>9
<1>11. after \in [0..Len(gs) -> Memory]
  <2>1. \A i \in 1..Len(gs) : after[i - 1] \in Memory => after[i] \in Memory
    BY <1>3, <1>10
  <2>2. \A i \in 0..Len(gs) : after[i] \in Memory
    BY <1>1, <1>10, <2>1, IteratedType
  <2> QED
    BY <1>9, <2>2
<1>12. \A i \in 1..Len(gs) : after[i - 1] \in Memory
  BY <1>1, <1>11
<1>13. \A i \in 1..Len(gs) : after[i] = IF i \in picked THEN R[i][after[i - 1]].mem ELSE after[i - 1]
  BY <1>7, <1>10, <1>12
<1>14. r.group = [i \in 1..Len(gs) |->
                   IF i \in picked THEN [enabled |-> Same(gs[i]), cheat |-> E(i, after[i - 1]).cheats]
                   ELSE gs[i]]
  BY <1>1, <1>4, <1>5
<1>15. Len(r.group) = Len(gs)
  BY <1>1, <1>14
<1>16. \A i \in 1..Len(gs) :
         r.group[i].cheat = IF i \in picked THEN R[i][after[i - 1]].cheats ELSE gs[i].cheat
  BY <1>7, <1>12, <1>14
<1>17. \A i \in 1..Len(gs), k \in Memory : Run("update", k, gs[i].cheat, R[i][k])
  BY <1>2, <1>7
<1>18. GroupRun("update", picked, m, gs, after[Len(gs)], r.group)
  <2>1. "update" \in Kinds
    BY DEF Kinds
  <2> QED
    BY <1>10, <1>11, <1>13, <1>15, <1>16, <1>17, <2>1, GroupsRun
<1>19. \A i \in 1..Len(gs) : r.group[i].enabled = gs[i].enabled
  BY <1>1, <1>4, <1>14 DEF Same
<1>20. r.group \in Groups
  <2>1. \A i \in 1..Len(gs) : r.group[i].cheat \in Seq(Cheat)
    <3>1. "update" \in Kinds
      BY DEF Kinds
    <3> QED
      BY <1>18, <3>1, GroupRunType
  <2>2. \A i \in 1..Len(gs) : r.group[i] \in Group
    <3>1. TAKE i \in 1..Len(gs)
    <3>2. CASE i \in picked
      <4>1. r.group[i] = [enabled |-> Same(gs[i]), cheat |-> E(i, after[i - 1]).cheats]
        BY <1>14, <3>2
      <4>2. Same(gs[i]) \in BOOLEAN
        BY <1>1 DEF Same
      <4>3. E(i, after[i - 1]).cheats \in Seq(Cheat)
        BY <2>1, <4>1
      <4> QED
        BY <4>1, <4>2, <4>3 DEF Group
    <3>3. CASE i \notin picked
      <4>1. r.group[i] = gs[i]
        BY <1>14, <3>3
      <4> QED
        BY <4>1, GroupFacts
    <3> QED
      BY <3>2, <3>3
  <2> QED
    BY <1>1, <1>14, <2>2, MakeGroups
<1>21. GroupRun("update", picked, m, gs, r.mem, r.group)
  BY <1>5, <1>18
<1> QED
  BY <1>19, <1>20, <1>21 DEF picked, r

LEMMA DisableGroups ==
    ASSUME NEW m \in Memory, NEW gs \in Groups
    PROVE  LET r == EachGroup(S9xDisableCheat, All, Off, m, gs)
               picked == 1..Len(gs)
           IN  /\ GroupRun("off", picked, m, gs, r.mem, r.group)
               /\ r.group \in Groups
               /\ \A i \in 1..Len(gs) : r.group[i].enabled = FALSE
<1> DEFINE picked == 1..Len(gs)
           r == EachGroup(S9xDisableCheat, All, Off, m, gs)
           E(i, k) == Each(S9xDisableCheat, k, gs[i].cheat)
           R == [i \in 1..Len(gs) |-> [k \in Memory |-> E(i, k)]]
           Eq(f) == f = [i \in 0..Len(gs) |->
                           IF i = 0 THEN m
                           ELSE IF All(gs[i]) THEN Each(S9xDisableCheat, f[i - 1], gs[i].cheat).mem
                           ELSE f[i - 1]]
           after == CHOOSE f : Eq(f)
<1>1. /\ Len(gs) \in Nat /\ DOMAIN gs = 1..Len(gs)
      /\ \A i \in 1..Len(gs) : gs[i].cheat \in Seq(Cheat) /\ gs[i].enabled \in BOOLEAN
  BY GroupFacts
<1>2. \A i \in 1..Len(gs), k \in Memory : Run("off", k, gs[i].cheat, E(i, k))
  <2>1. TAKE i \in 1..Len(gs), k \in Memory
  <2>2. gs[i].cheat \in Seq(Cheat)
    BY <1>1
  <2> QED
    BY <2>2, DisableRuns
<1>3. \A i \in 1..Len(gs), k \in Memory : E(i, k).mem \in Memory
  <2>1. TAKE i \in 1..Len(gs), k \in Memory
  <2>2. gs[i].cheat \in Seq(Cheat) /\ Run("off", k, gs[i].cheat, E(i, k))
    BY <1>1, <1>2
  <2> HIDE DEF E
  <2>3. "off" \in Kinds
    BY DEF Kinds
  <2> QED
    BY <2>2, <2>3, RunType
<1>4. \A i \in 1..Len(gs) : i \in picked <=> All(gs[i])
  BY <1>1 DEF All
<1> HIDE DEF picked
<1>5. r.mem = after[Len(gs)]
      /\ r.group = [i \in DOMAIN gs |->
                      IF All(gs[i]) THEN [enabled |-> Off(gs[i]), cheat |-> E(i, after[i - 1]).cheats]
                      ELSE gs[i]]
  BY DEF EachGroup
<1> DEFINE Eq2(f) == f = [i \in 0..Len(gs) |->
                           IF i = 0 THEN m ELSE IF i \in picked THEN E(i, f[i - 1]).mem ELSE f[i - 1]]
<1>6. ASSUME NEW f PROVE Eq(f) <=> Eq2(f)
  <2>1. \A i \in 0..Len(gs) :
           (IF i = 0 THEN m ELSE IF All(gs[i]) THEN Each(S9xDisableCheat, f[i - 1], gs[i].cheat).mem ELSE f[i - 1])
             = IF i = 0 THEN m ELSE IF i \in picked THEN E(i, f[i - 1]).mem ELSE f[i - 1]
    <3> HIDE DEF E
    <3>1. \A i \in 0..Len(gs) : i # 0 => i \in 1..Len(gs)
      BY <1>1
    <3>2. \A i \in 1..Len(gs) : E(i, f[i - 1]) = Each(S9xDisableCheat, f[i - 1], gs[i].cheat)
      BY DEF E
    <3> QED
      BY <1>4, <3>1, <3>2
  <2> QED
    BY <2>1
<1> HIDE DEF E
<1>7. \A i \in 1..Len(gs), k \in Memory : R[i][k] = E(i, k)
  OBVIOUS
<1> HIDE DEF R
<1>8. \E f : Eq(f)
  <2>1. \A i \in 1..Len(gs), k \in Memory : R[i][k].mem \in Memory
    BY <1>3, <1>7
  <2>2. CanRun(R, picked, m, Len(gs))
    BY <1>1, <2>1, GroupsIterated
  <2>3. PICK f \in [0..Len(gs) -> Memory] :
          /\ f[0] = m
          /\ \A i \in 1..Len(gs) : f[i] = IF i \in picked THEN R[i][f[i - 1]].mem ELSE f[i - 1]
    BY <2>2 DEF CanRun
  <2>4. \A i \in 1..Len(gs) : f[i - 1] \in Memory
    BY <1>1
  <2>5. \A i \in 1..Len(gs) : f[i] = IF i \in picked THEN E(i, f[i - 1]).mem ELSE f[i - 1]
    BY <1>7, <2>3, <2>4
  <2>6. \A i \in 0..Len(gs) : i # 0 => i \in 1..Len(gs)
    BY <1>1
  <2>7. \A i \in 0..Len(gs) :
          f[i] = IF i = 0 THEN m ELSE IF i \in picked THEN E(i, f[i - 1]).mem ELSE f[i - 1]
    BY <2>3, <2>5, <2>6
  <2>8. f = [i \in 0..Len(gs) |-> f[i]]
    OBVIOUS
  <2>9. Eq2(f)
    BY <2>7, <2>8
  <2> QED
    BY <1>6, <2>9
<1>9. Eq2(after)
  <2>1. Eq(after)
    BY <1>8
  <2> HIDE DEF after, Eq, Eq2
  <2> QED
    BY <1>6, <2>1
<1> HIDE DEF after, Eq, r
<1>10. after[0] = m /\ \A i \in 1..Len(gs) :
         after[i] = IF i \in picked THEN E(i, after[i - 1]).mem ELSE after[i - 1]
  BY <1>1, <1>9
<1>11. after \in [0..Len(gs) -> Memory]
  <2>1. \A i \in 1..Len(gs) : after[i - 1] \in Memory => after[i] \in Memory
    BY <1>3, <1>10
  <2>2. \A i \in 0..Len(gs) : after[i] \in Memory
    BY <1>1, <1>10, <2>1, IteratedType
  <2> QED
    BY <1>9, <2>2
<1>12. \A i \in 1..Len(gs) : after[i - 1] \in Memory
  BY <1>1, <1>11
<1>13. \A i \in 1..Len(gs) : after[i] = IF i \in picked THEN R[i][after[i - 1]].mem ELSE after[i - 1]
  BY <1>7, <1>10, <1>12
<1>14. r.group = [i \in 1..Len(gs) |->
                   IF i \in picked THEN [enabled |-> Off(gs[i]), cheat |-> E(i, after[i - 1]).cheats]
                   ELSE gs[i]]
  BY <1>1, <1>4, <1>5
<1>15. Len(r.group) = Len(gs)
  BY <1>1, <1>14
<1>16. \A i \in 1..Len(gs) :
         r.group[i].cheat = IF i \in picked THEN R[i][after[i - 1]].cheats ELSE gs[i].cheat
  BY <1>7, <1>12, <1>14
<1>17. \A i \in 1..Len(gs), k \in Memory : Run("off", k, gs[i].cheat, R[i][k])
  BY <1>2, <1>7
<1>18. GroupRun("off", picked, m, gs, after[Len(gs)], r.group)
  <2>1. "off" \in Kinds
    BY DEF Kinds
  <2> QED
    BY <1>10, <1>11, <1>13, <1>15, <1>16, <1>17, <2>1, GroupsRun
<1>19. \A i \in 1..Len(gs) : r.group[i].enabled = FALSE
  BY <1>1, <1>4, <1>14 DEF Off, picked
<1>20. r.group \in Groups
  <2>1. \A i \in 1..Len(gs) : r.group[i].cheat \in Seq(Cheat)
    <3>1. "off" \in Kinds
      BY DEF Kinds
    <3> QED
      BY <1>18, <3>1, GroupRunType
  <2>2. \A i \in 1..Len(gs) : r.group[i] \in Group
    <3>1. TAKE i \in 1..Len(gs)
    <3>2. CASE i \in picked
      <4>1. r.group[i] = [enabled |-> Off(gs[i]), cheat |-> E(i, after[i - 1]).cheats]
        BY <1>14, <3>2
      <4>2. Off(gs[i]) \in BOOLEAN
        BY <1>1 DEF Off
      <4>3. E(i, after[i - 1]).cheats \in Seq(Cheat)
        BY <2>1, <4>1
      <4> QED
        BY <4>1, <4>2, <4>3 DEF Group
    <3>3. CASE i \notin picked
      <4>1. r.group[i] = gs[i]
        BY <1>14, <3>3
      <4> QED
        BY <4>1, GroupFacts
    <3> QED
      BY <3>2, <3>3
  <2> QED
    BY <1>1, <1>14, <2>2, MakeGroups
<1>21. GroupRun("off", picked, m, gs, r.mem, r.group)
  BY <1>5, <1>18
<1> QED
  BY <1>19, <1>20, <1>21 DEF picked, r

LEMMA DisableOnGroups ==
    ASSUME NEW m \in Memory, NEW gs \in Groups
    PROVE  LET r == EachGroup(S9xDisableCheat, IsOn, Same, m, gs)
               picked == {i \in 1..Len(gs) : gs[i].enabled}
           IN  /\ GroupRun("off", picked, m, gs, r.mem, r.group)
               /\ r.group \in Groups
               /\ \A i \in 1..Len(gs) : r.group[i].enabled = gs[i].enabled
<1> DEFINE picked == {i \in 1..Len(gs) : gs[i].enabled}
           r == EachGroup(S9xDisableCheat, IsOn, Same, m, gs)
           E(i, k) == Each(S9xDisableCheat, k, gs[i].cheat)
           R == [i \in 1..Len(gs) |-> [k \in Memory |-> E(i, k)]]
           Eq(f) == f = [i \in 0..Len(gs) |->
                           IF i = 0 THEN m
                           ELSE IF IsOn(gs[i]) THEN Each(S9xDisableCheat, f[i - 1], gs[i].cheat).mem
                           ELSE f[i - 1]]
           after == CHOOSE f : Eq(f)
<1>1. /\ Len(gs) \in Nat /\ DOMAIN gs = 1..Len(gs)
      /\ \A i \in 1..Len(gs) : gs[i].cheat \in Seq(Cheat) /\ gs[i].enabled \in BOOLEAN
  BY GroupFacts
<1>2. \A i \in 1..Len(gs), k \in Memory : Run("off", k, gs[i].cheat, E(i, k))
  <2>1. TAKE i \in 1..Len(gs), k \in Memory
  <2>2. gs[i].cheat \in Seq(Cheat)
    BY <1>1
  <2> QED
    BY <2>2, DisableRuns
<1>3. \A i \in 1..Len(gs), k \in Memory : E(i, k).mem \in Memory
  <2>1. TAKE i \in 1..Len(gs), k \in Memory
  <2>2. gs[i].cheat \in Seq(Cheat) /\ Run("off", k, gs[i].cheat, E(i, k))
    BY <1>1, <1>2
  <2> HIDE DEF E
  <2>3. "off" \in Kinds
    BY DEF Kinds
  <2> QED
    BY <2>2, <2>3, RunType
<1>4. \A i \in 1..Len(gs) : i \in picked <=> IsOn(gs[i])
  BY <1>1 DEF IsOn
<1> HIDE DEF picked
<1>5. r.mem = after[Len(gs)]
      /\ r.group = [i \in DOMAIN gs |->
                      IF IsOn(gs[i]) THEN [enabled |-> Same(gs[i]), cheat |-> E(i, after[i - 1]).cheats]
                      ELSE gs[i]]
  BY DEF EachGroup
<1> DEFINE Eq2(f) == f = [i \in 0..Len(gs) |->
                           IF i = 0 THEN m ELSE IF i \in picked THEN E(i, f[i - 1]).mem ELSE f[i - 1]]
<1>6. ASSUME NEW f PROVE Eq(f) <=> Eq2(f)
  <2>1. \A i \in 0..Len(gs) :
           (IF i = 0 THEN m ELSE IF IsOn(gs[i]) THEN Each(S9xDisableCheat, f[i - 1], gs[i].cheat).mem ELSE f[i - 1])
             = IF i = 0 THEN m ELSE IF i \in picked THEN E(i, f[i - 1]).mem ELSE f[i - 1]
    <3> HIDE DEF E
    <3>1. \A i \in 0..Len(gs) : i # 0 => i \in 1..Len(gs)
      BY <1>1
    <3>2. \A i \in 1..Len(gs) : E(i, f[i - 1]) = Each(S9xDisableCheat, f[i - 1], gs[i].cheat)
      BY DEF E
    <3> QED
      BY <1>4, <3>1, <3>2
  <2> QED
    BY <2>1
<1> HIDE DEF E
<1>7. \A i \in 1..Len(gs), k \in Memory : R[i][k] = E(i, k)
  OBVIOUS
<1> HIDE DEF R
<1>8. \E f : Eq(f)
  <2>1. \A i \in 1..Len(gs), k \in Memory : R[i][k].mem \in Memory
    BY <1>3, <1>7
  <2>2. CanRun(R, picked, m, Len(gs))
    BY <1>1, <2>1, GroupsIterated
  <2>3. PICK f \in [0..Len(gs) -> Memory] :
          /\ f[0] = m
          /\ \A i \in 1..Len(gs) : f[i] = IF i \in picked THEN R[i][f[i - 1]].mem ELSE f[i - 1]
    BY <2>2 DEF CanRun
  <2>4. \A i \in 1..Len(gs) : f[i - 1] \in Memory
    BY <1>1
  <2>5. \A i \in 1..Len(gs) : f[i] = IF i \in picked THEN E(i, f[i - 1]).mem ELSE f[i - 1]
    BY <1>7, <2>3, <2>4
  <2>6. \A i \in 0..Len(gs) : i # 0 => i \in 1..Len(gs)
    BY <1>1
  <2>7. \A i \in 0..Len(gs) :
          f[i] = IF i = 0 THEN m ELSE IF i \in picked THEN E(i, f[i - 1]).mem ELSE f[i - 1]
    BY <2>3, <2>5, <2>6
  <2>8. f = [i \in 0..Len(gs) |-> f[i]]
    OBVIOUS
  <2>9. Eq2(f)
    BY <2>7, <2>8
  <2> QED
    BY <1>6, <2>9
<1>9. Eq2(after)
  <2>1. Eq(after)
    BY <1>8
  <2> HIDE DEF after, Eq, Eq2
  <2> QED
    BY <1>6, <2>1
<1> HIDE DEF after, Eq, r
<1>10. after[0] = m /\ \A i \in 1..Len(gs) :
         after[i] = IF i \in picked THEN E(i, after[i - 1]).mem ELSE after[i - 1]
  BY <1>1, <1>9
<1>11. after \in [0..Len(gs) -> Memory]
  <2>1. \A i \in 1..Len(gs) : after[i - 1] \in Memory => after[i] \in Memory
    BY <1>3, <1>10
  <2>2. \A i \in 0..Len(gs) : after[i] \in Memory
    BY <1>1, <1>10, <2>1, IteratedType
  <2> QED
    BY <1>9, <2>2
<1>12. \A i \in 1..Len(gs) : after[i - 1] \in Memory
  BY <1>1, <1>11
<1>13. \A i \in 1..Len(gs) : after[i] = IF i \in picked THEN R[i][after[i - 1]].mem ELSE after[i - 1]
  BY <1>7, <1>10, <1>12
<1>14. r.group = [i \in 1..Len(gs) |->
                   IF i \in picked THEN [enabled |-> Same(gs[i]), cheat |-> E(i, after[i - 1]).cheats]
                   ELSE gs[i]]
  BY <1>1, <1>4, <1>5
<1>15. Len(r.group) = Len(gs)
  BY <1>1, <1>14
<1>16. \A i \in 1..Len(gs) :
         r.group[i].cheat = IF i \in picked THEN R[i][after[i - 1]].cheats ELSE gs[i].cheat
  BY <1>7, <1>12, <1>14
<1>17. \A i \in 1..Len(gs), k \in Memory : Run("off", k, gs[i].cheat, R[i][k])
  BY <1>2, <1>7
<1>18. GroupRun("off", picked, m, gs, after[Len(gs)], r.group)
  <2>1. "off" \in Kinds
    BY DEF Kinds
  <2> QED
    BY <1>10, <1>11, <1>13, <1>15, <1>16, <1>17, <2>1, GroupsRun
<1>19. \A i \in 1..Len(gs) : r.group[i].enabled = gs[i].enabled
  BY <1>1, <1>4, <1>14 DEF Same
<1>20. r.group \in Groups
  <2>1. \A i \in 1..Len(gs) : r.group[i].cheat \in Seq(Cheat)
    <3>1. "off" \in Kinds
      BY DEF Kinds
    <3> QED
      BY <1>18, <3>1, GroupRunType
  <2>2. \A i \in 1..Len(gs) : r.group[i] \in Group
    <3>1. TAKE i \in 1..Len(gs)
    <3>2. CASE i \in picked
      <4>1. r.group[i] = [enabled |-> Same(gs[i]), cheat |-> E(i, after[i - 1]).cheats]
        BY <1>14, <3>2
      <4>2. Same(gs[i]) \in BOOLEAN
        BY <1>1 DEF Same
      <4>3. E(i, after[i - 1]).cheats \in Seq(Cheat)
        BY <2>1, <4>1
      <4> QED
        BY <4>1, <4>2, <4>3 DEF Group
    <3>3. CASE i \notin picked
      <4>1. r.group[i] = gs[i]
        BY <1>14, <3>3
      <4> QED
        BY <4>1, GroupFacts
    <3> QED
      BY <3>2, <3>3
  <2> QED
    BY <1>1, <1>14, <2>2, MakeGroups
<1>21. GroupRun("off", picked, m, gs, r.mem, r.group)
  BY <1>5, <1>18
<1> QED
  BY <1>19, <1>20, <1>21 DEF picked, r

LEMMA EnableOnGroups ==
    ASSUME NEW m \in Memory, NEW gs \in Groups
    PROVE  LET r == EachGroup(EnableOn, IsOn, Same, m, gs)
               picked == {i \in 1..Len(gs) : gs[i].enabled}
           IN  /\ GroupRun("on", picked, m, gs, r.mem, r.group)
               /\ r.group \in Groups
               /\ \A i \in 1..Len(gs) : r.group[i].enabled = gs[i].enabled
<1> DEFINE picked == {i \in 1..Len(gs) : gs[i].enabled}
           r == EachGroup(EnableOn, IsOn, Same, m, gs)
           E(i, k) == Each(EnableOn, k, gs[i].cheat)
           R == [i \in 1..Len(gs) |-> [k \in Memory |-> E(i, k)]]
           Eq(f) == f = [i \in 0..Len(gs) |->
                           IF i = 0 THEN m
                           ELSE IF IsOn(gs[i]) THEN Each(EnableOn, f[i - 1], gs[i].cheat).mem
                           ELSE f[i - 1]]
           after == CHOOSE f : Eq(f)
<1>1. /\ Len(gs) \in Nat /\ DOMAIN gs = 1..Len(gs)
      /\ \A i \in 1..Len(gs) : gs[i].cheat \in Seq(Cheat) /\ gs[i].enabled \in BOOLEAN
  BY GroupFacts
<1>2. \A i \in 1..Len(gs), k \in Memory : Run("on", k, gs[i].cheat, E(i, k))
  <2>1. TAKE i \in 1..Len(gs), k \in Memory
  <2>2. gs[i].cheat \in Seq(Cheat)
    BY <1>1
  <2> QED
    BY <2>2, EnableOnRuns
<1>3. \A i \in 1..Len(gs), k \in Memory : E(i, k).mem \in Memory
  <2>1. TAKE i \in 1..Len(gs), k \in Memory
  <2>2. gs[i].cheat \in Seq(Cheat) /\ Run("on", k, gs[i].cheat, E(i, k))
    BY <1>1, <1>2
  <2> HIDE DEF E
  <2>3. "on" \in Kinds
    BY DEF Kinds
  <2> QED
    BY <2>2, <2>3, RunType
<1>4. \A i \in 1..Len(gs) : i \in picked <=> IsOn(gs[i])
  BY <1>1 DEF IsOn
<1> HIDE DEF picked
<1>5. r.mem = after[Len(gs)]
      /\ r.group = [i \in DOMAIN gs |->
                      IF IsOn(gs[i]) THEN [enabled |-> Same(gs[i]), cheat |-> E(i, after[i - 1]).cheats]
                      ELSE gs[i]]
  BY DEF EachGroup
<1> DEFINE Eq2(f) == f = [i \in 0..Len(gs) |->
                           IF i = 0 THEN m ELSE IF i \in picked THEN E(i, f[i - 1]).mem ELSE f[i - 1]]
<1>6. ASSUME NEW f PROVE Eq(f) <=> Eq2(f)
  <2>1. \A i \in 0..Len(gs) :
           (IF i = 0 THEN m ELSE IF IsOn(gs[i]) THEN Each(EnableOn, f[i - 1], gs[i].cheat).mem ELSE f[i - 1])
             = IF i = 0 THEN m ELSE IF i \in picked THEN E(i, f[i - 1]).mem ELSE f[i - 1]
    <3> HIDE DEF E
    <3>1. \A i \in 0..Len(gs) : i # 0 => i \in 1..Len(gs)
      BY <1>1
    <3>2. \A i \in 1..Len(gs) : E(i, f[i - 1]) = Each(EnableOn, f[i - 1], gs[i].cheat)
      BY DEF E
    <3> QED
      BY <1>4, <3>1, <3>2
  <2> QED
    BY <2>1
<1> HIDE DEF E
<1>7. \A i \in 1..Len(gs), k \in Memory : R[i][k] = E(i, k)
  OBVIOUS
<1> HIDE DEF R
<1>8. \E f : Eq(f)
  <2>1. \A i \in 1..Len(gs), k \in Memory : R[i][k].mem \in Memory
    BY <1>3, <1>7
  <2>2. CanRun(R, picked, m, Len(gs))
    BY <1>1, <2>1, GroupsIterated
  <2>3. PICK f \in [0..Len(gs) -> Memory] :
          /\ f[0] = m
          /\ \A i \in 1..Len(gs) : f[i] = IF i \in picked THEN R[i][f[i - 1]].mem ELSE f[i - 1]
    BY <2>2 DEF CanRun
  <2>4. \A i \in 1..Len(gs) : f[i - 1] \in Memory
    BY <1>1
  <2>5. \A i \in 1..Len(gs) : f[i] = IF i \in picked THEN E(i, f[i - 1]).mem ELSE f[i - 1]
    BY <1>7, <2>3, <2>4
  <2>6. \A i \in 0..Len(gs) : i # 0 => i \in 1..Len(gs)
    BY <1>1
  <2>7. \A i \in 0..Len(gs) :
          f[i] = IF i = 0 THEN m ELSE IF i \in picked THEN E(i, f[i - 1]).mem ELSE f[i - 1]
    BY <2>3, <2>5, <2>6
  <2>8. f = [i \in 0..Len(gs) |-> f[i]]
    OBVIOUS
  <2>9. Eq2(f)
    BY <2>7, <2>8
  <2> QED
    BY <1>6, <2>9
<1>9. Eq2(after)
  <2>1. Eq(after)
    BY <1>8
  <2> HIDE DEF after, Eq, Eq2
  <2> QED
    BY <1>6, <2>1
<1> HIDE DEF after, Eq, r
<1>10. after[0] = m /\ \A i \in 1..Len(gs) :
         after[i] = IF i \in picked THEN E(i, after[i - 1]).mem ELSE after[i - 1]
  BY <1>1, <1>9
<1>11. after \in [0..Len(gs) -> Memory]
  <2>1. \A i \in 1..Len(gs) : after[i - 1] \in Memory => after[i] \in Memory
    BY <1>3, <1>10
  <2>2. \A i \in 0..Len(gs) : after[i] \in Memory
    BY <1>1, <1>10, <2>1, IteratedType
  <2> QED
    BY <1>9, <2>2
<1>12. \A i \in 1..Len(gs) : after[i - 1] \in Memory
  BY <1>1, <1>11
<1>13. \A i \in 1..Len(gs) : after[i] = IF i \in picked THEN R[i][after[i - 1]].mem ELSE after[i - 1]
  BY <1>7, <1>10, <1>12
<1>14. r.group = [i \in 1..Len(gs) |->
                   IF i \in picked THEN [enabled |-> Same(gs[i]), cheat |-> E(i, after[i - 1]).cheats]
                   ELSE gs[i]]
  BY <1>1, <1>4, <1>5
<1>15. Len(r.group) = Len(gs)
  BY <1>1, <1>14
<1>16. \A i \in 1..Len(gs) :
         r.group[i].cheat = IF i \in picked THEN R[i][after[i - 1]].cheats ELSE gs[i].cheat
  BY <1>7, <1>12, <1>14
<1>17. \A i \in 1..Len(gs), k \in Memory : Run("on", k, gs[i].cheat, R[i][k])
  BY <1>2, <1>7
<1>18. GroupRun("on", picked, m, gs, after[Len(gs)], r.group)
  <2>1. "on" \in Kinds
    BY DEF Kinds
  <2> QED
    BY <1>10, <1>11, <1>13, <1>15, <1>16, <1>17, <2>1, GroupsRun
<1>19. \A i \in 1..Len(gs) : r.group[i].enabled = gs[i].enabled
  BY <1>1, <1>4, <1>14 DEF Same
<1>20. r.group \in Groups
  <2>1. \A i \in 1..Len(gs) : r.group[i].cheat \in Seq(Cheat)
    <3>1. "on" \in Kinds
      BY DEF Kinds
    <3> QED
      BY <1>18, <3>1, GroupRunType
  <2>2. \A i \in 1..Len(gs) : r.group[i] \in Group
    <3>1. TAKE i \in 1..Len(gs)
    <3>2. CASE i \in picked
      <4>1. r.group[i] = [enabled |-> Same(gs[i]), cheat |-> E(i, after[i - 1]).cheats]
        BY <1>14, <3>2
      <4>2. Same(gs[i]) \in BOOLEAN
        BY <1>1 DEF Same
      <4>3. E(i, after[i - 1]).cheats \in Seq(Cheat)
        BY <2>1, <4>1
      <4> QED
        BY <4>1, <4>2, <4>3 DEF Group
    <3>3. CASE i \notin picked
      <4>1. r.group[i] = gs[i]
        BY <1>14, <3>3
      <4> QED
        BY <4>1, GroupFacts
    <3> QED
      BY <3>2, <3>3
  <2> QED
    BY <1>1, <1>14, <2>2, MakeGroups
<1>21. GroupRun("on", picked, m, gs, r.mem, r.group)
  BY <1>5, <1>18
<1> QED
  BY <1>19, <1>20, <1>21 DEF picked, r

\* The n-th of gs is run through to r, the group then being g.
OneRun(w, m, gs, n, r, g) ==
    LET hs == [gs EXCEPT ![n] = g]
    IN  /\ GroupRun(w, {n}, m, gs, r.mem, hs)
        /\ hs \in Groups
        /\ hs[n] = g /\ \A i \in 1..Len(gs) : i # n => hs[i] = gs[i]

LEMMA OneGroup ==
    ASSUME NEW w \in Kinds, NEW m \in Memory, NEW gs \in Groups, NEW n \in 1..Len(gs),
           NEW r, Run(w, m, gs[n].cheat, r), NEW g \in Group, g.cheat = r.cheats
    PROVE  OneRun(w, m, gs, n, r, g)
<1> DEFINE hs == [gs EXCEPT ![n] = g]
           f == [i \in 0..Len(gs) |-> IF i < n THEN m ELSE r.mem]
<1>1. /\ Len(gs) \in Nat /\ DOMAIN gs = 1..Len(gs)
      /\ \A i \in 1..Len(gs) : gs[i] \in Group /\ gs[i].cheat \in Seq(Cheat)
  BY GroupFacts
<1>2. r.mem \in Memory /\ r.cheats \in Seq(Cheat)
  <2>1. gs[n].cheat \in Seq(Cheat)
    BY <1>1
  <2> QED
    BY <2>1, RunType
<1>4. hs \in Groups /\ Len(hs) = Len(gs) /\ hs[n] = g
      /\ \A i \in 1..Len(gs) : i # n => hs[i] = gs[i]
  BY <1>1 DEF Groups
<1> HIDE DEF hs
<1>5. f \in [0..Len(gs) -> Memory] /\ f[0] = m /\ f[Len(gs)] = r.mem
  BY <1>1, <1>2
<1>6. /\ f[n - 1] = m /\ f[n] = r.mem
      /\ \A i \in 1..Len(gs) : i # n => f[i] = f[i - 1]
  BY <1>1
<1> HIDE DEF f
<1>7. ASSUME NEW i \in 1..Len(gs)
      PROVE  \/ i \in {n} /\ \E q : /\ Run(w, f[i - 1], gs[i].cheat, q)
                                    /\ f[i] = q.mem /\ hs[i].cheat = q.cheats
             \/ i \notin {n} /\ f[i] = f[i - 1] /\ hs[i].cheat = gs[i].cheat
  <2>1. CASE i = n
    <3>1. Run(w, f[i - 1], gs[i].cheat, r) /\ f[i] = r.mem /\ hs[i].cheat = r.cheats
      BY <1>4, <1>6, <2>1
    <3> QED
      BY <2>1, <3>1
  <2>2. CASE i # n
    BY <1>4, <1>6, <2>2
  <2> QED
    BY <2>1, <2>2
<1>8. GroupRun(w, {n}, m, gs, r.mem, hs)
  BY <1>4, <1>5, <1>7 DEF GroupRun
<1> QED
  BY <1>4, <1>8 DEF hs, OneRun
-----------------------------------------------------------------------------
(* What a run leaves at one address. *)

LEMMA Constant ==
    ASSUME NEW n \in Nat, NEW lo \in 0..n, NEW y,
           \A i \in (lo + 1)..n : y[i] = y[i - 1]
    PROVE  y[n] = y[lo]
<1> DEFINE f == [i \in 0..(n - lo) |-> y[lo + i]]
           S == {y[lo]}
<1>1. n - lo \in Nat /\ f[0] = y[lo] /\ f[n - lo] = y[n]
  OBVIOUS
<1>2. ASSUME NEW i \in 1..(n - lo) PROVE f[i] = f[i - 1]
  <2>1. lo + i \in (lo + 1)..n /\ (lo + i) - 1 = lo + (i - 1) /\ i - 1 \in 0..(n - lo)
    OBVIOUS
  <2>2. y[lo + i] = y[(lo + i) - 1]
    BY <2>1
  <2> QED
    BY <2>1, <2>2
<1> HIDE DEF f
<1>3. \A i \in 0..(n - lo) : f[i] \in S
  <2>1. f[0] \in S /\ \A i \in 1..(n - lo) : f[i - 1] \in S => f[i] \in S
    BY <1>1, <1>2
  <2> HIDE DEF S
  <2> QED
    BY <1>1, <2>1, IteratedType
<1> QED
  BY <1>1, <1>3

LEMMA Alone ==
    ASSUME NEW n \in Nat, NEW k \in 1..n, NEW y,
           \A i \in (1..n) \ {k} : y[i] = y[i - 1]
    PROVE  y[k - 1] = y[0] /\ y[n] = y[k]
<1>1. y[k - 1] = y[0]
  <2>1. k - 1 \in Nat /\ 0 \in 0..(k - 1) /\ \A i \in (0 + 1)..(k - 1) : i \in (1..n) \ {k}
    OBVIOUS
  <2>2. \A i \in (0 + 1)..(k - 1) : y[i] = y[i - 1]
    BY <2>1
  <2> QED
    BY <2>1, <2>2, Constant
<1>2. y[n] = y[k]
  <2>1. k \in 0..n /\ \A i \in (k + 1)..n : i \in (1..n) \ {k}
    OBVIOUS
  <2>2. \A i \in (k + 1)..n : y[i] = y[i - 1]
    BY <2>1
  <2> QED
    BY <2>1, <2>2, Constant
<1> QED
  BY <1>1, <1>2

\* The cheat c may write to address a.
Writes(w, c, a) == c.address = a /\ Touches(w, c)

\* What is left at a, and of the cheat, when nothing else writes to a.
Did(w, m, c, a, byte, d) ==
    \E k \in Memory : k[a] = m[a] /\ d = Do(w, k, c).cheat /\ byte = Do(w, k, c).mem[a]

LEMMA DoWrites ==
    ASSUME NEW w \in Kinds, NEW m \in Memory, NEW c \in Cheat, NEW a \in Addresses,
           ~Writes(w, c, a)
    PROVE  Do(w, m, c).mem[a] = m[a]
<1>1. CASE c.address # a
  <2>1. Decent(m, c, Do(w, m, c))
    BY DoFacts
  <2> QED
    BY <1>1, <2>1 DEF Decent
<1>2. CASE c.address = a
  <2>1. ~Touches(w, c)
    BY <1>2 DEF Writes
  <2>2. Do(w, m, c).mem = m
    BY <2>1, DoFacts
  <2> QED
    BY <2>2
<1> QED
  BY <1>1, <1>2

LEMMA RunAlone ==
    ASSUME NEW w \in Kinds, NEW m \in Memory, NEW cs \in Seq(Cheat), NEW r, Run(w, m, cs, r),
           NEW a \in Addresses
    PROVE  /\ (\A j \in 1..Len(cs) : ~Writes(w, cs[j], a)) => r.mem[a] = m[a]
           /\ \A j \in 1..Len(cs) : \E k \in Memory : r.cheats[j] = Do(w, k, cs[j]).cheat
           /\ \A j \in 1..Len(cs) :
                (\A i \in (1..Len(cs)) \ {j} : ~Writes(w, cs[i], a))
                  => Did(w, m, cs[j], a, r.mem[a], r.cheats[j])
<1>1. PICK f : /\ Steps(w, m, cs, f) /\ r.mem = f[Len(cs)]
               /\ r.cheats = [i \in 1..Len(cs) |-> Do(w, f[i - 1], cs[i]).cheat]
  BY DEF Run
<1>2. Len(cs) \in Nat /\ \A i \in 1..Len(cs) : cs[i] \in Cheat
  OBVIOUS
<1>3. /\ f[0] = m /\ \A i \in 1..Len(cs) : f[i - 1] \in Memory
      /\ \A i \in 1..Len(cs) : f[i] = Do(w, f[i - 1], cs[i]).mem
  BY <1>1, <1>2 DEF Steps
<1> DEFINE y == [i \in 0..Len(cs) |-> f[i][a]]
<1>4. /\ y[0] = m[a] /\ y[Len(cs)] = r.mem[a]
      /\ \A i \in 1..Len(cs) : y[i] = f[i][a] /\ y[i - 1] = f[i - 1][a]
  BY <1>1, <1>2, <1>3
<1> HIDE DEF y
<1>5. ASSUME NEW i \in 1..Len(cs), ~Writes(w, cs[i], a) PROVE y[i] = y[i - 1]
  <2>1. cs[i] \in Cheat /\ f[i - 1] \in Memory
    BY <1>2, <1>3
  <2>2. Do(w, f[i - 1], cs[i]).mem[a] = f[i - 1][a]
    BY <1>5, <2>1, DoWrites
  <2> QED
    BY <1>3, <1>4, <2>2
<1>6. ASSUME \A j \in 1..Len(cs) : ~Writes(w, cs[j], a) PROVE r.mem[a] = m[a]
  <2>1. 0 \in 0..Len(cs) /\ \A i \in (0 + 1)..Len(cs) : y[i] = y[i - 1]
    BY <1>2, <1>5, <1>6
  <2>2. y[Len(cs)] = y[0]
    BY <1>2, <2>1, Constant
  <2> QED
    BY <1>4, <2>2
<1>7. ASSUME NEW j \in 1..Len(cs), \A i \in (1..Len(cs)) \ {j} : ~Writes(w, cs[i], a)
      PROVE  Did(w, m, cs[j], a, r.mem[a], r.cheats[j])
  <2>1. \A i \in (1..Len(cs)) \ {j} : y[i] = y[i - 1]
    BY <1>5, <1>7
  <2>2. y[j - 1] = y[0] /\ y[Len(cs)] = y[j]
    BY <1>2, <2>1, Alone
  <2>3. f[j - 1] \in Memory /\ f[j - 1][a] = m[a] /\ r.cheats[j] = Do(w, f[j - 1], cs[j]).cheat
    BY <1>1, <1>3, <1>4, <2>2
  <2>4. r.mem[a] = Do(w, f[j - 1], cs[j]).mem[a]
    BY <1>3, <1>4, <2>2
  <2> QED
    BY <2>3, <2>4 DEF Did
<1>8. \A j \in 1..Len(cs) : \E k \in Memory : r.cheats[j] = Do(w, k, cs[j]).cheat
  <2>1. TAKE j \in 1..Len(cs)
  <2>2. f[j - 1] \in Memory /\ r.cheats[j] = Do(w, f[j - 1], cs[j]).cheat
    BY <1>1, <1>3
  <2> QED
    BY <2>2
<1> QED
  BY <1>6, <1>7, <1>8

\* No cheat of the groups picked writes to a, but perhaps the j0-th of the i0-th.
Silent(w, picked, gs, a, i0, j0) ==
    \A i \in 1..Len(gs) : \A j \in 1..Len(gs[i].cheat) :
       i \in picked /\ (i # i0 \/ j # j0) => ~Writes(w, gs[i].cheat[j], a)

\* What the run from memory m and the groups gs to m2 and hs leaves at a.
Outcome(w, picked, m, gs, m2, hs, a) ==
    /\ Silent(w, picked, gs, a, 0, 0) => m2[a] = m[a]
    /\ \A i \in 1..Len(gs) : \A j \in 1..Len(gs[i].cheat) :
          /\ i \notin picked => hs[i].cheat[j] = gs[i].cheat[j]
          /\ i \in picked => \E k \in Memory : hs[i].cheat[j] = Do(w, k, gs[i].cheat[j]).cheat
          /\ i \in picked /\ Silent(w, picked, gs, a, i, j)
               => Did(w, m, gs[i].cheat[j], a, m2[a], hs[i].cheat[j])

LEMMA GroupAlone ==
    ASSUME NEW w \in Kinds, NEW picked, NEW m \in Memory, NEW gs \in Groups, NEW m2, NEW hs,
           GroupRun(w, picked, m, gs, m2, hs), NEW a \in Addresses
    PROVE  Outcome(w, picked, m, gs, m2, hs, a)
<1>1. PICK f \in [0..Len(gs) -> Memory] :
          /\ f[0] = m /\ f[Len(gs)] = m2
          /\ \A i \in 1..Len(gs) :
                \/ i \in picked /\ \E r : /\ Run(w, f[i - 1], gs[i].cheat, r)
                                         /\ f[i] = r.mem /\ hs[i].cheat = r.cheats
                \/ i \notin picked /\ f[i] = f[i - 1] /\ hs[i].cheat = gs[i].cheat
  BY DEF GroupRun
<1>2. Len(gs) \in Nat /\ \A i \in 1..Len(gs) : gs[i].cheat \in Seq(Cheat)
  BY GroupFacts
<1>3. \A i \in 1..Len(gs) : f[i - 1] \in Memory /\ f[i] \in Memory
  BY <1>2
<1> DEFINE y == [i \in 0..Len(gs) |-> f[i][a]]
<1>4. /\ y[0] = m[a] /\ y[Len(gs)] = m2[a]
      /\ \A i \in 1..Len(gs) : y[i] = f[i][a] /\ y[i - 1] = f[i - 1][a]
  BY <1>1, <1>2
<1> HIDE DEF y
<1>5. ASSUME NEW i \in 1..Len(gs), i \in picked
      PROVE  \E r : /\ Run(w, f[i - 1], gs[i].cheat, r) /\ f[i] = r.mem /\ hs[i].cheat = r.cheats
                    /\ (\A j \in 1..Len(gs[i].cheat) : ~Writes(w, gs[i].cheat[j], a)) => y[i] = y[i - 1]
                    /\ \A j \in 1..Len(gs[i].cheat) :
                         \E k \in Memory : r.cheats[j] = Do(w, k, gs[i].cheat[j]).cheat
                    /\ \A j \in 1..Len(gs[i].cheat) :
                         (\A l \in (1..Len(gs[i].cheat)) \ {j} : ~Writes(w, gs[i].cheat[l], a))
                           => Did(w, f[i - 1], gs[i].cheat[j], a, r.mem[a], r.cheats[j])
  <2>1. PICK r : /\ Run(w, f[i - 1], gs[i].cheat, r) /\ f[i] = r.mem /\ hs[i].cheat = r.cheats
    BY <1>1, <1>5
  <2> DEFINE cs == gs[i].cheat
  <2>2. f[i - 1] \in Memory /\ cs \in Seq(Cheat) /\ Run(w, f[i - 1], cs, r)
    BY <1>2, <1>3, <2>1
  <2> HIDE DEF cs
  <2>3. /\ (\A j \in 1..Len(cs) : ~Writes(w, cs[j], a)) => r.mem[a] = f[i - 1][a]
        /\ \A j \in 1..Len(cs) : \E k \in Memory : r.cheats[j] = Do(w, k, cs[j]).cheat
        /\ \A j \in 1..Len(cs) :
             (\A l \in (1..Len(cs)) \ {j} : ~Writes(w, cs[l], a))
               => Did(w, f[i - 1], cs[j], a, r.mem[a], r.cheats[j])
    BY <2>2, RunAlone
  <2>4. (\A j \in 1..Len(cs) : ~Writes(w, cs[j], a)) => y[i] = y[i - 1]
    BY <1>4, <2>1, <2>3
  <2>5. /\ Run(w, f[i - 1], cs, r) /\ f[i] = r.mem /\ hs[i].cheat = r.cheats
        /\ (\A j \in 1..Len(cs) : ~Writes(w, cs[j], a)) => y[i] = y[i - 1]
        /\ \A j \in 1..Len(cs) : \E k \in Memory : r.cheats[j] = Do(w, k, cs[j]).cheat
        /\ \A j \in 1..Len(cs) :
             (\A l \in (1..Len(cs)) \ {j} : ~Writes(w, cs[l], a))
               => Did(w, f[i - 1], cs[j], a, r.mem[a], r.cheats[j])
    BY <2>1, <2>2, <2>3, <2>4
  <2> QED
    BY <2>5, Zenon DEF cs
<1>6. ASSUME NEW i \in 1..Len(gs),
             i \in picked => \A j \in 1..Len(gs[i].cheat) : ~Writes(w, gs[i].cheat[j], a)
      PROVE  y[i] = y[i - 1]
  <2>1. CASE i \in picked
    BY <1>5, <1>6, <2>1
  <2>2. CASE i \notin picked
    <3>1. f[i] = f[i - 1]
      BY <1>1, <2>2
    <3> QED
      BY <1>4, <3>1
  <2> QED
    BY <2>1, <2>2
<1>7. ASSUME Silent(w, picked, gs, a, 0, 0) PROVE m2[a] = m[a]
  <2>1. \A i \in 1..Len(gs) : i \in picked => \A j \in 1..Len(gs[i].cheat) : ~Writes(w, gs[i].cheat[j], a)
    <3>1. \A i \in 1..Len(gs) : i # 0
      BY <1>2
    <3> QED
      BY <1>7, <3>1 DEF Silent
  <2>2. 0 \in 0..Len(gs) /\ \A i \in (0 + 1)..Len(gs) : i \in 1..Len(gs)
    BY <1>2
  <2>3. \A i \in (0 + 1)..Len(gs) : y[i] = y[i - 1]
    BY <1>6, <2>1, <2>2
  <2>4. y[Len(gs)] = y[0]
    BY <1>2, <2>2, <2>3, Constant
  <2> QED
    BY <1>4, <2>4
<1>8. ASSUME NEW i \in 1..Len(gs), NEW j \in 1..Len(gs[i].cheat), i \notin picked
      PROVE  hs[i].cheat[j] = gs[i].cheat[j]
  BY <1>1, <1>8
<1>9. ASSUME NEW i \in 1..Len(gs), NEW j \in 1..Len(gs[i].cheat), i \in picked
      PROVE  \E k \in Memory : hs[i].cheat[j] = Do(w, k, gs[i].cheat[j]).cheat
  BY <1>5, <1>9
<1>10. ASSUME NEW i \in 1..Len(gs), NEW j \in 1..Len(gs[i].cheat), i \in picked,
              Silent(w, picked, gs, a, i, j)
       PROVE  Did(w, m, gs[i].cheat[j], a, m2[a], hs[i].cheat[j])
  <2>1. PICK r : /\ f[i] = r.mem /\ hs[i].cheat = r.cheats
                 /\ \A l \in 1..Len(gs[i].cheat) :
                      (\A q \in (1..Len(gs[i].cheat)) \ {l} : ~Writes(w, gs[i].cheat[q], a))
                        => Did(w, f[i - 1], gs[i].cheat[l], a, r.mem[a], r.cheats[l])
    BY <1>5, <1>10
  <2>2. Did(w, f[i - 1], gs[i].cheat[j], a, f[i][a], hs[i].cheat[j])
    <3>1. \A q \in (1..Len(gs[i].cheat)) \ {j} : ~Writes(w, gs[i].cheat[q], a)
      BY <1>10 DEF Silent
    <3> QED
      BY <2>1, <3>1
  <2>3. \A l \in (1..Len(gs)) \ {i} : y[l] = y[l - 1]
    <3>1. ASSUME NEW l \in (1..Len(gs)) \ {i} PROVE y[l] = y[l - 1]
      <4>1. l \in picked => \A q \in 1..Len(gs[l].cheat) : ~Writes(w, gs[l].cheat[q], a)
        BY <1>10 DEF Silent
      <4> QED
        BY <1>6, <4>1
    <3> QED
      BY <3>1
  <2>4. y[i - 1] = y[0] /\ y[Len(gs)] = y[i]
    BY <1>2, <2>3, Alone
  <2>5. f[i - 1][a] = m[a] /\ f[i][a] = m2[a]
    BY <1>4, <2>4
  <2> QED
    BY <2>2, <2>5 DEF Did
<1> QED
  BY <1>7, <1>8, <1>9, <1>10 DEF Outcome
-----------------------------------------------------------------------------
(* One cheat at its address, where the game's own byte is o.                 *)

\* Memory x holds the game's byte, or the cheat's and then the cheat has saved
\* the game's.
Good(x, o, c) ==
    \/ x = o
    \/ /\ x = c.byte /\ c.saved_byte = o
       /\ c.conditional => c.cond_true /\ o = c.cond_byte

\* After an update: put there, or its condition not met.
Settled(x, o, c) ==
    \/ x = o /\ c.conditional /\ o # c.cond_byte /\ ~c.cond_true
    \/ /\ x = c.byte /\ c.saved_byte = o
       /\ c.conditional => c.cond_true /\ o = c.cond_byte

LEMMA UpdateOne ==
    ASSUME NEW m \in Memory, NEW c \in Cheat, NEW o, c.enabled, Good(m[c.address], o, c), o # c.byte
    PROVE  LET u == S9xUpdateCheatInMemory(m, c) IN Settled(u.mem[c.address], o, u.cheat)
<1> DEFINE byte == m[c.address]
           met == c.conditional /\ byte = c.cond_byte
           u == S9xUpdateCheatInMemory(m, c)
           c1 == [c EXCEPT !.saved_byte = byte, !.cond_true = FALSE]
           c2 == [c EXCEPT !.saved_byte = byte, !.cond_true = met \/ @]
<1>1. Put(m, c, c.byte)[c.address] = c.byte
  <2>1. c.byte \in Bytes
    BY DEF Cheat
  <2> QED
    BY <2>1, PutFacts
<1>2. /\ c1.conditional = c.conditional /\ c1.cond_byte = c.cond_byte /\ c1.cond_true = FALSE
      /\ c2.conditional = c.conditional /\ c2.cond_byte = c.cond_byte
      /\ c2.byte = c.byte /\ c2.saved_byte = byte
  BY DEF Cheat
<1>3. met => c2.cond_true
  BY DEF Cheat
<1>4. CASE byte # c.byte /\ c.conditional /\ ~met
  <2>1. u.mem = m /\ u.cheat = c1
    BY <1>4 DEF S9xUpdateCheatInMemory, After
  <2>2. byte = o
    BY <1>4 DEF Good
  <2> HIDE DEF u, c1
  <2> QED
    BY <1>2, <1>4, <2>1, <2>2 DEF Settled, u
<1>5. CASE byte # c.byte /\ ~(c.conditional /\ ~met)
  <2>1. u.mem = Put(m, c, c.byte) /\ u.cheat = c2
    BY <1>5 DEF S9xUpdateCheatInMemory, After
  <2>2. byte = o
    BY <1>5 DEF Good
  <2>3. c.conditional => met
    BY <1>5
  <2> HIDE DEF u, c2
  <2>4. c2.conditional => c2.cond_true /\ o = c2.cond_byte
    BY <1>2, <1>3, <2>2, <2>3
  <2> QED
    BY <1>1, <1>2, <2>1, <2>2, <2>4 DEF Settled, u
<1>6. CASE byte = c.byte
  <2>1. c.saved_byte = o /\ (c.conditional => c.cond_true /\ o = c.cond_byte)
    BY <1>6 DEF Good
  <2>2. ~met
    BY <1>6, <2>1
  <2>3. u.mem = m /\ u.cheat = c
    BY <1>6, <2>2 DEF S9xUpdateCheatInMemory, After
  <2> HIDE DEF u
  <2> QED
    BY <1>6, <2>1, <2>3 DEF Settled, u
<1> QED
  BY <1>4, <1>5, <1>6

LEMMA SettledGood ==
    ASSUME NEW x, NEW o, NEW c, NEW d, Settled(x, o, d), SameCode(c, d)
    PROVE  /\ Good(x, o, d)
           /\ x = IF c.conditional /\ o # c.cond_byte THEN o ELSE c.byte
BY DEF Settled, SameCode, Good

LEMMA DisableOne ==
    ASSUME NEW m \in Memory, NEW c \in Cheat, NEW o, on, c.enabled, Good(m[c.address], o, c), o # c.byte
    PROVE  S9xDisableCheat(m, c).mem[c.address] = o
<1> DEFINE u == S9xUpdateCheatInMemory(m, c)
           off == [u.cheat EXCEPT !.enabled = FALSE]
           d == S9xDisableCheat(m, c)
<1>1. u.mem \in Memory /\ u.cheat \in Cheat /\ SameCode(c, u.cheat)
  BY UpdateFacts DEF Decent
<1>2. Settled(u.mem[c.address], o, u.cheat)
  BY UpdateOne
<1>3. d.mem = IF c.conditional /\ ~off.cond_true THEN u.mem ELSE Put(u.mem, c, off.saved_byte)
  BY DEF S9xDisableCheat, After
<1> HIDE DEF u, d
<1>4. off.cond_true = u.cheat.cond_true /\ off.saved_byte = u.cheat.saved_byte /\ off.saved_byte \in Bytes
  BY <1>1 DEF Cheat
<1> HIDE DEF off
<1>5. Put(u.mem, c, off.saved_byte)[c.address] = off.saved_byte
  BY <1>1, <1>4, PutFacts
<1>6. u.cheat.conditional = c.conditional
  BY <1>1 DEF SameCode
<1>7. CASE c.conditional /\ ~off.cond_true
  <2>1. u.mem[c.address] = o
    BY <1>2, <1>4, <1>6, <1>7 DEF Settled
  <2> QED
    BY <1>3, <1>7, <2>1 DEF d
<1>8. CASE ~(c.conditional /\ ~off.cond_true)
  <2>1. off.saved_byte = o
    BY <1>2, <1>4, <1>6, <1>8 DEF Settled
  <2> QED
    BY <1>3, <1>5, <1>8, <2>1 DEF d
<1> QED
  BY <1>7, <1>8

LEMMA EnableOne ==
    ASSUME NEW m \in Memory, NEW c \in Cheat, ~c.enabled
    PROVE  LET u == EnableOn(m, c) IN Good(u.mem[c.address], m[c.address], u.cheat)
<1> DEFINE byte == m[c.address]
           enabled == [c EXCEPT !.enabled = TRUE]
           e2 == [enabled EXCEPT !.saved_byte = byte, !.cond_true = c.conditional \/ @]
           u == EnableOn(m, c)
<1>1. Put(m, c, c.byte)[c.address] = c.byte
  <2>1. c.byte \in Bytes
    BY DEF Cheat
  <2> QED
    BY <2>1, PutFacts
<1>2. /\ e2.byte = c.byte /\ e2.conditional = c.conditional /\ e2.cond_byte = c.cond_byte
      /\ e2.saved_byte = byte
  BY DEF Cheat
<1>3. c.conditional => e2.cond_true
  BY DEF Cheat
<1>4. CASE c.conditional /\ byte # c.cond_byte
  <2>1. u.mem = m
    BY <1>4 DEF EnableOn, S9xEnableCheat, After
  <2> HIDE DEF u
  <2> QED
    BY <2>1 DEF Good, u
<1>5. CASE ~(c.conditional /\ byte # c.cond_byte)
  <2>1. u.mem = Put(m, c, c.byte) /\ u.cheat = e2
    BY <1>5 DEF EnableOn, S9xEnableCheat, After
  <2> HIDE DEF u, e2
  <2> QED
    BY <1>1, <1>2, <1>3, <1>5, <2>1 DEF Good, u
<1> QED
  BY <1>4, <1>5
-----------------------------------------------------------------------------
(* All cheats at an address a.                                               *)

\* The j-th cheat of the i-th of the groups gs is enabled at a.
Set(gs, a, i, j) == /\ i \in 1..Len(gs) /\ j \in 1..Len(gs[i].cheat)
                    /\ gs[i].cheat[j].enabled /\ gs[i].cheat[j].address = a

\* What a holds is the game's, or of the cheats enabled there.
OK(m, o, gs, a) ==
    /\ (\A i, j : ~Set(gs, a, i, j)) => m[a] = o[a]
    /\ \A i, j : Set(gs, a, i, j) => Good(m[a], o[a], gs[i].cheat[j])

Lone(gs, a) == \A i, j, k, l : Set(gs, a, i, j) /\ Set(gs, a, k, l) => i = k /\ j = l

Unlike(gs, o, a) == \A i, j : Set(gs, a, i, j) => o[a] # gs[i].cheat[j].byte

\* The cheat of a group, after a run, where it was.
LEMMA Kept ==
    ASSUME NEW w \in Kinds, NEW picked, NEW m \in Memory, NEW gs \in Groups, NEW m2, NEW hs,
           GroupRun(w, picked, m, gs, m2, hs),
           NEW i \in 1..Len(gs), NEW j \in 1..Len(gs[i].cheat)
    PROVE  /\ SameCode(gs[i].cheat[j], hs[i].cheat[j])
           /\ gs[i].cheat[j] \in Cheat /\ hs[i].cheat[j] \in Cheat
           /\ hs[i].cheat[j].enabled = IF i \notin picked \/ w = "update" THEN gs[i].cheat[j].enabled
                                       ELSE w # "off"
<1> DEFINE c == gs[i].cheat[j]
<1>1. gs[i].cheat \in Seq(Cheat)
  BY GroupFacts
<1>2. c \in Cheat
  BY <1>1
<1>3. CASE i \in picked
  <2>1. PICK k \in Memory : hs[i].cheat[j] = Do(w, k, c).cheat
    <3>1. c.address \in Addresses
      BY <1>2 DEF Cheat
    <3>2. \E k \in Memory : hs[i].cheat[j] = Do(w, k, gs[i].cheat[j]).cheat
      <4> DEFINE a == c.address
      <4>1. a \in Addresses
        BY <3>1
      <4> HIDE DEF a
      <4>2. \A x \in 1..Len(gs) : \A y \in 1..Len(gs[x].cheat) :
              x \in picked => \E k \in Memory : hs[x].cheat[y] = Do(w, k, gs[x].cheat[y]).cheat
        <5>1. Outcome(w, picked, m, gs, m2, hs, a)
          BY <4>1, GroupAlone
        <5> QED
          BY <5>1 DEF Outcome
      <4> QED
        BY <1>3, <4>2
    <3> QED
      BY <3>2
  <2> HIDE DEF c
  <2>2. /\ Decent(k, c, Do(w, k, c))
        /\ Do(w, k, c).cheat.enabled = IF w = "update" THEN c.enabled ELSE w # "off"
    BY <1>2, DoFacts
  <2>3. SameCode(c, hs[i].cheat[j]) /\ hs[i].cheat[j] \in Cheat
    BY <2>1, <2>2 DEF Decent
  <2>4. hs[i].cheat[j].enabled = IF i \notin picked \/ w = "update" THEN c.enabled ELSE w # "off"
    BY <1>3, <2>1, <2>2
  <2> QED
    BY <1>2, <2>3, <2>4 DEF c
<1>4. CASE i \notin picked
  <2>1. hs[i].cheat[j] = c
    <3>1. c.address \in Addresses
      BY <1>2 DEF Cheat
    <3>2. hs[i].cheat[j] = gs[i].cheat[j]
      <4> DEFINE a == c.address
      <4>1. a \in Addresses
        BY <3>1
      <4> HIDE DEF a
      <4>2. \A x \in 1..Len(gs) : \A y \in 1..Len(gs[x].cheat) :
              x \notin picked => hs[x].cheat[y] = gs[x].cheat[y]
        <5>1. Outcome(w, picked, m, gs, m2, hs, a)
          BY <4>1, GroupAlone
        <5> QED
          BY <5>1 DEF Outcome
      <4> QED
        BY <1>4, <4>2
    <3> QED
      BY <3>2
  <2>2. SameCode(c, c)
    BY DEF SameCode
  <2> HIDE DEF c
  <2>3. hs[i].cheat[j].enabled = IF i \notin picked \/ w = "update" THEN c.enabled ELSE w # "off"
    BY <1>4, <2>1
  <2> QED
    BY <1>2, <2>1, <2>2, <2>3 DEF c
<1> QED
  BY <1>3, <1>4

\* Which are enabled at an address then.
LEMMA SetAfter ==
    ASSUME NEW w \in Kinds, NEW picked, NEW m \in Memory, NEW gs \in Groups, NEW m2, NEW hs,
           GroupRun(w, picked, m, gs, m2, hs), NEW a
    PROVE  \A i, j :
             Set(hs, a, i, j) <=> /\ i \in 1..Len(gs) /\ j \in 1..Len(gs[i].cheat)
                                  /\ gs[i].cheat[j].address = a
                                  /\ IF i \notin picked \/ w = "update" THEN gs[i].cheat[j].enabled
                                     ELSE w # "off"
<1>1. TAKE i, j
<1>2. Len(hs) = Len(gs)
  BY DEF GroupRun
<1>3. CASE i \in 1..Len(gs)
  <2>1. Len(hs[i].cheat) = Len(gs[i].cheat)
    BY <1>3, GroupRunType
  <2>2. CASE j \in 1..Len(gs[i].cheat)
    <3>1. /\ SameCode(gs[i].cheat[j], hs[i].cheat[j])
          /\ hs[i].cheat[j].enabled = IF i \notin picked \/ w = "update" THEN gs[i].cheat[j].enabled
                                      ELSE w # "off"
      BY <1>3, <2>2, Kept
    <3> QED
      BY <1>2, <1>3, <2>1, <2>2, <3>1 DEF Set, SameCode
  <2>3. CASE j \notin 1..Len(gs[i].cheat)
    BY <2>1, <2>3 DEF Set
  <2> QED
    BY <2>2, <2>3
<1>4. CASE i \notin 1..Len(gs)
  BY <1>2, <1>4 DEF Set
<1> QED
  BY <1>3, <1>4
\* The same, seen from a cheat.
LEMMA SetCheat ==
    ASSUME NEW gs \in Groups, NEW a, NEW i, NEW j, Set(gs, a, i, j)
    PROVE  /\ i \in 1..Len(gs) /\ j \in 1..Len(gs[i].cheat)
           /\ gs[i].cheat[j] \in Cheat /\ gs[i].cheat[j].enabled /\ gs[i].cheat[j].address = a
<1>1. i \in 1..Len(gs) /\ j \in 1..Len(gs[i].cheat)
  BY DEF Set
<1>2. gs[i].cheat \in Seq(Cheat)
  BY <1>1, GroupFacts
<1> QED
  BY <1>1, <1>2 DEF Set

LEMMA Undisturbed ==
    ASSUME NEW w \in Kinds, NEW picked, NEW m \in Memory, NEW gs \in Groups, NEW m2, NEW hs,
           GroupRun(w, picked, m, gs, m2, hs), NEW a \in Addresses,
           \A i \in 1..Len(gs) : \A j \in 1..Len(gs[i].cheat) :
              i \in picked => ~Writes(w, gs[i].cheat[j], a)
    PROVE  m2[a] = m[a]
<1>1. Silent(w, picked, gs, a, 0, 0)
  BY DEF Silent
<1> QED
  BY <1>1, GroupAlone DEF Outcome

LEMMA AloneDid ==
    ASSUME NEW w \in Kinds, NEW picked, NEW m \in Memory, NEW gs \in Groups, NEW m2, NEW hs,
           GroupRun(w, picked, m, gs, m2, hs), NEW a \in Addresses,
           NEW i \in 1..Len(gs), NEW j \in 1..Len(gs[i].cheat), i \in picked,
           Silent(w, picked, gs, a, i, j)
    PROVE  \E k \in Memory : /\ k[a] = m[a] /\ hs[i].cheat[j] = Do(w, k, gs[i].cheat[j]).cheat
                             /\ m2[a] = Do(w, k, gs[i].cheat[j]).mem[a]
<1>1. Did(w, m, gs[i].cheat[j], a, m2[a], hs[i].cheat[j])
  BY GroupAlone DEF Outcome
<1> QED
  BY <1>1 DEF Did

\* Cheats stand right at a and have put there what they should.
Updated(o, m2, hs, a) ==
    /\ OK(m2, o, hs, a)
    /\ \A i, j : Set(hs, a, i, j) =>
          m2[a] = IF hs[i].cheat[j].conditional /\ o[a] # hs[i].cheat[j].cond_byte
                  THEN o[a] ELSE hs[i].cheat[j].byte

\* A frame's end: cheats that stand right stand right, each put in place.
LEMMA UpdateOK ==
    ASSUME NEW m \in Memory, NEW gs \in Groups, NEW m2, NEW hs, NEW o, NEW a \in Addresses,
           GroupRun("update", 1..Len(gs), m, gs, m2, hs),
           OK(m, o, gs, a), Lone(gs, a), Unlike(gs, o, a)
    PROVE  Updated(o, m2, hs, a)
<1> DEFINE picked == 1..Len(gs)
<1>1. "update" \in Kinds
  BY DEF Kinds
<1>2. \A i, j : Set(hs, a, i, j) <=> Set(gs, a, i, j)
  <2>1. \A i, j : Set(hs, a, i, j) <=> /\ i \in 1..Len(gs) /\ j \in 1..Len(gs[i].cheat)
                                       /\ gs[i].cheat[j].address = a
                                       /\ gs[i].cheat[j].enabled
    BY <1>1, SetAfter
  <2> QED
    BY <2>1 DEF Set
<1>3. ASSUME \A i, j : ~Set(gs, a, i, j) PROVE OK(m2, o, hs, a)
  <2>1. \A i \in 1..Len(gs) : \A j \in 1..Len(gs[i].cheat) : ~Writes("update", gs[i].cheat[j], a)
    BY <1>3 DEF Writes, Touches, Set
  <2>2. m2[a] = m[a]
    BY <1>1, <2>1, Undisturbed
  <2> QED
    BY <1>2, <1>3, <2>2 DEF OK
<1>4. ASSUME NEW i, NEW j, Set(gs, a, i, j)
      PROVE  /\ Good(m2[a], o[a], hs[i].cheat[j])
             /\ m2[a] = IF hs[i].cheat[j].conditional /\ o[a] # hs[i].cheat[j].cond_byte
                        THEN o[a] ELSE hs[i].cheat[j].byte
  <2> DEFINE c == gs[i].cheat[j]
             d == hs[i].cheat[j]
  <2>1. /\ i \in 1..Len(gs) /\ j \in 1..Len(gs[i].cheat)
        /\ c \in Cheat /\ c.enabled /\ c.address = a
    BY <1>4, SetCheat
  <2>2. Silent("update", picked, gs, a, i, j)
    BY <1>4 DEF Silent, Writes, Touches, Set, Lone
  <2>3. PICK k \in Memory : /\ k[a] = m[a] /\ d = S9xUpdateCheatInMemory(k, c).cheat
                            /\ m2[a] = S9xUpdateCheatInMemory(k, c).mem[a]
    <3>1. \E k \in Memory : /\ k[a] = m[a] /\ d = Do("update", k, c).cheat
                            /\ m2[a] = Do("update", k, c).mem[a]
      BY <1>1, <2>1, <2>2, AloneDid
    <3> QED
      BY <3>1 DEF Do
  <2>4. o[a] # c.byte /\ Good(m[a], o[a], c)
    BY <1>4 DEF Unlike, OK
  <2> HIDE DEF c, d
  <2>5. Settled(m2[a], o[a], d)
    <3>1. Good(k[c.address], o[a], c)
      BY <2>1, <2>3, <2>4
    <3>2. Settled(S9xUpdateCheatInMemory(k, c).mem[c.address], o[a], S9xUpdateCheatInMemory(k, c).cheat)
      BY <2>1, <2>4, <3>1, UpdateOne
    <3> QED
      BY <2>1, <2>3, <3>2
  <2>6. SameCode(c, d)
    BY <2>1, <2>3, UpdateFacts DEF Decent
  <2> QED
    BY <2>5, <2>6, SettledGood DEF SameCode, c, d
<1>5. ASSUME NEW i, NEW j, Set(gs, a, i, j) PROVE OK(m2, o, hs, a)
  <2>1. \A k, l : Set(hs, a, k, l) => Good(m2[a], o[a], hs[k].cheat[l])
    BY <1>2, <1>4
  <2> QED
    BY <1>2, <1>5, <2>1 DEF OK
<1>6. OK(m2, o, hs, a)
  BY <1>3, <1>5
<1> QED
  BY <1>2, <1>4, <1>6 DEF Updated

\* Cheats turned off where they stand right give the game's byte back.
LEMMA OffOK ==
    ASSUME NEW m \in Memory, NEW gs \in Groups, NEW m2, NEW hs, NEW o, NEW a \in Addresses,
           NEW picked, GroupRun("off", picked, m, gs, m2, hs), on,
           OK(m, o, gs, a), Lone(gs, a), Unlike(gs, o, a)
    PROVE  OK(m2, o, hs, a)
<1>1. "off" \in Kinds
  BY DEF Kinds
<1>2. \A i, j : Set(hs, a, i, j) <=> Set(gs, a, i, j) /\ i \notin picked
  <2>1. \A i, j : Set(hs, a, i, j) <=> /\ i \in 1..Len(gs) /\ j \in 1..Len(gs[i].cheat)
                                       /\ gs[i].cheat[j].address = a
                                       /\ i \notin picked /\ gs[i].cheat[j].enabled
    BY <1>1, SetAfter
  <2> QED
    BY <2>1 DEF Set
<1>3. CASE \A i, j : i \in picked => ~Set(gs, a, i, j)
  <2>1. \A i \in 1..Len(gs) : \A j \in 1..Len(gs[i].cheat) :
           i \in picked => ~Writes("off", gs[i].cheat[j], a)
    BY <1>3 DEF Writes, Touches, Set
  <2>2. m2[a] = m[a]
    BY <1>1, <2>1, Undisturbed
  <2>3. \A i, j : Set(gs, a, i, j) => hs[i].cheat[j] = gs[i].cheat[j]
    <3>1. \A i, j : Set(gs, a, i, j) =>
             i \in 1..Len(gs) /\ j \in 1..Len(gs[i].cheat) /\ i \notin picked
      BY <1>3 DEF Set
    <3>2. Outcome("off", picked, m, gs, m2, hs, a)
      BY <1>1, GroupAlone
    <3> QED
      BY <3>1, <3>2 DEF Outcome
  <2>4. \A i, j : Set(hs, a, i, j) <=> Set(gs, a, i, j)
    BY <1>2, <1>3
  <2> QED
    BY <2>2, <2>3, <2>4 DEF OK
<1>4. ASSUME NEW i, NEW j, i \in picked, Set(gs, a, i, j) PROVE OK(m2, o, hs, a)
  <2> DEFINE c == gs[i].cheat[j]
  <2>1. /\ i \in 1..Len(gs) /\ j \in 1..Len(gs[i].cheat)
        /\ c \in Cheat /\ c.enabled /\ c.address = a
    BY <1>4, SetCheat
  <2>2. Silent("off", picked, gs, a, i, j)
    BY <1>4 DEF Silent, Writes, Touches, Set, Lone
  <2>3. PICK k \in Memory : k[a] = m[a] /\ m2[a] = S9xDisableCheat(k, c).mem[a]
    <3>1. \E k \in Memory : k[a] = m[a] /\ m2[a] = Do("off", k, c).mem[a]
      BY <1>1, <1>4, <2>1, <2>2, AloneDid
    <3> QED
      BY <3>1 DEF Do
  <2>4. o[a] # c.byte /\ Good(m[a], o[a], c)
    BY <1>4 DEF Unlike, OK
  <2> HIDE DEF c
  <2>5. m2[a] = o[a]
    <3>1. Good(k[c.address], o[a], c)
      BY <2>1, <2>3, <2>4
    <3>2. S9xDisableCheat(k, c).mem[c.address] = o[a]
      BY <2>1, <2>4, <3>1, DisableOne
    <3> QED
      BY <2>1, <2>3, <3>2
  <2>6. \A n, l : ~Set(hs, a, n, l)
    BY <1>2, <1>4 DEF Lone
  <2> QED
    BY <2>5, <2>6 DEF OK
<1> QED
  BY <1>3, <1>4

\* Cheats turned on where no other is enabled then.
LEMMA OnOK ==
    ASSUME NEW m \in Memory, NEW gs \in Groups, NEW m2, NEW hs, NEW o, NEW a \in Addresses,
           NEW picked, GroupRun("on", picked, m, gs, m2, hs),
           OK(m, o, gs, a), Lone(hs, a)
    PROVE  OK(m2, o, hs, a)
<1>1. "on" \in Kinds
  BY DEF Kinds
<1>2. \A i, j : Set(hs, a, i, j) <=> /\ i \in 1..Len(gs) /\ j \in 1..Len(gs[i].cheat)
                                     /\ gs[i].cheat[j].address = a
                                     /\ i \in picked \/ gs[i].cheat[j].enabled
  <2>1. \A i, j : Set(hs, a, i, j) <=> /\ i \in 1..Len(gs) /\ j \in 1..Len(gs[i].cheat)
                                       /\ gs[i].cheat[j].address = a
                                       /\ IF i \notin picked THEN gs[i].cheat[j].enabled ELSE TRUE
    BY <1>1, SetAfter
  <2> QED
    BY <2>1
<1>3. \A i, j : Set(gs, a, i, j) => Set(hs, a, i, j)
  BY <1>2 DEF Set
<1> DEFINE New(i, j) == /\ i \in 1..Len(gs) /\ j \in 1..Len(gs[i].cheat) /\ i \in picked
                        /\ gs[i].cheat[j].address = a /\ ~gs[i].cheat[j].enabled
<1>4. CASE \A i, j : ~New(i, j)
  <2>1. \A i \in 1..Len(gs) : \A j \in 1..Len(gs[i].cheat) :
           i \in picked => ~Writes("on", gs[i].cheat[j], a)
    BY <1>4 DEF Writes, Touches
  <2>2. m2[a] = m[a]
    BY <1>1, <2>1, Undisturbed
  <2>3. \A i, j : Set(hs, a, i, j) => Set(gs, a, i, j)
    BY <1>2, <1>4 DEF Set
  <2>4. ASSUME NEW i, NEW j, Set(gs, a, i, j) PROVE hs[i].cheat[j] = gs[i].cheat[j]
    <3> DEFINE c == gs[i].cheat[j]
    <3>1. /\ i \in 1..Len(gs) /\ j \in 1..Len(gs[i].cheat)
          /\ c \in Cheat /\ c.enabled
      BY <2>4, SetCheat
    <3>2. Outcome("on", picked, m, gs, m2, hs, a)
      BY <1>1, GroupAlone
    <3>3. CASE i \in picked
      <4>1. PICK k \in Memory : hs[i].cheat[j] = Do("on", k, gs[i].cheat[j]).cheat
        BY <3>1, <3>2, <3>3 DEF Outcome
      <4> HIDE DEF c
      <4>2. EnableOn(k, c).cheat = c
        <5>1. Left(k, c, EnableOn(k, c))
          BY <3>1, EnableOnFacts, Zenon
        <5> QED
          BY <5>1 DEF Left
      <4>3. Do("on", k, c) = EnableOn(k, c)
        BY DEF Do
      <4> QED
        BY <4>1, <4>2, <4>3 DEF c
    <3>4. CASE i \notin picked
      BY <3>1, <3>2, <3>4 DEF Outcome
    <3> QED
      BY <3>3, <3>4
  <2>5. \A i, j : Set(hs, a, i, j) <=> Set(gs, a, i, j)
    BY <1>3, <2>3
  <2> QED
    BY <2>2, <2>4, <2>5 DEF OK
<1>5. ASSUME NEW i, NEW j, New(i, j) PROVE OK(m2, o, hs, a)
  <2> DEFINE c == gs[i].cheat[j]
             d == hs[i].cheat[j]
  <2>1. /\ i \in 1..Len(gs) /\ j \in 1..Len(gs[i].cheat) /\ i \in picked
        /\ c \in Cheat /\ ~c.enabled /\ c.address = a
    <3>1. i \in 1..Len(gs) /\ j \in 1..Len(gs[i].cheat)
      BY <1>5
    <3>2. gs[i].cheat \in Seq(Cheat)
      BY <3>1, GroupFacts
    <3> QED
      BY <1>5, <3>1, <3>2
  <2>2. Set(hs, a, i, j)
    BY <1>2, <1>5
  <2>3. \A k, l : Set(hs, a, k, l) => k = i /\ l = j
    BY <2>2 DEF Lone
  <2>4. \A k, l : ~Set(gs, a, k, l)
    BY <1>3, <1>5, <2>3 DEF Set
  <2>5. m[a] = o[a]
    BY <2>4 DEF OK
  <2>6. Silent("on", picked, gs, a, i, j)
    BY <1>2, <2>3 DEF Silent, Writes, Touches
  <2>7. PICK k \in Memory : /\ k[a] = m[a] /\ d = EnableOn(k, c).cheat
                            /\ m2[a] = EnableOn(k, c).mem[a]
    <3>1. \E k \in Memory : /\ k[a] = m[a] /\ d = Do("on", k, c).cheat
                            /\ m2[a] = Do("on", k, c).mem[a]
      BY <1>1, <2>1, <2>6, AloneDid
    <3> QED
      BY <3>1 DEF Do
  <2> HIDE DEF c, d
  <2>8. Good(m2[a], o[a], d)
    <3>1. Good(EnableOn(k, c).mem[c.address], k[c.address], EnableOn(k, c).cheat)
      BY <2>1, EnableOne
    <3> QED
      BY <2>1, <2>5, <2>7, <3>1
  <2>9. \A n, l : Set(hs, a, n, l) => Good(m2[a], o[a], hs[n].cheat[l])
    BY <2>3, <2>8 DEF d
  <2> QED
    BY <2>2, <2>9 DEF OK
<1> QED
  BY <1>4, <1>5
\* Turned off or marked while cheats are not applied, they touch no memory.
LEMMA StillMemory ==
    ASSUME NEW w \in {"off", "mark"}, NEW picked, NEW m \in Memory, NEW gs \in Groups, NEW m2, NEW hs,
           GroupRun(w, picked, m, gs, m2, hs), ~on, NEW a \in Addresses
    PROVE  m2[a] = m[a]
<1>1. w \in Kinds
  BY DEF Kinds
<1>2. \A i \in 1..Len(gs) : \A j \in 1..Len(gs[i].cheat) : ~Writes(w, gs[i].cheat[j], a)
  BY DEF Writes, Touches
<1> QED
  BY <1>1, <1>2, Undisturbed
-----------------------------------------------------------------------------
(* The inductive invariant. *)

CheatsType == mem \in Memory /\ own \in Memory /\ group \in Groups /\ on \in BOOLEAN

\* A cheat that is enabled is of a group that is.
Flagged(gs) == \A i \in 1..Len(gs) : \A j \in 1..Len(gs[i].cheat) :
                  gs[i].cheat[j].enabled => gs[i].enabled

Clear == Addresses \ (alike \cup shared)

Noted == on => \A a \in Clear : Lone(group, a) /\ Unlike(group, own, a)

Stands == \A a \in Clear : /\ on => OK(mem, own, group, a)
                           /\ ~on => mem[a] = own[a]

CheatsIInv == CheatsType /\ Flagged(group) /\ Noted /\ Stands

Acts(gs, i, j) == <<i, j>> \in InEffect(gs, TRUE) /\ At(gs, <<i, j>>) = gs[i].cheat[j]

LEMMA PlaceInEffect ==
    ASSUME NEW gs \in Groups, NEW a, NEW i, NEW j, Set(gs, a, i, j)
    PROVE  Acts(gs, i, j)
<1>1. /\ i \in 1..Len(gs) /\ j \in 1..Len(gs[i].cheat) /\ gs[i].cheat[j].enabled
  BY DEF Set
<1>2. i \in DOMAIN gs /\ j \in DOMAIN gs[i].cheat
  BY <1>1, GroupFacts
<1>3. <<i, j>> \in UNION {{x} \X DOMAIN gs[x].cheat : x \in DOMAIN gs}
  <2>1. <<i, j>> \in {i} \X DOMAIN gs[i].cheat
    BY <1>2
  <2> QED
    BY <1>2, <2>1
<1> QED
  BY <1>1, <1>3 DEF Acts, InEffect, At

LEMMA InEffectPlace ==
    ASSUME NEW gs \in Groups, NEW active \in BOOLEAN, NEW p \in InEffect(gs, active)
    PROVE  active /\ Set(gs, At(gs, p).address, p[1], p[2]) /\ At(gs, p) = gs[p[1]].cheat[p[2]]
<1>1. /\ p \in UNION {{x} \X DOMAIN gs[x].cheat : x \in DOMAIN gs}
      /\ active /\ gs[p[1]].cheat[p[2]].enabled
  BY DEF InEffect
<1>2. PICK i \in DOMAIN gs : p \in {i} \X DOMAIN gs[i].cheat
  BY <1>1
<1>3. p[1] = i /\ p[2] \in DOMAIN gs[i].cheat
  BY <1>2
<1>4. p[1] \in 1..Len(gs) /\ gs[p[1]].cheat \in Seq(Cheat)
  BY <1>2, <1>3, GroupFacts
<1>5. p[2] \in 1..Len(gs[p[1]].cheat)
  BY <1>3, <1>4
<1> QED
  BY <1>1, <1>4, <1>5 DEF Set, At

LEMMA NotedBy ==
    ASSUME NEW gs \in Groups, NEW a \in Addresses,
           a \notin Alike(gs, TRUE), a \notin Shared(gs, TRUE)
    PROVE  Lone(gs, a) /\ Unlike(gs, own', a)
<1>1. ASSUME NEW i, NEW j, NEW k, NEW l, Set(gs, a, i, j), Set(gs, a, k, l), ~(i = k /\ j = l)
      PROVE  FALSE
  <2> DEFINE p == <<i, j>>
             q == <<k, l>>
  <2>1. p \in InEffect(gs, TRUE) /\ At(gs, p) = gs[i].cheat[j] /\ gs[i].cheat[j].address = a
    <3>1. Acts(gs, i, j)
      BY <1>1, PlaceInEffect
    <3> QED
      BY <1>1, <3>1 DEF Acts, Set
  <2>2. q \in InEffect(gs, TRUE) /\ At(gs, q) = gs[k].cheat[l] /\ gs[k].cheat[l].address = a
    <3>1. Acts(gs, k, l)
      BY <1>1, PlaceInEffect
    <3> QED
      BY <1>1, <3>1 DEF Acts, Set
  <2>3. p # q
    BY <1>1
  <2> HIDE DEF p, q
  <2>4. a \in Shared(gs, TRUE)
    BY <2>1, <2>2, <2>3 DEF Shared
  <2> QED
    BY <2>4
<1>2. ASSUME NEW i, NEW j, Set(gs, a, i, j) PROVE own'[a] # gs[i].cheat[j].byte
  <2> DEFINE p == <<i, j>>
  <2>1. p \in InEffect(gs, TRUE) /\ At(gs, p) = gs[i].cheat[j] /\ gs[i].cheat[j].address = a
    <3>1. Acts(gs, i, j)
      BY <1>2, PlaceInEffect
    <3> QED
      BY <1>2, <3>1 DEF Acts, Set
  <2> HIDE DEF p
  <2>2. own'[a] = gs[i].cheat[j].byte => a \in Alike(gs, TRUE)
    BY <2>1 DEF Alike
  <2> QED
    BY <2>2
<1>3. Lone(gs, a)
  BY <1>1 DEF Lone
<1>4. Unlike(gs, own', a)
  BY <1>2 DEF Unlike
<1> QED
  BY <1>3, <1>4

\* What is left to show of a step.
LEMMA FinishBy ==
    ASSUME mem' \in Memory, own' \in Memory, group' \in Groups, on' \in BOOLEAN,
           Flagged(group'),
           Alike(group', on') \subseteq alike', Shared(group', on') \subseteq shared',
           \A a \in Addresses :
              /\ a \notin alike' \cup shared'
              /\ on' => Lone(group', a) /\ Unlike(group', own', a)
              => /\ on' => OK(mem', own', group', a)
                 /\ ~on' => mem'[a] = own'[a]
    PROVE  CheatsIInv'
<1>1. ASSUME NEW a \in Addresses, a \notin alike' \cup shared', on'
      PROVE  Lone(group', a) /\ Unlike(group', own', a)
  <2>1. on' = TRUE
    BY <1>1
  <2>2. a \notin Alike(group', TRUE) /\ a \notin Shared(group', TRUE)
    BY <1>1, <2>1
  <2> QED
    BY <2>2, NotedBy
<1>2. Noted'
  BY <1>1 DEF Noted, Clear
<1>3. Stands'
  BY <1>1 DEF Stands, Clear
<1> QED
  BY <1>2, <1>3 DEF CheatsIInv, CheatsType

LEMMA Finish ==
    ASSUME mem' \in Memory, own' \in Memory, group' \in Groups, on' \in BOOLEAN,
           Flagged(group'), NEW written, Observe(written),
           \A a \in Addresses :
              /\ a \in Clear \cup written
              /\ on' => Lone(group', a) /\ Unlike(group', own', a)
              => /\ on' => OK(mem', own', group', a)
                 /\ ~on' => mem'[a] = own'[a]
    PROVE  CheatsIInv'
<1>1. /\ alike' = (alike \ written) \cup Alike(group', on')
      /\ shared' = (shared \ written) \cup Shared(group', on')
  BY DEF Observe
<1>2. Alike(group', on') \subseteq alike' /\ Shared(group', on') \subseteq shared'
  BY <1>1
<1>3. \A a \in Addresses : a \notin alike' \cup shared' => a \in Clear \cup written
  BY <1>1 DEF Clear
<1> QED
  BY <1>2, <1>3, FinishBy
-----------------------------------------------------------------------------
(* Groups turned on and off.                                                 *)

LEMMA FlaggedAfter ==
    ASSUME NEW w \in Kinds, NEW picked, NEW m \in Memory, NEW gs \in Groups, NEW m2, NEW hs \in Groups,
           GroupRun(w, picked, m, gs, m2, hs), Flagged(gs),
           \A i \in 1..Len(gs) : \/ w = "off" /\ i \in picked
                                 \/ (i \notin picked \/ w = "update") /\ hs[i].enabled = gs[i].enabled
                                 \/ hs[i].enabled
    PROVE  Flagged(hs)
<1>1. ASSUME NEW i \in 1..Len(hs), NEW j \in 1..Len(hs[i].cheat), hs[i].cheat[j].enabled
      PROVE  hs[i].enabled
  <2>1. Set(hs, hs[i].cheat[j].address, i, j)
    BY <1>1 DEF Set
  <2>2. /\ i \in 1..Len(gs) /\ j \in 1..Len(gs[i].cheat)
        /\ IF i \notin picked \/ w = "update" THEN gs[i].cheat[j].enabled ELSE w # "off"
    BY <2>1, SetAfter
  <2>3. gs[i].cheat[j].enabled => gs[i].enabled
    BY <2>2 DEF Flagged
  <2> QED
    BY <2>2, <2>3
<1> QED
  BY <1>1 DEF Flagged

\* From memory m and groups gs to m2 and hs by turning on, or off.
TurnedOn(m, gs, m2, hs) ==
    /\ m2 \in Memory /\ hs \in Groups /\ Flagged(hs)
    /\ \A a \in Addresses :
          /\ ~on => m2[a] = m[a]
          /\ \A o : on /\ OK(m, o, gs, a) /\ Lone(hs, a) => OK(m2, o, hs, a)

TurnedOff(m, gs, m2, hs) ==
    /\ m2 \in Memory /\ hs \in Groups /\ Flagged(hs)
    /\ \A a \in Addresses :
          /\ ~on => m2[a] = m[a]
          /\ \A o : on /\ OK(m, o, gs, a) /\ Lone(gs, a) /\ Unlike(gs, o, a) => OK(m2, o, hs, a)

\* Turned off are all, or the n-th.
AllOff(m, gs, m2, hs) == TurnedOff(m, gs, m2, hs) /\ \A a, i, j : ~Set(hs, a, i, j)

OneOff(m, gs, m2, hs, n) == TurnedOff(m, gs, m2, hs) /\ \A a, j : ~Set(hs, a, n, j)

LEMMA OnGroup ==
    ASSUME NEW m \in Memory, NEW gs \in Groups, NEW n \in 1..Len(gs), Flagged(gs), on \in BOOLEAN
    PROVE  LET r == Each(EnableNow, m, gs[n].cheat)
           IN  TurnedOn(m, gs, r.mem, [gs EXCEPT ![n] = [enabled |-> TRUE, cheat |-> r.cheats]])
<1> DEFINE r == Each(EnableNow, m, gs[n].cheat)
           g == [enabled |-> TRUE, cheat |-> r.cheats]
           hs == [gs EXCEPT ![n] = g]
<1>1. Run(Now, m, gs[n].cheat, r)
  <2>1. gs[n].cheat \in Seq(Cheat)
    BY GroupFacts
  <2> QED
    BY <2>1, EnableNowRuns
<1> HIDE DEF r
<1>2. Now \in Kinds
  BY DEF Now, Kinds
<1>3. /\ GroupRun(Now, {n}, m, gs, r.mem, hs) /\ hs \in Groups
      /\ hs[n].enabled = TRUE /\ \A i \in 1..Len(gs) : i # n => hs[i] = gs[i]
  <2>1. g \in Group /\ g.cheat = r.cheats /\ g.enabled = TRUE
    <3>1. gs[n].cheat \in Seq(Cheat)
      BY GroupFacts
    <3>2. r.cheats \in Seq(Cheat)
      BY <1>1, <1>2, <3>1, RunType
    <3> QED
      BY <3>2 DEF Group
  <2> HIDE DEF g, hs
  <2>2. /\ GroupRun(Now, {n}, m, gs, r.mem, hs) /\ hs \in Groups
        /\ hs[n] = g /\ \A i \in 1..Len(gs) : i # n => hs[i] = gs[i]
    <3>1. OneRun(Now, m, gs, n, r, g)
      BY <1>1, <1>2, <2>1, OneGroup
    <3> QED
      BY <3>1 DEF OneRun, hs
  <2> QED
    BY <2>1, <2>2
<1> HIDE DEF hs
<1>4. r.mem \in Memory
  BY <1>2, <1>3, GroupRunType
<1>5. Flagged(hs)
  <2>1. \A i \in 1..Len(gs) : (i \notin {n} /\ hs[i].enabled = gs[i].enabled) \/ hs[i].enabled
    BY <1>3
  <2> QED
    BY <1>2, <1>3, <2>1, FlaggedAfter
<1>6. ASSUME NEW a \in Addresses, ~on PROVE r.mem[a] = m[a]
  <2>1. Now = "mark"
    BY <1>6 DEF Now
  <2> QED
    <3>1. "mark" \in {"off", "mark"} /\ GroupRun("mark", {n}, m, gs, r.mem, hs)
      BY <1>3, <2>1
    <3> QED
      BY <1>6, <3>1, StillMemory
<1>7. ASSUME NEW a \in Addresses, NEW o, on, OK(m, o, gs, a), Lone(hs, a) PROVE OK(r.mem, o, hs, a)
  <2>1. Now = "on"
    BY <1>7 DEF Now
  <2> QED
    BY <1>3, <1>7, <2>1, OnOK
<1>8. TurnedOn(m, gs, r.mem, hs)
  BY <1>3, <1>4, <1>5, <1>6, <1>7 DEF TurnedOn
<1> QED
  BY <1>8 DEF hs, r

LEMMA OffGroup ==
    ASSUME NEW m \in Memory, NEW gs \in Groups, NEW n \in 1..Len(gs), Flagged(gs), on \in BOOLEAN
    PROVE  LET r == Each(S9xDisableCheat, m, gs[n].cheat)
           IN  OneOff(m, gs, r.mem, [gs EXCEPT ![n] = [enabled |-> FALSE, cheat |-> r.cheats]], n)
<1> DEFINE r == Each(S9xDisableCheat, m, gs[n].cheat)
           g == [enabled |-> FALSE, cheat |-> r.cheats]
           hs == [gs EXCEPT ![n] = g]
<1>1. Run("off", m, gs[n].cheat, r)
  <2>1. gs[n].cheat \in Seq(Cheat)
    BY GroupFacts
  <2> QED
    BY <2>1, DisableRuns
<1> HIDE DEF r
<1>2. "off" \in Kinds
  BY DEF Kinds
<1>3. /\ GroupRun("off", {n}, m, gs, r.mem, hs) /\ hs \in Groups
      /\ hs[n].enabled = FALSE /\ \A i \in 1..Len(gs) : i # n => hs[i] = gs[i]
  <2>1. g \in Group /\ g.cheat = r.cheats /\ g.enabled = FALSE
    <3>1. gs[n].cheat \in Seq(Cheat)
      BY GroupFacts
    <3>2. r.cheats \in Seq(Cheat)
      BY <1>1, <1>2, <3>1, RunType
    <3> QED
      BY <3>2 DEF Group
  <2> HIDE DEF g, hs
  <2>2. /\ GroupRun("off", {n}, m, gs, r.mem, hs) /\ hs \in Groups
        /\ hs[n] = g /\ \A i \in 1..Len(gs) : i # n => hs[i] = gs[i]
    <3>1. OneRun("off", m, gs, n, r, g)
      BY <1>1, <1>2, <2>1, OneGroup
    <3> QED
      BY <3>1 DEF OneRun, hs
  <2> QED
    BY <2>1, <2>2
<1> HIDE DEF hs
<1>4. r.mem \in Memory
  BY <1>2, <1>3, GroupRunType
<1>5. Flagged(hs)
  <2>1. \A i \in 1..Len(gs) : i \in {n} \/ (i \notin {n} /\ hs[i].enabled = gs[i].enabled)
    <3>1. TAKE i \in 1..Len(gs)
    <3>2. CASE i = n
      <4>1. i \in {n}
        BY <3>2
      <4> QED
        BY <4>1
    <3>3. CASE i # n
      <4>1. hs[i] = gs[i]
        BY <1>3, <3>3
      <4> QED
        BY <3>3, <4>1
    <3> QED
      BY <3>2, <3>3
  <2> QED
    BY <1>2, <1>3, <2>1, FlaggedAfter
<1>6. ASSUME NEW a \in Addresses, ~on PROVE r.mem[a] = m[a]
  <2>1. "off" \in {"off", "mark"} /\ GroupRun("off", {n}, m, gs, r.mem, hs)
    BY <1>3
  <2> QED
    BY <1>6, <2>1, StillMemory
<1>7. ASSUME NEW a \in Addresses, NEW o, on, OK(m, o, gs, a), Lone(gs, a), Unlike(gs, o, a)
      PROVE  OK(r.mem, o, hs, a)
  BY <1>3, <1>7, OffOK
<1>8. \A a, j : ~Set(hs, a, n, j)
  BY <1>2, <1>3, SetAfter
<1>9. TurnedOff(m, gs, r.mem, hs)
  BY <1>3, <1>4, <1>5, <1>6, <1>7 DEF TurnedOff
<1>10. OneOff(m, gs, r.mem, hs, n)
  BY <1>8, <1>9 DEF OneOff
<1> QED
  BY <1>10 DEF hs, r

LEMMA OffGroups ==
    ASSUME NEW m \in Memory, NEW gs \in Groups, Flagged(gs), on \in BOOLEAN
    PROVE  AllOff(m, gs, Disabled(m, gs).mem, Disabled(m, gs).group)
<1> DEFINE r == Disabled(m, gs)
           picked == 1..Len(gs)
<1>1. "off" \in Kinds
  BY DEF Kinds
<1>2. /\ GroupRun("off", picked, m, gs, r.mem, r.group) /\ r.group \in Groups
  BY DisableGroups DEF Disabled
<1> HIDE DEF r
<1>3. Flagged(r.group)
  BY <1>1, <1>2, FlaggedAfter
<1>4. \A a, i, j : ~Set(r.group, a, i, j)
  BY <1>1, <1>2, SetAfter
<1> HIDE DEF picked
<1>5. r.mem \in Memory
  BY <1>1, <1>2, GroupRunType
<1>6. ASSUME NEW a \in Addresses, ~on PROVE r.mem[a] = m[a]
  <2>1. "off" \in {"off", "mark"} /\ GroupRun("off", picked, m, gs, r.mem, r.group)
    BY <1>2
  <2> DEFINE m2 == r.mem
             hs == r.group
  <2>2. GroupRun("off", picked, m, gs, m2, hs)
    BY <2>1
  <2> HIDE DEF m2, hs
  <2>3. m2[a] = m[a]
    BY <1>6, <2>1, <2>2, StillMemory
  <2> QED
    BY <2>3 DEF m2
<1>7. ASSUME NEW a \in Addresses, NEW o, on, OK(m, o, gs, a), Lone(gs, a), Unlike(gs, o, a)
      PROVE  OK(r.mem, o, r.group, a)
  BY <1>2, <1>7, OffOK
<1>8. TurnedOff(m, gs, r.mem, r.group)
  BY <1>2, <1>5, <1>3, <1>6, <1>7 DEF TurnedOff
<1> QED
  BY <1>4, <1>8 DEF AllOff, r
-----------------------------------------------------------------------------
(* Each step keeps the invariant.                                            *)

\* A cheat a user enters is not enabled.
LEMMA CreatedFacts ==
    ASSUME NEW l \in CodeLists, NEW c \in Created(l)
    PROVE  c \in Seq(Cheat) /\ \A j \in 1..Len(c) : ~c[j].enabled
<1>1. /\ DOMAIN l = 1..Len(l) /\ Len(l) \in Nat
      /\ \A j \in 1..Len(l) : l[j] \in [address : Addresses, byte : Bytes,
                                       conditional : BOOLEAN, cond_byte : Bytes]
  <2> DEFINE Code == [address : Addresses, byte : Bytes, conditional : BOOLEAN, cond_byte : Bytes]
  <2>1. l \in Seq(Code)
    BY CheatsAssumption
  <2> HIDE DEF Code
  <2>2. DOMAIN l = 1..Len(l) /\ Len(l) \in Nat /\ \A j \in 1..Len(l) : l[j] \in Code
    BY <2>1
  <2> QED
    BY <2>2 DEF Code
<1>2. PICK s \in [DOMAIN l -> Bytes], t \in [DOMAIN l -> BOOLEAN] :
        c = [i \in DOMAIN l |->
              [address |-> l[i].address, byte |-> l[i].byte,
               conditional |-> l[i].conditional, cond_byte |-> l[i].cond_byte,
               saved_byte |-> s[i], cond_true |-> t[i], enabled |-> FALSE]]
  BY DEF Created
<1>3. \A j \in 1..Len(l) : c[j] \in Cheat /\ ~c[j].enabled
  BY <1>1, <1>2 DEF Cheat
<1>4. c \in [1..Len(l) -> Cheat] /\ Len(c) = Len(l)
  BY <1>1, <1>2, <1>3
<1> QED
  BY <1>1, <1>3, <1>4

LEMMA GameWritesStep ==
    ASSUME CheatsIInv, NEW x \in Addresses, NEW b \in Bytes, GameWrites(x, b)
    PROVE  CheatsIInv'
<1>1. /\ mem' = [mem EXCEPT ![x] = b] /\ own' = [own EXCEPT ![x] = b]
      /\ group' = group /\ on' = on /\ Observe({x})
  BY DEF GameWrites
<1>2. mem \in Memory /\ own \in Memory /\ group \in Groups /\ on \in BOOLEAN /\ Flagged(group)
  BY DEF CheatsIInv, CheatsType
<1>3. /\ mem' \in Memory /\ own' \in Memory /\ mem'[x] = b /\ own'[x] = b
      /\ \A a \in Addresses : a # x => mem'[a] = mem[a] /\ own'[a] = own[a]
  BY <1>1, <1>2 DEF Memory
<1>4. ASSUME NEW a \in Addresses, a \in Clear \cup {x}
      PROVE  /\ on' => OK(mem', own', group', a)
             /\ ~on' => mem'[a] = own'[a]
  <2>1. CASE a = x
    BY <1>3, <2>1 DEF OK, Good
  <2>2. CASE a # x
    <3>1. (on => OK(mem, own, group, a)) /\ (~on => mem[a] = own[a])
      BY <1>4, <2>2 DEF CheatsIInv, Stands
    <3>2. OK(mem, own, group, a) => OK(mem', own', group', a)
      BY <1>1, <1>3, <2>2 DEF OK
    <3> QED
      BY <1>1, <1>3, <2>2, <3>1, <3>2
  <2> QED
    BY <2>1, <2>2
<1> QED
  BY <1>1, <1>2, <1>3, <1>4, Finish

LEMMA UpdateStep ==
    ASSUME CheatsIInv, S9xUpdateCheatsInMemory
    PROVE  CheatsIInv' /\ Applied'
<1> DEFINE r == EachGroup(S9xUpdateCheatInMemory, All, Same, mem, group)
           picked == 1..Len(group)
<1>1. mem' = r.mem /\ group' = r.group /\ on' = on /\ own' = own /\ on /\ Observe({})
  BY DEF S9xUpdateCheatsInMemory
<1>2. mem \in Memory /\ own \in Memory /\ group \in Groups /\ on \in BOOLEAN /\ Flagged(group)
  BY DEF CheatsIInv, CheatsType
<1>3. /\ GroupRun("update", picked, mem, group, r.mem, r.group)
      /\ r.group \in Groups
      /\ \A i \in 1..Len(group) : r.group[i].enabled = group[i].enabled
  BY <1>2, UpdateGroups
<1> HIDE DEF r
<1>4. GroupRun("update", picked, mem, group, mem', group') /\ group' \in Groups
      /\ \A i \in 1..Len(group) : group'[i].enabled = group[i].enabled
  BY <1>1, <1>3
<1>5. "update" \in Kinds
  BY DEF Kinds
<1>6. mem' \in Memory
  BY <1>2, <1>4, <1>5, GroupRunType
<1>7. Flagged(group')
  BY <1>2, <1>4, <1>5, FlaggedAfter
<1>8. ASSUME NEW a \in Clear
      PROVE  Updated(own', mem', group', a)
  <2>1. a \in Addresses /\ OK(mem, own, group, a) /\ Lone(group, a) /\ Unlike(group, own, a)
    BY <1>1 DEF CheatsIInv, Stands, Noted, Clear
  <2>2. Updated(own, mem', group', a)
    BY <1>2, <1>4, <2>1, UpdateOK
  <2> QED
    BY <1>1, <2>2
<1>9. \A a \in Addresses : a \in Clear \cup {} => OK(mem', own', group', a)
  BY <1>8 DEF Updated
<1>10. CheatsIInv'
  BY <1>1, <1>2, <1>4, <1>6, <1>7, <1>9, Finish
<1>11. ASSUME NEW p \in InEffect(group', on'), At(group', p).address \notin alike' \cup shared'
       PROVE  LET c == At(group', p)
              IN  mem'[c.address] = IF c.conditional /\ own'[c.address] # c.cond_byte
                                    THEN own'[c.address] ELSE c.byte
  <2> DEFINE c == At(group', p)
             a == c.address
  <2>1. Set(group', a, p[1], p[2]) /\ c = group'[p[1]].cheat[p[2]]
    BY <1>1, <1>2, <1>4, InEffectPlace
  <2>2. a \in Clear
    <3>1. c \in Cheat
      BY <1>4, <2>1, SetCheat
    <3>2. a \in Addresses /\ alike \subseteq alike' /\ shared \subseteq shared'
      BY <1>1, <3>1 DEF Cheat, Observe
    <3> QED
      BY <1>11, <3>2 DEF Clear
  <2> HIDE DEF c, a
  <2>3. mem'[a] = IF c.conditional /\ own'[a] # c.cond_byte THEN own'[a] ELSE c.byte
    BY <1>8, <2>1, <2>2 DEF Updated
  <2> QED
    BY <2>3 DEF c, a
<1> QED
  BY <1>10, <1>11 DEF Applied

LEMMA AddStep ==
    ASSUME CheatsIInv, NEW l \in CodeLists, S9xAddCheatGroup(l)
    PROVE  CheatsIInv'
<1>1. PICK c \in Created(l) : group' = Append(group, [enabled |-> FALSE, cheat |-> c])
  BY DEF S9xAddCheatGroup
<1>2. mem' = mem /\ own' = own /\ on' = on /\ Observe({})
  BY DEF S9xAddCheatGroup
<1>3. mem \in Memory /\ own \in Memory /\ group \in Groups /\ on \in BOOLEAN /\ Flagged(group)
  BY DEF CheatsIInv, CheatsType
<1>4. c \in Seq(Cheat) /\ \A j \in 1..Len(c) : ~c[j].enabled
  BY <1>1, CreatedFacts
<1> DEFINE g == [enabled |-> FALSE, cheat |-> c]
<1>5. g \in Group /\ g.cheat = c
  BY <1>4 DEF Group
<1>6. group' = Append(group, g)
  BY <1>1
<1> HIDE DEF g
<1>7. /\ group' \in Groups /\ Len(group) \in Nat /\ Len(group') = Len(group) + 1
      /\ group'[Len(group) + 1] = g
      /\ \A i \in 1..Len(group) : group'[i] = group[i]
  BY <1>3, <1>5, <1>6 DEF Groups
<1>8. \A i \in 1..Len(group') : i \in 1..Len(group) \/ i = Len(group) + 1
  BY <1>7
<1>9. Flagged(group')
  BY <1>3, <1>4, <1>5, <1>7, <1>8 DEF Flagged
<1>10. \A a, i, j : Set(group', a, i, j) <=> Set(group, a, i, j)
  <2>1. TAKE a, i, j
  <2>2. CASE i \in 1..Len(group)
    BY <1>7, <2>2 DEF Set
  <2>3. CASE i \notin 1..Len(group)
    BY <1>4, <1>5, <1>7, <1>8, <2>3 DEF Set
  <2> QED
    BY <2>2, <2>3
<1>11. ASSUME NEW a, OK(mem, own, group, a) PROVE OK(mem, own, group', a)
  <2>1. \A i, j : Set(group', a, i, j) => group'[i].cheat[j] = group[i].cheat[j]
    BY <1>7, <1>10 DEF Set
  <2> QED
    BY <1>10, <1>11, <2>1 DEF OK
<1>12. \A a \in Addresses : a \in Clear \cup {} =>
         /\ on' => OK(mem', own', group', a)
         /\ ~on' => mem'[a] = own'[a]
  BY <1>2, <1>11 DEF CheatsIInv, Stands
<1> QED
  BY <1>2, <1>3, <1>7, <1>9, <1>12, Finish

\* What the invariant says before a step that writes nothing of the game's.
LEMMA Before ==
    ASSUME CheatsIInv
    PROVE  /\ mem \in Memory /\ own \in Memory /\ group \in Groups /\ on \in BOOLEAN /\ Flagged(group)
           /\ \A a \in Clear : /\ a \in Addresses
                               /\ on => OK(mem, own, group, a) /\ Lone(group, a) /\ Unlike(group, own, a)
                               /\ ~on => mem[a] = own[a]
BY DEF CheatsIInv, CheatsType, Noted, Stands, Clear

LEMMA TurnOnStep ==
    ASSUME CheatsIInv, TurnedOn(mem, group, mem', group'), own' = own, on' = on, Observe({})
    PROVE  CheatsIInv'
<1>1. \A a \in Addresses : a \in Clear \cup {} /\ (on' => Lone(group', a) /\ Unlike(group', own', a)) =>
         /\ on' => OK(mem', own', group', a)
         /\ ~on' => mem'[a] = own'[a]
  BY Before DEF TurnedOn
<1> QED
  BY <1>1, Before, Finish DEF TurnedOn

LEMMA TurnOffStep ==
    ASSUME CheatsIInv, NEW hs, TurnedOff(mem, group, mem', hs), own' = own, on' = on, Observe({}),
           group' \in Groups, Flagged(group'),
           \A a \in Addresses : OK(mem', own, hs, a) => OK(mem', own, group', a)
    PROVE  CheatsIInv'
<1>1. \A a \in Addresses : a \in Clear \cup {} =>
         /\ on' => OK(mem', own', group', a)
         /\ ~on' => mem'[a] = own'[a]
  BY Before DEF TurnedOff
<1> QED
  BY <1>1, Before, Finish DEF TurnedOff

LEMMA EnableGroupStep ==
    ASSUME CheatsIInv, NEW n \in DOMAIN group, S9xEnableCheatGroup(n)
    PROVE  CheatsIInv'
<1> DEFINE r == Each(EnableNow, mem, group[n].cheat)
           hs == [group EXCEPT ![n] = [enabled |-> TRUE, cheat |-> r.cheats]]
<1>1. mem' = r.mem /\ group' = hs /\ own' = own /\ on' = on /\ Observe({})
  BY DEF S9xEnableCheatGroup
<1>2. TurnedOn(mem, group, r.mem, hs)
  BY Before, GroupFacts, OnGroup
<1> HIDE DEF r, hs
<1> QED
  BY <1>1, <1>2, TurnOnStep

LEMMA DisableGroupStep ==
    ASSUME CheatsIInv, NEW n \in DOMAIN group, S9xDisableCheatGroup(n)
    PROVE  CheatsIInv'
<1> DEFINE r == Each(S9xDisableCheat, mem, group[n].cheat)
           hs == [group EXCEPT ![n] = [enabled |-> FALSE, cheat |-> r.cheats]]
<1>1. mem' = r.mem /\ group' = hs /\ own' = own /\ on' = on /\ Observe({})
  BY DEF S9xDisableCheatGroup
<1>2. OneOff(mem, group, r.mem, hs, n)
  BY Before, GroupFacts, OffGroup
<1> HIDE DEF r, hs
<1>3. TurnedOff(mem, group, mem', hs)
  BY <1>1, <1>2 DEF OneOff
<1>4. group' \in Groups /\ Flagged(group')
  BY <1>1, <1>3 DEF TurnedOff
<1>5. \A a \in Addresses : OK(mem', own, hs, a) => OK(mem', own, group', a)
  BY <1>1
<1> QED
  BY <1>1, <1>3, <1>4, <1>5, TurnOffStep

LEMMA DeleteGroupStep ==
    ASSUME CheatsIInv, NEW n \in DOMAIN group, S9xDeleteCheatGroup(n)
    PROVE  CheatsIInv'
<1> DEFINE r == Each(S9xDisableCheat, mem, group[n].cheat)
           g == [enabled |-> FALSE, cheat |-> r.cheats]
           hs == [group EXCEPT ![n] = g]
<1>1. mem' = r.mem /\ group' = RemoveAt(group, n) /\ own' = own /\ on' = on /\ Observe({})
  BY DEF S9xDeleteCheatGroup
<1>2. OneOff(mem, group, r.mem, hs, n)
  BY Before, GroupFacts, OffGroup
<1>3. /\ group \in Groups /\ Len(group) \in Nat /\ n \in 1..Len(group)
      /\ \A i \in 1..Len(group) : group[i] \in Group
  BY Before, GroupFacts
<1> HIDE DEF r, g
<1>4. Len(hs) = Len(group) /\ \A i \in 1..Len(group) : i # n => hs[i] = group[i]
  BY <1>3 DEF Groups
<1> HIDE DEF hs
<1>5. TurnedOff(mem, group, mem', hs) /\ \A a, j : ~Set(hs, a, n, j)
  BY <1>1, <1>2 DEF OneOff
<1>6. /\ group' \in Groups /\ Len(group') = Len(group) - 1
      /\ \A i \in 1..(Len(group) - 1) : group'[i] = IF i < n THEN group[i] ELSE group[i + 1]
  <2>1. group' = SubSeq(group, 1, n - 1) \o SubSeq(group, n + 1, Len(group))
    BY <1>1 DEF RemoveAt
  <2>2. /\ SubSeq(group, 1, n - 1) \in Seq(Group) /\ Len(SubSeq(group, 1, n - 1)) = n - 1
        /\ \A i \in 1..(n - 1) : SubSeq(group, 1, n - 1)[i] = group[i]
    BY <1>3 DEF Groups
  <2>3. /\ SubSeq(group, n + 1, Len(group)) \in Seq(Group)
        /\ Len(SubSeq(group, n + 1, Len(group))) = Len(group) - n
        /\ \A i \in 1..(Len(group) - n) : SubSeq(group, n + 1, Len(group))[i] = group[n + i]
    BY <1>3 DEF Groups
  <2> DEFINE s == SubSeq(group, 1, n - 1)
             t == SubSeq(group, n + 1, Len(group))
  <2> HIDE DEF s, t
  <2>4. /\ s \in Seq(Group) /\ t \in Seq(Group) /\ group' = s \o t
        /\ Len(s) = n - 1 /\ Len(t) = Len(group) - n
        /\ \A i \in 1..(n - 1) : s[i] = group[i]
        /\ \A i \in 1..(Len(group) - n) : t[i] = group[n + i]
    BY <2>1, <2>2, <2>3 DEF s, t
  <2>5. group' \in Groups /\ Len(group') = Len(group) - 1
    BY <1>3, <2>4 DEF Groups
  <2>6. \A i \in 1..(Len(group) - 1) : (s \o t)[i] = IF i <= Len(s) THEN s[i] ELSE t[i - Len(s)]
    BY <1>3, <2>4
  <2>7. ASSUME NEW i \in 1..(Len(group) - 1)
        PROVE  group'[i] = IF i < n THEN group[i] ELSE group[i + 1]
    <3>1. CASE i < n
      BY <1>3, <2>4, <2>6, <3>1
    <3>2. CASE ~(i < n)
      <4>1. i - Len(s) \in 1..(Len(group) - n) /\ ~(i <= Len(s)) /\ n + (i - Len(s)) = i + 1
        BY <1>3, <2>4, <3>2
      <4>2. t[i - Len(s)] = group[n + (i - Len(s))]
        BY <2>4, <4>1
      <4> QED
        BY <2>4, <2>6, <3>2, <4>1, <4>2
    <3> QED
      BY <3>1, <3>2
  <2> QED
    BY <2>5, <2>7
<1> DEFINE from(i) == IF i < n THEN i ELSE i + 1
<1>7. \A i \in 1..Len(group') :
         from(i) \in 1..Len(group) /\ from(i) # n /\ group'[i] = group[from(i)] /\ group'[i] = hs[from(i)]
  BY <1>3, <1>4, <1>6
<1>8. \A i \in 1..Len(group) : i # n => \E k \in 1..Len(group') : from(k) = i
  <2>1. TAKE i \in 1..Len(group)
  <2>2. CASE i < n
    BY <1>3, <1>6, <2>2
  <2>3. CASE i > n
    <3>1. i - 1 \in 1..Len(group') /\ from(i - 1) = i
      BY <1>3, <1>6, <2>3
    <3> QED
      BY <3>1
  <2> QED
    BY <1>3, <2>2, <2>3
<1> HIDE DEF from
<1>9. Flagged(group')
  <2>1. Flagged(group)
    BY Before
  <2> QED
    BY <1>7, <2>1 DEF Flagged
<1>10. ASSUME NEW a \in Addresses, OK(mem', own, hs, a) PROVE OK(mem', own, group', a)
  <2>1. \A i, j : Set(group', a, i, j) =>
           Set(hs, a, from(i), j) /\ group'[i].cheat[j] = hs[from(i)].cheat[j]
    BY <1>4, <1>7 DEF Set
  <2>2. ASSUME NEW i, NEW j, Set(hs, a, i, j) PROVE \E k, l : Set(group', a, k, l)
    <3>1. i \in 1..Len(group) /\ i # n
      BY <1>4, <1>5, <2>2 DEF Set
    <3>2. PICK k \in 1..Len(group') : from(k) = i
      BY <1>8, <3>1
    <3>3. Set(group', a, k, j)
      BY <1>7, <2>2, <3>2 DEF Set
    <3> QED
      BY <3>3
  <2> QED
    BY <1>10, <2>1, <2>2 DEF OK
<1> QED
  BY <1>1, <1>5, <1>6, <1>9, <1>10, TurnOffStep

LEMMA DeleteAllStep ==
    ASSUME CheatsIInv, S9xDeleteCheats
    PROVE  CheatsIInv'
<1> DEFINE r == Disabled(mem, group)
           hs == r.group
<1>1. mem' = r.mem /\ group' = <<>> /\ own' = own /\ on' = on /\ Observe({})
  BY DEF S9xDeleteCheats
<1>2. AllOff(mem, group, r.mem, r.group)
  BY Before, OffGroups
<1> HIDE DEF r
<1>3. TurnedOff(mem, group, mem', hs) /\ \A a, i, j : ~Set(hs, a, i, j)
  BY <1>1, <1>2 DEF AllOff
<1> HIDE DEF hs
<1>4. group' \in Groups /\ Flagged(group')
  BY <1>1 DEF Groups, Flagged
<1>5. \A a \in Addresses : OK(mem', own, hs, a) => OK(mem', own, group', a)
  <2>1. \A a, i, j : ~Set(group', a, i, j)
    BY <1>1 DEF Set
  <2> QED
    BY <1>3, <2>1 DEF OK
<1> QED
  BY <1>1, <1>3, <1>4, <1>5, TurnOffStep

\* The n-th of gs has cheats c instead, and what stood right with hs does.
Renewed(gs, n, hs, c, ks) ==
    /\ ks \in Groups /\ Flagged(ks) /\ Len(ks) = Len(gs)
    /\ ks[n] = [enabled |-> gs[n].enabled, cheat |-> c]
    /\ \A i \in 1..Len(gs) : i # n => ks[i] = gs[i]
    /\ \A m, o, a : OK(m, o, hs, a) => OK(m, o, ks, a)

\* A group whose cheats are off may have others instead, that are off.
LEMMA Replaced ==
    ASSUME NEW gs \in Groups, NEW n \in 1..Len(gs), Flagged(gs), NEW hs \in Groups, Len(hs) = Len(gs),
           \A i \in 1..Len(gs) : i # n => hs[i] = gs[i], \A a, j : ~Set(hs, a, n, j),
           NEW c \in Seq(Cheat), \A j \in 1..Len(c) : ~c[j].enabled,
           NEW ks, ks = [gs EXCEPT ![n].cheat = c]
    PROVE  Renewed(gs, n, hs, c, ks)
<1> DEFINE g == [enabled |-> gs[n].enabled, cheat |-> c]
<1>1. /\ Len(gs) \in Nat /\ DOMAIN gs = 1..Len(gs)
      /\ \A i \in 1..Len(gs) : gs[i] \in Group /\ gs[i].enabled \in BOOLEAN
  BY GroupFacts
<1>2. g \in Group /\ g.cheat = c
  BY <1>1 DEF Group
<1>3. ks = [gs EXCEPT ![n] = g]
  <2>1. gs[n] = [enabled |-> gs[n].enabled, cheat |-> gs[n].cheat]
    BY <1>1 DEF Group
  <2>2. [gs[n] EXCEPT !.cheat = c] = g
    BY <2>1
  <2> QED
    BY <2>2
<1> HIDE DEF g
<1>4. /\ ks \in Groups /\ Len(ks) = Len(gs) /\ ks[n] = g
      /\ \A i \in 1..Len(gs) : i # n => ks[i] = gs[i]
  BY <1>1, <1>2, <1>3 DEF Groups
<1>5. Flagged(ks)
  BY <1>2, <1>4 DEF Flagged
<1>6. ASSUME NEW a, NEW i, NEW j PROVE Set(ks, a, i, j) <=> Set(hs, a, i, j)
  <2>1. CASE i = n
    BY <1>2, <1>4, <2>1 DEF Set
  <2>2. CASE i # n
    BY <1>4, <2>2 DEF Set
  <2> QED
    BY <2>1, <2>2
<1>7. ASSUME NEW m, NEW o, NEW a, OK(m, o, hs, a) PROVE OK(m, o, ks, a)
  <2>1. \A i, j : Set(ks, a, i, j) <=> Set(hs, a, i, j)
    BY <1>6
  <2>2. \A i, j : Set(ks, a, i, j) => ks[i].cheat[j] = hs[i].cheat[j]
    <3>1. \A i, j : Set(ks, a, i, j) => i \in 1..Len(gs) /\ i # n
      BY <1>4, <2>1 DEF Set
    <3> QED
      BY <1>4, <3>1
  <2>3. (\A i, j : ~Set(ks, a, i, j)) => m[a] = o[a]
    BY <1>7, <2>1 DEF OK
  <2>4. ASSUME NEW i, NEW j, Set(ks, a, i, j) PROVE Good(m[a], o[a], ks[i].cheat[j])
    <3>1. Set(hs, a, i, j) /\ ks[i].cheat[j] = hs[i].cheat[j]
      BY <2>1, <2>2, <2>4
    <3>2. Good(m[a], o[a], hs[i].cheat[j])
      BY <1>7, <3>1 DEF OK
    <3> QED
      BY <3>1, <3>2
  <2> QED
    BY <2>3, <2>4 DEF OK
<1> QED
  BY <1>4, <1>5, <1>7 DEF g, Renewed

LEMMA ModifyStep ==
    ASSUME CheatsIInv, NEW n \in DOMAIN group, NEW l \in CodeLists, S9xModifyCheatGroup(n, l)
    PROVE  CheatsIInv'
<1> DEFINE q == Each(S9xDisableCheat, mem, group[n].cheat)
           hs == [group EXCEPT ![n] = [enabled |-> FALSE, cheat |-> q.cheats]]
<1>1. PICK c \in Created(l) :
        LET off == Each(S9xDisableCheat, mem, group[n].cheat).mem
            r == Each(EnableNow, off, c)
        IN  IF group[n].enabled
            THEN mem' = r.mem /\ group' = [group EXCEPT ![n].cheat = r.cheats]
            ELSE mem' = off /\ group' = [group EXCEPT ![n].cheat = c]
  BY DEF S9xModifyCheatGroup
<1> DEFINE r == Each(EnableNow, q.mem, c)
           ks == [group EXCEPT ![n].cheat = c]
<1>2. IF group[n].enabled
      THEN mem' = r.mem /\ group' = [group EXCEPT ![n].cheat = r.cheats]
      ELSE mem' = q.mem /\ group' = ks
  BY <1>1
<1>3. own' = own /\ on' = on /\ Observe({})
  BY DEF S9xModifyCheatGroup
<1>4. /\ group \in Groups /\ Len(group) \in Nat /\ n \in 1..Len(group) /\ Flagged(group)
      /\ on \in BOOLEAN /\ group[n].enabled \in BOOLEAN
      /\ DOMAIN group = 1..Len(group) /\ \A i \in 1..Len(group) : group[i] \in Group
  BY Before, GroupFacts
<1>5. OneOff(mem, group, q.mem, hs, n)
  BY Before, GroupFacts, OffGroup
<1>6. c \in Seq(Cheat) /\ \A j \in 1..Len(c) : ~c[j].enabled
  BY <1>1, CreatedFacts
<1>7. TurnedOff(mem, group, q.mem, hs) /\ \A a, j : ~Set(hs, a, n, j)
  BY <1>5 DEF OneOff
<1>8. hs \in Groups /\ q.mem \in Memory
  BY <1>7 DEF TurnedOff
<1> HIDE DEF q
<1>9. Len(hs) = Len(group) /\ \A i \in 1..Len(group) : i # n => hs[i] = group[i]
  BY <1>4, <1>8 DEF Groups
<1> HIDE DEF hs
<1> HIDE DEF ks
<1>10. /\ ks \in Groups /\ Flagged(ks) /\ Len(ks) = Len(group)
       /\ ks[n] = [enabled |-> group[n].enabled, cheat |-> c]
       /\ \A i \in 1..Len(group) : i # n => ks[i] = group[i]
       /\ \A m, o, a : OK(m, o, hs, a) => OK(m, o, ks, a)
  <2>1. ks = [group EXCEPT ![n].cheat = c]
    BY DEF ks
  <2>2. Renewed(group, n, hs, c, ks)
    BY <1>4, <1>6, <1>7, <1>8, <1>9, <2>1, Replaced
  <2> QED
    BY <2>2 DEF Renewed
<1>11. CASE ~group[n].enabled
  <2>1. mem' = q.mem /\ group' = ks
    BY <1>2, <1>11
  <2>2. TurnedOff(mem, group, mem', hs)
    BY <1>7, <2>1
  <2>3. \A a \in Addresses : OK(mem', own, hs, a) => OK(mem', own, group', a)
    BY <1>10, <2>1
  <2> QED
    BY <1>3, <1>10, <2>1, <2>2, <2>3, TurnOffStep
<1>12. CASE group[n].enabled
  <2> DEFINE g == [enabled |-> TRUE, cheat |-> r.cheats]
             us == [ks EXCEPT ![n] = g]
  <2>1. mem' = r.mem /\ group' = [group EXCEPT ![n].cheat = r.cheats]
    BY <1>2, <1>12
  <2>2. TurnedOn(q.mem, ks, r.mem, us)
    <3>1. ks[n].cheat = c
      BY <1>10
    <3>2. n \in 1..Len(ks)
      BY <1>4, <1>10
    <3> QED
      BY <1>4, <1>8, <1>10, <3>1, <3>2, OnGroup
  <2> HIDE DEF r
  <2>3. group' = us
    <3>1. group[n].enabled = TRUE
      BY <1>4, <1>12
    <3>2. group[n] = [enabled |-> group[n].enabled, cheat |-> group[n].cheat]
      BY <1>4 DEF Group
    <3>3. [group[n] EXCEPT !.cheat = r.cheats] = g
      <4>1. [group[n] EXCEPT !.cheat = r.cheats] = [enabled |-> group[n].enabled, cheat |-> r.cheats]
        BY <3>2
      <4> QED
        BY <3>1, <4>1, Zenon
    <3>4. group' = [group EXCEPT ![n] = g]
      BY <2>1, <3>3
    <3> HIDE DEF g
    <3>5. /\ DOMAIN ks = 1..Len(group) /\ ks = [i \in 1..Len(group) |-> ks[i]]
      BY <1>4, <1>10 DEF Groups
    <3>6. us = [i \in 1..Len(group) |-> IF i = n THEN g ELSE group[i]]
      BY <1>10, <3>5
    <3>7. group' = [i \in 1..Len(group) |-> IF i = n THEN g ELSE group[i]]
      <4>1. group = [i \in 1..Len(group) |-> group[i]]
        BY <1>4 DEF Groups
      <4> QED
        BY <3>4, <4>1
    <3> QED
      BY <3>6, <3>7
  <2> HIDE DEF us
  <2>4. TurnedOn(q.mem, ks, mem', group')
    BY <2>1, <2>2, <2>3
  <2>5. mem' \in Memory /\ group' \in Groups /\ Flagged(group')
    BY <2>4 DEF TurnedOn
  <2>6. ASSUME NEW a \in Clear, on' => Lone(group', a)
        PROVE  /\ on' => OK(mem', own', group', a)
               /\ ~on' => mem'[a] = own'[a]
    <3>1. /\ a \in Addresses
          /\ on => OK(mem, own, group, a) /\ Lone(group, a) /\ Unlike(group, own, a)
          /\ ~on => mem[a] = own[a]
      BY Before
    <3>2. on => OK(q.mem, own, hs, a)
      BY <1>7, <3>1 DEF TurnedOff
    <3>3. ~on => q.mem[a] = own[a]
      BY <1>7, <3>1 DEF TurnedOff
    <3>4. on => OK(q.mem, own, ks, a)
      BY <1>10, <3>2
    <3>5. on => OK(mem', own, group', a)
      BY <1>3, <2>4, <2>6, <3>1, <3>4 DEF TurnedOn
    <3>6. ~on => mem'[a] = own[a]
      BY <2>4, <3>1, <3>3 DEF TurnedOn
    <3> QED
      BY <1>3, <3>5, <3>6
  <2>7. \A a \in Addresses : a \in Clear \cup {} /\ (on' => Lone(group', a) /\ Unlike(group', own', a)) =>
          /\ on' => OK(mem', own', group', a)
          /\ ~on' => mem'[a] = own'[a]
    BY <2>6
  <2> QED
    BY <1>3, <2>5, <2>7, Before, Finish
<1> QED
  BY <1>11, <1>12

LEMMA CheatsDisableStep ==
    ASSUME CheatsIInv, S9xCheatsDisable
    PROVE  CheatsIInv'
<1> DEFINE r == EachGroup(S9xDisableCheat, IsOn, Same, mem, group)
           picked == {i \in 1..Len(group) : group[i].enabled}
<1>1. mem' = r.mem /\ group' = r.group /\ on /\ on' = FALSE /\ own' = own /\ Observe({})
  BY DEF S9xCheatsDisable
<1>2. mem \in Memory /\ own \in Memory /\ group \in Groups /\ on \in BOOLEAN /\ Flagged(group)
  BY Before
<1>3. /\ GroupRun("off", picked, mem, group, r.mem, r.group)
      /\ r.group \in Groups
      /\ \A i \in 1..Len(group) : r.group[i].enabled = group[i].enabled
  BY <1>2, DisableOnGroups
<1> HIDE DEF r
<1>4. /\ GroupRun("off", picked, mem, group, mem', group')
      /\ group' \in Groups
      /\ \A i \in 1..Len(group) : group'[i].enabled = group[i].enabled
  BY <1>1, <1>3
<1>5. "off" \in Kinds
  BY DEF Kinds
<1>6. \A i \in 1..Len(group) : i \notin picked => ~group[i].enabled
  OBVIOUS
<1> HIDE DEF picked
<1>7. mem' \in Memory
  BY <1>2, <1>4, <1>5, GroupRunType
<1>8. \A a, i, j : ~Set(group', a, i, j)
  <2>1. TAKE a, i, j
  <2>2. Set(group', a, i, j) => /\ i \in 1..Len(group) /\ j \in 1..Len(group[i].cheat)
                                /\ i \notin picked /\ group[i].cheat[j].enabled
    BY <1>2, <1>4, <1>5, SetAfter
  <2>3. i \in 1..Len(group) /\ j \in 1..Len(group[i].cheat) /\ group[i].cheat[j].enabled => group[i].enabled
    BY <1>2 DEF Flagged
  <2> QED
    BY <1>6, <2>2, <2>3
<1>9. Flagged(group')
  <2>1. ASSUME NEW i \in 1..Len(group'), NEW j \in 1..Len(group'[i].cheat), group'[i].cheat[j].enabled
        PROVE  FALSE
    <3>1. Set(group', group'[i].cheat[j].address, i, j)
      BY <2>1 DEF Set
    <3> QED
      BY <1>8, <3>1
  <2> QED
    BY <2>1 DEF Flagged
<1>10. ASSUME NEW a \in Clear PROVE mem'[a] = own[a]
  <2>1. a \in Addresses /\ OK(mem, own, group, a) /\ Lone(group, a) /\ Unlike(group, own, a)
    BY <1>1, Before
  <2>2. OK(mem', own, group', a)
    BY <1>1, <1>2, <1>4, <2>1, OffOK
  <2> QED
    BY <1>8, <2>2 DEF OK
<1>11. \A a \in Addresses : a \in Clear \cup {} =>
         /\ on' => OK(mem', own', group', a)
         /\ ~on' => mem'[a] = own'[a]
  BY <1>1, <1>10
<1> QED
  BY <1>1, <1>2, <1>4, <1>7, <1>9, <1>11, Finish

LEMMA CheatsEnableStep ==
    ASSUME CheatsIInv, S9xCheatsEnable
    PROVE  CheatsIInv'
<1> DEFINE r == EachGroup(EnableOn, IsOn, Same, mem, group)
           picked == {i \in 1..Len(group) : group[i].enabled}
<1>1. mem' = r.mem /\ group' = r.group /\ ~on /\ on' = TRUE /\ own' = own /\ Observe({})
  BY DEF S9xCheatsEnable
<1>2. mem \in Memory /\ own \in Memory /\ group \in Groups /\ on \in BOOLEAN /\ Flagged(group)
  BY Before
<1>3. /\ GroupRun("on", picked, mem, group, r.mem, r.group)
      /\ r.group \in Groups
      /\ \A i \in 1..Len(group) : r.group[i].enabled = group[i].enabled
  BY <1>2, EnableOnGroups
<1> HIDE DEF r
<1>4. /\ GroupRun("on", picked, mem, group, mem', group')
      /\ group' \in Groups
      /\ \A i \in 1..Len(group) : group'[i].enabled = group[i].enabled
  BY <1>1, <1>3
<1>5. "on" \in Kinds
  BY DEF Kinds
<1>6. \A i \in 1..Len(group) : i \in picked => group[i].enabled
  OBVIOUS
<1> HIDE DEF picked
<1>7. mem' \in Memory
  BY <1>2, <1>4, <1>5, GroupRunType
<1>8. Flagged(group')
  <2>1. \A i \in 1..Len(group) : (i \notin picked /\ group'[i].enabled = group[i].enabled) \/ group'[i].enabled
    BY <1>4, <1>6
  <2> QED
    BY <1>2, <1>4, <1>5, <2>1, FlaggedAfter
<1>9. ASSUME NEW a \in Clear, Lone(group', a) PROVE OK(mem', own, group', a)
  <2>1. a \in Addresses /\ mem[a] = own[a]
    BY <1>1, Before
  <2>2. OK(mem, own, group, a)
    BY <2>1 DEF OK, Good
  <2> QED
    BY <1>2, <1>4, <1>9, <2>1, <2>2, OnOK
<1>10. \A a \in Addresses : a \in Clear \cup {} /\ (on' => Lone(group', a) /\ Unlike(group', own', a)) =>
         /\ on' => OK(mem', own', group', a)
         /\ ~on' => mem'[a] = own'[a]
  BY <1>1, <1>9
<1> QED
  BY <1>1, <1>2, <1>4, <1>7, <1>8, <1>10, Finish

LEMMA LoadROMStep ==
    ASSUME CheatsIInv, NEW new \in Memory, NEW l \in CodeLists, LoadROM(new, l)
    PROVE  CheatsIInv'
<1> DEFINE q == Disabled(new, group)
           hs == q.group
           off == q.mem
<1>1. PICK c \in Created(l), e \in BOOLEAN :
        LET r == Each(EnableNow, Disabled(new, group).mem, c)
        IN  IF e THEN mem' = r.mem /\ group' = <<[enabled |-> TRUE, cheat |-> r.cheats]>>
            ELSE mem' = Disabled(new, group).mem /\ group' = <<[enabled |-> FALSE, cheat |-> c]>>
  BY DEF LoadROM
<1> DEFINE r == Each(EnableNow, off, c)
           ks == <<[enabled |-> FALSE, cheat |-> c]>>
<1>2. IF e THEN mem' = r.mem /\ group' = <<[enabled |-> TRUE, cheat |-> r.cheats]>>
      ELSE mem' = off /\ group' = ks
  BY <1>1
<1>3. /\ own' = new /\ on' = on
      /\ alike' = Alike(group, on) \cup Alike(group', on)
      /\ shared' = Shared(group, on) \cup Shared(group', on)
  BY DEF LoadROM
<1>4. group \in Groups /\ on \in BOOLEAN /\ Flagged(group)
  BY Before
<1>5. TurnedOff(new, group, off, hs) /\ \A a, i, j : ~Set(hs, a, i, j)
  BY <1>4, OffGroups DEF AllOff
<1>6. c \in Seq(Cheat) /\ \A j \in 1..Len(c) : ~c[j].enabled
  BY <1>1, CreatedFacts
<1> HIDE DEF q, hs, off
<1>7. off \in Memory
  BY <1>5 DEF TurnedOff
\* With the cheats of the last game off the new one's memory is its own.
<1>8. ASSUME NEW a \in Addresses, a \notin alike' \cup shared' PROVE off[a] = new[a]
  <2>1. CASE ~on
    BY <1>5, <2>1 DEF TurnedOff
  <2>2. CASE on
    <3>1. on = TRUE
      BY <2>2
    <3>2. a \notin Alike(group, TRUE) /\ a \notin Shared(group, TRUE)
      BY <1>3, <1>8, <3>1
    <3>3. Lone(group, a) /\ Unlike(group, new, a)
      BY <1>3, <1>4, <3>2, NotedBy
    <3>4. OK(new, new, group, a)
      BY DEF OK, Good
    <3>5. OK(off, new, hs, a)
      BY <1>5, <2>2, <3>3, <3>4 DEF TurnedOff
    <3> QED
      BY <1>5, <3>5 DEF OK
  <2> QED
    BY <2>1, <2>2
<1>9. /\ ks \in Groups /\ Len(ks) = 1 /\ Flagged(ks) /\ ks[1].cheat = c
      /\ \A a, i, j : ~Set(ks, a, i, j)
  <2> DEFINE g == [enabled |-> FALSE, cheat |-> c]
  <2>1. g \in Group /\ g.cheat = c
    BY <1>6 DEF Group
  <2> HIDE DEF g
  <2>2. <<g>> \in Groups /\ Len(<<g>>) = 1 /\ <<g>>[1] = g
    BY <2>1 DEF Groups
  <2>3. Flagged(<<g>>) /\ \A a, i, j : ~Set(<<g>>, a, i, j)
    BY <1>6, <2>1, <2>2 DEF Flagged, Set
  <2> QED
    BY <2>1, <2>2, <2>3 DEF g
<1> HIDE DEF ks
<1>10. /\ mem' \in Memory /\ group' \in Groups /\ Flagged(group')
       /\ \A a \in Addresses : a \notin alike' \cup shared' /\ (on => Lone(group', a)) =>
            /\ on => OK(mem', new, group', a)
            /\ ~on => mem'[a] = new[a]
  <2>1. CASE ~e
    <3>1. mem' = off /\ group' = ks
      BY <1>2, <2>1
    <3>2. ASSUME NEW a \in Addresses, a \notin alike' \cup shared'
          PROVE  OK(mem', new, group', a) /\ mem'[a] = new[a]
      BY <1>8, <1>9, <3>1, <3>2 DEF OK
    <3> QED
      BY <1>7, <1>9, <3>1, <3>2
  <2>2. CASE e
    <3> DEFINE g == [enabled |-> TRUE, cheat |-> r.cheats]
    <3>1. mem' = r.mem /\ group' = <<g>>
      BY <1>2, <2>2
    <3>2. TurnedOn(off, ks, r.mem, [ks EXCEPT ![1] = g])
      <4>1. 1 \in 1..Len(ks)
        BY <1>9
      <4> QED
        BY <1>4, <1>7, <1>9, <4>1, OnGroup
    <3> HIDE DEF g, r
    <3>3. [ks EXCEPT ![1] = g] = <<g>>
      BY DEF ks
    <3>4. TurnedOn(off, ks, mem', group')
      BY <3>1, <3>2, <3>3
    <3>5. ASSUME NEW a \in Addresses, a \notin alike' \cup shared', on => Lone(group', a)
          PROVE  /\ on => OK(mem', new, group', a)
                 /\ ~on => mem'[a] = new[a]
      <4>1. off[a] = new[a]
        BY <1>8, <3>5
      <4>2. OK(off, new, ks, a)
        BY <1>9, <4>1 DEF OK
      <4> QED
        BY <3>4, <3>5, <4>1, <4>2 DEF TurnedOn
    <3>6. mem' \in Memory /\ group' \in Groups /\ Flagged(group')
      BY <3>4 DEF TurnedOn
    <3> QED
      BY <3>5, <3>6
  <2> QED
    BY <2>1, <2>2
<1>11. Alike(group', on') \subseteq alike' /\ Shared(group', on') \subseteq shared'
  BY <1>3
<1> QED
  BY <1>3, <1>4, <1>10, <1>11, FinishBy

LEMMA CheatsStart == CheatsInit => CheatsIInv
<1> SUFFICES ASSUME CheatsInit PROVE CheatsIInv
  OBVIOUS
<1>1. mem \in Memory /\ own = mem /\ group = <<>> /\ on = TRUE
  BY DEF CheatsInit, Memory
<1>2. group \in Groups /\ Flagged(group) /\ \A a, i, j : ~Set(group, a, i, j)
  BY <1>1 DEF Groups, Flagged, Set
<1>3. \A a : OK(mem, own, group, a) /\ Lone(group, a) /\ Unlike(group, own, a)
  BY <1>1, <1>2 DEF OK, Lone, Unlike
<1> QED
  BY <1>1, <1>2, <1>3 DEF CheatsIInv, CheatsType, Noted, Stands, Clear

LEMMA CheatsStep == CheatsIInv /\ [CheatsNext]_cheatVars => CheatsIInv'
<1> SUFFICES ASSUME CheatsIInv, [CheatsNext]_cheatVars PROVE CheatsIInv'
  OBVIOUS
<1>1. CASE \E a \in Addresses, b \in Bytes : GameWrites(a, b)
  BY <1>1, GameWritesStep
<1>2. CASE S9xUpdateCheatsInMemory
  BY <1>2, UpdateStep
<1>3. CASE \E l \in CodeLists : S9xAddCheatGroup(l)
  BY <1>3, AddStep
<1>4. CASE \E n \in DOMAIN group : S9xEnableCheatGroup(n)
  BY <1>4, EnableGroupStep
<1>5. CASE \E n \in DOMAIN group : S9xDisableCheatGroup(n)
  BY <1>5, DisableGroupStep
<1>6. CASE \E n \in DOMAIN group : S9xDeleteCheatGroup(n)
  BY <1>6, DeleteGroupStep
<1>7. CASE \E n \in DOMAIN group, l \in CodeLists : S9xModifyCheatGroup(n, l)
  BY <1>7, ModifyStep
<1>8. CASE S9xDeleteCheats
  BY <1>8, DeleteAllStep
<1>9. CASE S9xCheatsDisable
  BY <1>9, CheatsDisableStep
<1>10. CASE S9xCheatsEnable
  BY <1>10, CheatsEnableStep
<1>11. CASE \E new \in [Addresses -> Bytes], l \in CodeLists : LoadROM(new, l)
  BY <1>11, LoadROMStep DEF Memory
<1>12. CASE UNCHANGED cheatVars
  BY <1>12 DEF cheatVars, CheatsIInv, CheatsType, Noted, Stands, Clear
<1> QED
  BY <1>1, <1>2, <1>3, <1>4, <1>5, <1>6, <1>7, <1>8, <1>9, <1>10, <1>11, <1>12
     DEF CheatsNext, GameOrUser

LEMMA CheatsIInvHolds == CheatsSpec => []CheatsIInv
BY CheatsStart, CheatsStep, PTL DEF CheatsSpec

\* Where no cheat is in effect the game finds what it last put there, whatever
\* cheats were turned on and off, one by one or all at once, changed and deleted
\* before, but where two were in effect at once or the game put there the byte
\* of the cheat itself (S9xDisableCheat, saved_byte): for any number of
\* addresses, bytes, groups and codes.
THEOREM RestoredInv == CheatsSpec => []Restored
<1>1. CheatsIInv => Restored
  <2> SUFFICES ASSUME CheatsIInv, NEW a \in Addresses \ (alike \cup shared), Free(a)
               PROVE  mem[a] = own[a]
    BY DEF Restored
  <2>1. /\ a \in Addresses /\ on => OK(mem, own, group, a)
        /\ ~on => mem[a] = own[a]
    BY Before DEF Clear
  <2>2. CASE on
    <3>1. on = TRUE
      BY <2>2
    <3>2. ASSUME NEW i, NEW j, Set(group, a, i, j) PROVE FALSE
      <4>1. Acts(group, i, j)
        BY <3>2, Before, PlaceInEffect
      <4>2. <<i, j>> \in InEffect(group, on) /\ At(group, <<i, j>>).address = a
        BY <3>1, <3>2, <4>1 DEF Acts, Set
      <4> QED
        BY <4>2 DEF Free
    <3> QED
      BY <2>1, <2>2, <3>2 DEF OK
  <2> QED
    BY <2>1, <2>2
<1> QED
  BY <1>1, CheatsIInvHolds, PTL

\* At the end of a frame every unconditional cheat in effect has its byte in
\* memory, and a conditional one exactly when the game's byte is the one it
\* asks for (S9xUpdateCheatInMemory, cond_true), with the same two exceptions.
THEOREM AppliedInv == CheatsSpec => []Applied
<1>1. CheatsInit => Applied
  BY DEF CheatsInit, Applied
<1>2. CheatsIInv /\ Applied /\ [CheatsNext]_cheatVars => Applied'
  <2> SUFFICES ASSUME CheatsIInv, Applied, [CheatsNext]_cheatVars PROVE Applied'
    OBVIOUS
  <2>1. CASE S9xUpdateCheatsInMemory
    BY <2>1, UpdateStep
  <2>2. CASE GameOrUser /\ frameEnd' = FALSE
    BY <2>2 DEF Applied
  <2>3. CASE UNCHANGED cheatVars
    BY <2>3 DEF Applied, cheatVars
  <2> QED
    BY <2>1, <2>2, <2>3 DEF CheatsNext
<1> QED
  BY <1>1, <1>2, CheatsIInvHolds, PTL DEF CheatsSpec
=============================================================================
