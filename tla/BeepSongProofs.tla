--------------------------- MODULE BeepSongProofs ---------------------------
(***************************************************************************)
(* Theorems about BeepSong for any songs without rests, any commands and   *)
(* any mailbox capacity.                                                   *)
(*                                                                         *)
(* The inductive invariant IInv ties song_len to the selected song while   *)
(* it plays, and makes StopIsPrompt inductive by a trade: each note begun  *)
(* with a stop in the mailbox (late) is paid for by one place the stop has *)
(* moved forward (StopAdvances).  The arithmetic of BeepTone is proved     *)
(* field by field: durations and delays for InTime, then powers of two,    *)
(* positions of the transposed table and periods for InTune.               *)
(***************************************************************************)
EXTENDS BeepSong, TLAPS

Playing == {"play", "sound", "poll"}

\* The fields of the player; got is beep_song_thread's mb_val.
TypeOK ==
    /\ pc \in {"start", "dead", "wait", "reset"} \cup Playing
    /\ queue \in Seq(Commands) /\ Len(queue) <= Size
    /\ got \in [{"song"} -> Commands \cup {NoMail}]
    /\ index \in Nat /\ late \in Nat
    /\ pwm \in [on : BOOLEAN, freq : Nat]

\* The song being played is the one the last command asked for, with its own length.
SongSelected ==
    pc \in Playing =>
        /\ song_handle = beep_select_song(got["song"])
        /\ song_handle \in DOMAIN Songs
        /\ song_len = beep_song_get_len(Songs[song_handle])

\* The note that sounds.
NoteSounds ==
    /\ pwm.on => pc = "sound"
    /\ pc = "sound" =>
          /\ index < song_len
          /\ pwm.freq = beep_song_get_data(Songs[song_handle], index, freq_tab_new).freq
          /\ pwm.freq > 0

\* Some stop in the mailbox has moved forward once for each note begun since the first stop
\* was sent, except for the note whose command has not been read yet.
NoteOwed == IF pc \in {"sound", "poll"} THEN 1 ELSE 0
StopAdvances ==
    /\ ~StopQueued => late = 0
    /\ StopQueued => \E i \in DOMAIN queue : IsStop(queue[i]) /\ late + i <= Size + NoteOwed

\* Nothing is late when the stop has been read and the mailbox is about to be emptied.
StopRead == pc = "reset" => late = 0

IInv == TypeOK /\ SongSelected /\ NoteSounds /\ StopAdvances /\ StopRead

-----------------------------------------------------------------------------
\* The tuned frequency table (one octave up, no transposition) holds 524 to 988 Hz.
LEMMA TunedTable ==
    ASSUME NEW i \in 0 .. 11
    PROVE  freq_tab_new[i] \in 524 .. 988
PROOF
<1>1. freq_tab[i + 1] \in 262 .. 494
  BY DEF freq_tab
<1>2. 2 ^ 1 = 2
  OBVIOUS
<1>3. freq_tab_new[i] = UInt16(freq_tab[i + 1] * 2)
  BY <1>2 DEF freq_tab_new, beep_song_decode_new_freq, SOUND_SIGNATURE, SOUND_OCTACHORD
<1>4. (freq_tab[i + 1] * 2) % 65536 = freq_tab[i + 1] * 2
  BY <1>1
<1> QED BY <1>1, <1>3, <1>4 DEF UInt16

\* beep_song_decode gives every tone that is no rest an audible frequency: halving and doubling
\* for the low and the high octave neither reach zero nor leave 16 bits.
LEMMA AudibleTone ==
    ASSUME NEW tone \in Nat, DecodableTone(tone)
    PROVE  Frequency(tone, freq_tab_new) \in Nat /\ Frequency(tone, freq_tab_new) > 0
PROOF
<1>1. Note(tone) # 0 /\ TableIndex(tone) \in 0 .. 11
  BY DEF DecodableTone
<1> DEFINE f == freq_tab_new[TableIndex(tone)]
<1>2. f \in 524 .. 988
  BY <1>1, TunedTable
<1> HIDE DEF f
<1>3. f \div 2 \in Nat /\ f \div 2 > 0
  BY <1>2
<1>4. UInt16(f * 2) = f * 2
  BY <1>2 DEF UInt16
<1>5. Frequency(tone, freq_tab_new) \in {f \div 2, UInt16(f * 2), f}
  BY <1>1 DEF Frequency, f
<1> QED BY <1>2, <1>3, <1>4, <1>5

\* Every note of every song before its end mark is audible.
LEMMA AudibleNote ==
    ASSUME NEW s \in DOMAIN Songs, NEW i \in Nat, i < beep_song_get_len(Songs[s])
    PROVE  LET freq == beep_song_get_data(Songs[s], i, freq_tab_new).freq
           IN  freq \in Nat /\ freq > 0
PROOF
<1>1. i + 1 \in 1 .. beep_song_get_len(Songs[s])
  BY BeepSongAssumption
<1>2. Songs[s][i + 1][1] \in Nat /\ DecodableTone(Songs[s][i + 1][1])
  BY <1>1, SongsAssumption
<1>3. beep_song_get_data(Songs[s], i, freq_tab_new).freq
         = Frequency(Songs[s][i + 1][1], freq_tab_new)
  BY DEF beep_song_get_data, beep_song_decode
<1> QED BY <1>2, <1>3, AudibleTone

\* What taking the oldest command leaves in the mailbox.
LEMMA DequeueFacts ==
    ASSUME TypeOK, Mbox!Dequeue("song")
    PROVE  /\ Head(queue) \in Commands
           /\ 1 \in DOMAIN queue /\ queue[1] = Head(queue)
           /\ queue' \in Seq(Commands) /\ Len(queue') = Len(queue) - 1 /\ Len(queue') <= Size
           /\ \A i \in DOMAIN queue' : i + 1 \in DOMAIN queue /\ queue'[i] = queue[i + 1]
           /\ \A i \in DOMAIN queue : i # 1 => i - 1 \in DOMAIN queue' /\ queue'[i - 1] = queue[i]
           /\ \A i \in DOMAIN queue : i \in Nat /\ i >= 1
           /\ got' \in [{"song"} -> Commands \cup {NoMail}] /\ got'["song"] = Head(queue)
PROOF
<1>1. queue \in Seq(Commands) /\ queue # <<>> /\ Size \in Nat
  BY BeepSongAssumption DEF TypeOK, Mbox!Dequeue
<1>2. queue' = Tail(queue) /\ got' = [got EXCEPT !["song"] = Head(queue)]
  BY DEF Mbox!Dequeue
<1> QED BY <1>1, <1>2 DEF TypeOK

\* A song taken from the mailbox moves every stop one place forward.
LEMMA SongTaken ==
    ASSUME TypeOK, StopAdvances, Mbox!Dequeue("song"), ~IsStop(Head(queue)), late' = late,
           pc' = "play", pc \in {"wait", "poll"}
    PROVE  StopAdvances'
PROOF
<1>0. Size \in Nat /\ late \in Nat
  BY BeepSongAssumption DEF TypeOK
<1>1. StopQueued' <=> StopQueued
  BY DequeueFacts DEF StopQueued
<1>2. ASSUME StopQueued
      PROVE  \E i \in DOMAIN queue' : IsStop(queue'[i]) /\ late + i <= Size
  <2>1. PICK i \in DOMAIN queue : IsStop(queue[i]) /\ late + i <= Size + NoteOwed
    BY <1>2 DEF StopAdvances
  <2>2. i # 1
    BY <2>1, DequeueFacts
  <2>3. i - 1 \in DOMAIN queue' /\ IsStop(queue'[i - 1])
    BY <2>1, <2>2, DequeueFacts
  <2>4. late + (i - 1) <= Size
    BY <1>0, <2>1, DequeueFacts DEF NoteOwed
  <2> QED BY <2>3, <2>4
<1>3. NoteOwed' = 0
  BY DEF NoteOwed
<1>4. ~StopQueued => late = 0
  BY DEF StopAdvances
<1>5. ASSUME StopQueued' PROVE (\E i \in DOMAIN queue : IsStop(queue[i]) /\ late + i <= Size + NoteOwed)'
  BY <1>0, <1>1, <1>2, <1>3, <1>5
<1> QED BY <1>1, <1>4, <1>5 DEF StopAdvances

\* With late = 0 every stop in the mailbox is near enough.
LEMMA NothingLate ==
    ASSUME queue \in Seq(Commands), Len(queue) <= Size, late = 0
    PROVE  StopAdvances
PROOF
<1>1. \A i \in DOMAIN queue : i \in Nat /\ late + i <= Size + NoteOwed
  BY BeepSongAssumption DEF NoteOwed
<1> QED BY <1>1 DEF StopAdvances, StopQueued

-----------------------------------------------------------------------------
\* The invariant holds before the song thread runs.
LEMMA IInvInit == Init => IInv
PROOF
<1> SUFFICES ASSUME Init PROVE IInv
  OBVIOUS
<1>0. queue = <<>> /\ got = [t \in {"song"} |-> NoMail]
  BY DEF Init, Mbox!Init
<1>1. TypeOK
  BY <1>0, BeepSongAssumption DEF Init, TypeOK
<1>2. SongSelected /\ NoteSounds /\ StopRead
  BY DEF Init, SongSelected, NoteSounds, StopRead, Playing
<1>3. StopAdvances
  BY <1>0, <1>1, NothingLate DEF Init, TypeOK
<1> QED BY <1>1, <1>2, <1>3 DEF IInv

\* Every step of the player and of its senders keeps the invariant.
LEMMA IInvNext == IInv /\ [Next]_vars => IInv'
PROOF
<1> SUFFICES ASSUME IInv, [Next]_vars PROVE IInv'
  OBVIOUS
<1>0. Size \in Nat \ {0}
  BY BeepSongAssumption
<1>1. CASE ThreadStart \/ ThreadFails
  BY <1>1 DEF ThreadStart, ThreadFails, Goto, IInv, TypeOK, SongSelected, NoteSounds,
     StopAdvances, StopRead, StopQueued, NoteOwed, Playing, mailVars, songVars
<1>2. CASE WaitCommand
  <2>1. CASE IsStop(Head(queue))
    <3>1. /\ Mbox!Dequeue("song") /\ late' = 0
          /\ UNCHANGED <<pc, song_len, index, pwm>> /\ pc = "wait"
      BY <1>2, <2>1 DEF WaitCommand
    <3>2. TypeOK'
      BY <3>1, DequeueFacts DEF IInv, TypeOK
    <3>3. SongSelected' /\ NoteSounds' /\ StopRead'
      BY <3>1 DEF IInv, SongSelected, NoteSounds, StopRead, Playing
    <3>4. StopAdvances'
      <4>1. (queue \in Seq(Commands) /\ Len(queue) <= Size /\ late = 0)'
        BY <3>1, <3>2 DEF TypeOK
      <4> QED BY <4>1, NothingLate, PTL
    <3> QED BY <3>2, <3>3, <3>4 DEF IInv
  <2>2. CASE ~IsStop(Head(queue))
    <3>1. /\ Mbox!Dequeue("song") /\ late' = late /\ pc = "wait" /\ pc' = "play"
          /\ Select(beep_select_song(Head(queue))) /\ index' = 0 /\ pwm' = pwm
      BY <1>2, <2>2 DEF WaitCommand
    <3>2. TypeOK'
      BY <3>1, DequeueFacts DEF IInv, TypeOK, Playing
    <3>3. SongSelected'
      BY <2>2, <3>1, DequeueFacts DEF IInv, SongSelected, Select, IsStop, beep_select_song
    <3>4. NoteSounds' /\ StopRead'
      BY <3>1 DEF IInv, NoteSounds, StopRead
    <3>5. StopAdvances'
      BY <2>2, <3>1, SongTaken DEF IInv
    <3> QED BY <3>2, <3>3, <3>4, <3>5 DEF IInv
  <2> QED BY <2>1, <2>2
<1>3. CASE BeginNote
  <2>1. /\ pc = "play" /\ pc' = "sound" /\ index < song_len
        /\ UNCHANGED <<queue, got, song_handle, song_len, index>>
        /\ pwm' = [on |-> TRUE,
                   freq |-> beep_song_get_data(Songs[song_handle], index, freq_tab_new).freq]
        /\ late' = IF StopQueued THEN late + 1 ELSE 0
    BY <1>3 DEF BeginNote, Goto, mailVars, songVars
  <2>2. pwm'.freq \in Nat /\ pwm'.freq > 0
    BY <2>1, AudibleNote DEF IInv, TypeOK, SongSelected, Playing
  <2>3. TypeOK'
    BY <2>1, <2>2 DEF IInv, TypeOK, Playing
  <2>4. SongSelected' /\ NoteSounds' /\ StopRead'
    BY <2>1, <2>2 DEF IInv, SongSelected, NoteSounds, StopRead, Playing
  <2>5. StopAdvances'
    <3>1. NoteOwed = 0 /\ NoteOwed' = 1 /\ (StopQueued' <=> StopQueued)
      BY <2>1 DEF NoteOwed, StopQueued
    <3>2. CASE ~StopQueued
      BY <2>1, <3>1, <3>2 DEF StopAdvances
    <3>3. CASE StopQueued
      <4>1. PICK i \in DOMAIN queue : IsStop(queue[i]) /\ late + i <= Size + NoteOwed
        BY <3>3 DEF IInv, StopAdvances
      <4>2. i \in Nat /\ late \in Nat
        BY DEF IInv, TypeOK
      <4>3. i \in DOMAIN queue' /\ IsStop(queue'[i]) /\ late' + i <= Size + NoteOwed'
        BY <1>0, <2>1, <3>1, <3>3, <4>1, <4>2
      <4> QED BY <3>1, <3>3, <4>3 DEF StopAdvances
    <3> QED BY <3>2, <3>3
  <2> QED BY <2>3, <2>4, <2>5 DEF IInv
<1>4. CASE EndNote
  BY <1>4 DEF EndNote, Goto, IInv, TypeOK, SongSelected, NoteSounds,
     StopAdvances, StopRead, StopQueued, NoteOwed, Playing, mailVars, songVars
<1>5. CASE EndSong
  BY <1>5 DEF EndSong, Goto, IInv, TypeOK, SongSelected, NoteSounds,
     StopAdvances, StopRead, StopQueued, NoteOwed, Playing, mailVars, songVars
<1>6. CASE PollNothing
  <2>1. /\ pc = "poll" /\ pc' = "play" /\ queue = <<>> /\ index' = index + 1
        /\ UNCHANGED <<queue, got, song_handle, song_len, pwm, late>>
    BY <1>6 DEF PollNothing, Goto, mailVars
  <2>2. ~StopQueued /\ ~StopQueued'
    BY <2>1 DEF StopQueued
  <2>3. StopAdvances'
    BY <2>1, <2>2 DEF IInv, StopAdvances
  <2> QED BY <2>1, <2>3 DEF IInv, TypeOK, SongSelected, NoteSounds, StopRead, Playing
<1>7. CASE PollSong
  <2>1. /\ pc = "poll" /\ pc' = "play" /\ Mbox!Dequeue("song") /\ ~IsStop(Head(queue))
        /\ UNCHANGED <<pwm, late>> /\ index' \in Nat
        /\ song_handle' = beep_select_song(Head(queue))
    BY <1>7 DEF PollSong, Goto, Select, IInv, TypeOK
  <2>2. song_len' = beep_song_get_len(Songs[song_handle'])
    BY <1>7 DEF PollSong, Goto, Select, IInv, SongSelected, Playing
  <2>3. TypeOK'
    BY <2>1, DequeueFacts DEF IInv, TypeOK, Playing
  <2>4. SongSelected' /\ NoteSounds' /\ StopRead'
    BY <2>1, <2>2, DequeueFacts DEF IInv, SongSelected, NoteSounds, StopRead, IsStop, beep_select_song
  <2>5. StopAdvances'
    BY <2>1, SongTaken DEF IInv
  <2> QED BY <2>3, <2>4, <2>5 DEF IInv
<1>8. CASE PollStop
  <2>1. /\ pc = "poll" /\ pc' = "reset" /\ Mbox!Dequeue("song") /\ late' = 0
        /\ UNCHANGED <<index, pwm>>
    BY <1>8 DEF PollStop, Goto, songVars
  <2>2. TypeOK'
    BY <2>1, DequeueFacts DEF IInv, TypeOK
  <2>3. SongSelected' /\ NoteSounds' /\ StopRead'
    BY <2>1 DEF IInv, SongSelected, NoteSounds, StopRead, Playing
  <2>4. StopAdvances'
    <3>1. (queue \in Seq(Commands) /\ Len(queue) <= Size /\ late = 0)'
      BY <2>1, <2>2 DEF TypeOK
    <3> QED BY <3>1, NothingLate, PTL
  <2> QED BY <2>2, <2>3, <2>4 DEF IInv
<1>9. CASE ResetMailbox
  <2>1. /\ pc = "reset" /\ pc' = "wait" /\ queue' = <<>>
        /\ UNCHANGED <<got, song_handle, song_len, index, pwm, late>>
    BY <1>9 DEF ResetMailbox, Goto, Mbox!Reset, songVars
  <2>2. TypeOK'
    BY <1>0, <2>1 DEF IInv, TypeOK
  <2>3. SongSelected' /\ NoteSounds' /\ StopRead'
    BY <2>1 DEF IInv, SongSelected, NoteSounds, StopRead, Playing
  <2>4. StopAdvances'
    BY <2>1 DEF IInv, StopRead, StopAdvances, StopQueued
  <2> QED BY <2>2, <2>3, <2>4 DEF IInv
<1>10. ASSUME NEW cmd \in Commands, SendAccepted(cmd) PROVE IInv'
  <2>1. /\ Len(queue) < Size /\ queue' = Append(queue, cmd)
        /\ UNCHANGED <<got, pc, song_handle, song_len, index, pwm, late>>
    BY <1>10 DEF SendAccepted, Mbox!Enqueue, songVars
  <2>2. /\ queue' \in Seq(Commands) /\ Len(queue') = Len(queue) + 1
        /\ \A i \in DOMAIN queue : i \in DOMAIN queue' /\ queue'[i] = queue[i]
        /\ Len(queue') \in DOMAIN queue' /\ queue'[Len(queue')] = cmd
        /\ \A i \in DOMAIN queue' : i \in DOMAIN queue \/ i = Len(queue')
    BY <2>1 DEF IInv, TypeOK
  <2>3. TypeOK'
    BY <1>0, <2>1, <2>2 DEF IInv, TypeOK
  <2>4. SongSelected' /\ NoteSounds' /\ StopRead'
    BY <2>1 DEF IInv, SongSelected, NoteSounds, StopRead
  <2>5. StopAdvances'
    <3>1. CASE StopQueued
      <4>1. PICK i \in DOMAIN queue : IsStop(queue[i]) /\ late + i <= Size + NoteOwed
        BY <3>1 DEF IInv, StopAdvances
      <4>2. i \in DOMAIN queue' /\ IsStop(queue'[i]) /\ late' + i <= Size + NoteOwed'
        BY <2>1, <2>2, <4>1 DEF NoteOwed
      <4> QED BY <4>2 DEF StopAdvances, StopQueued
    <3>2. CASE ~StopQueued
      <4>1. (queue \in Seq(Commands) /\ Len(queue) <= Size /\ late = 0)'
        BY <2>1, <2>3, <3>2 DEF TypeOK, IInv, StopAdvances
      <4> QED BY <4>1, NothingLate, PTL
    <3> QED BY <3>1, <3>2
  <2> QED BY <2>3, <2>4, <2>5 DEF IInv
<1>11. CASE SendAsserts \/ UNCHANGED vars
  BY <1>11 DEF SendAsserts, vars, IInv, TypeOK, SongSelected, NoteSounds,
     StopAdvances, StopRead, StopQueued, NoteOwed, mailVars, songVars
<1> QED BY <1>1, <1>2, <1>3, <1>4, <1>5, <1>6, <1>7, <1>8, <1>9, <1>10, <1>11
        DEF Next, SongThread, Send

-----------------------------------------------------------------------------
\* The player's inductive invariant.
THEOREM Invariance == Spec => []IInv
PROOF
BY IInvInit, IInvNext, PTL DEF Spec

\* Whatever commands come and however they interleave with the notes, what plays is what the last
\* command read asked for, at an audible frequency of that song, and nothing sounds otherwise.
THEOREM PlaysLastCommandHolds == Spec => []PlaysLastCommand
PROOF
<1>1. IInv => PlaysLastCommand
  BY DEF IInv, SongSelected, NoteSounds, PlaysLastCommand, Playing
<1> QED BY <1>1, Invariance, PTL

\* For every capacity of the mailbox, at most that many notes begin once a stop is in it.
THEOREM StopIsPromptHolds == Spec => []StopIsPrompt
PROOF
<1>1. IInv => StopIsPrompt
  <2> SUFFICES ASSUME IInv PROVE late <= Size
    BY DEF StopIsPrompt
  <2>0. Size \in Nat
    BY BeepSongAssumption
  <2>1. CASE ~StopQueued
    BY <2>0, <2>1 DEF IInv, StopAdvances
  <2>2. CASE StopQueued
    <3>1. PICK i \in DOMAIN queue : late + i <= Size + NoteOwed
      BY <2>2 DEF IInv, StopAdvances
    <3>2. i \in Nat /\ i >= 1 /\ late \in Nat
      BY DEF IInv, TypeOK
    <3> QED BY <2>0, <3>1, <3>2 DEF NoteOwed
  <2> QED BY <2>1, <2>2
<1> QED BY <1>1, Invariance, PTL

\* No step moves the position of a song except to its next note, or to its first one when the
\* thread takes a command while it is idle.
THEOREM NotesInOrderHolds == Spec => NotesInOrder
PROOF
<1>1. [Next]_vars =>
        [song_handle' = song_handle /\ index' # index =>
            index' = index + 1 \/ (pc = "wait" /\ index' = 0)]_vars
  BY DEF Next, SongThread, Send, ThreadStart, ThreadFails, WaitCommand, BeginNote, EndNote,
     EndSong, PollNothing, PollSong, PollStop, ResetMailbox, SendAccepted, SendAsserts,
     Goto, Select, songVars, vars
<1> QED BY <1>1, PTL DEF Spec, NotesInOrder

-----------------------------------------------------------------------------
(***************************************************************************)
(* The arithmetic of the tones and lengths.                                *)
(***************************************************************************)
\* What a tone and a length are packed from.
LEMMA ToneFields ==
    ASSUME NEW tone \in Tones
    PROVE  tone \in Nat /\ Note(tone) \in 0 .. 7 /\ Range(tone) \in 1 .. 3 /\ Sharp(tone) \in 0 .. 1
PROOF
<1>1. PICK n \in 0 .. 7, r \in 1 .. 3, s \in 0 .. 1 : tone = n + 10 * r + 100 * s
  BY DEF Tones
<1>2. tone % 10 = n /\ tone \div 10 = r + 10 * s /\ tone \div 100 = s
  BY <1>1
<1>3. (r + 10 * s) % 10 = r
  OBVIOUS
<1> QED BY <1>1, <1>2, <1>3 DEF Note, Range, Sharp

LEMMA LengthFields ==
    ASSUME NEW length \in Lengths
    PROVE  Division(length) \in 0 .. 6 /\ Effect(length) \in 0 .. 2 /\ Dotted(length) \in 0 .. 1
PROOF
<1>1. PICK d \in 0 .. 6, e \in 0 .. 2, p \in 0 .. 1 : length = d + 10 * e + 100 * p
  BY DEF Lengths
<1>2. length % 10 = d /\ length \div 10 = e + 10 * p /\ length \div 100 = p
  BY <1>1
<1>3. (e + 10 * p) % 10 = e
  OBVIOUS
<1> QED BY <1>1, <1>2, <1>3 DEF Division, Effect, Dotted

\* A semibreve divided by a power of two, and half as much again for a dot.
Beats(length) ==
    (SEMIBREVE_LEN * (IF Dotted(length) = 1 THEN 3 ELSE 2)) \div (2 * 2 ^ Division(length))

\* The table of lengths holds the powers of two.
LEMMA NoteLengths ==
    ASSUME NEW length \in Lengths
    PROVE  NoteLength(length) = Beats(length) /\ Beats(length) \in 0 .. 2400
PROOF
<1>1. PICK d \in 0 .. 6, p \in 0 .. 1 : d = Division(length) /\ p = Dotted(length)
  BY LengthFields
<1> DEFINE plain == SEMIBREVE_LEN \div length_tab[d + 1]
           want == (SEMIBREVE_LEN * (IF p = 1 THEN 3 ELSE 2)) \div (2 * 2 ^ d)
<1>2. (IF p = 1 THEN plain + plain \div 2 ELSE plain) = want /\ want \in 0 .. 2400
  <2>1. CASE d = 0
    BY <2>1 DEF SEMIBREVE_LEN, length_tab
  <2>2. CASE d = 1
    BY <2>2 DEF SEMIBREVE_LEN, length_tab
  <2>3. CASE d = 2
    BY <2>3 DEF SEMIBREVE_LEN, length_tab
  <2>4. CASE d = 3
    BY <2>4 DEF SEMIBREVE_LEN, length_tab
  <2>5. CASE d = 4
    BY <2>5 DEF SEMIBREVE_LEN, length_tab
  <2>6. CASE d = 5
    BY <2>6 DEF SEMIBREVE_LEN, length_tab
  <2>7. CASE d = 6
    BY <2>7 DEF SEMIBREVE_LEN, length_tab
  <2>8. d = 0 \/ d = 1 \/ d = 2 \/ d = 3 \/ d = 4 \/ d = 5 \/ d = 6
    BY <1>1
  <2> HIDE DEF plain, want
  <2> QED BY <2>1, <2>2, <2>3, <2>4, <2>5, <2>6, <2>7, <2>8
<1>3. NoteLength(length) = IF p = 1 THEN plain + plain \div 2 ELSE plain
  BY <1>1, Zenon DEF NoteLength
<1>4. Beats(length) = want
  BY <1>1, Zenon DEF Beats
<1> HIDE DEF plain, want
<1> QED BY <1>2, <1>3, <1>4

\* The ticks of a delay cover it with less than one tick to spare.
LEMMA TicksCover ==
    ASSUME NEW ms \in Nat
    PROVE  LET slept == rt_tick_from_millisecond(ms) * (1000 \div RT_TICK_PER_SECOND)
           IN  ms <= slept /\ slept < ms + 1000 \div RT_TICK_PER_SECOND
PROOF
<1>1. PICK q \in Nat, r \in 0 .. 999 : q = ms \div 1000 /\ r = ms % 1000 /\ ms = 1000 * q + r
  OBVIOUS
<1>2. PICK c \in Nat : c = (100 * r + 999) \div 1000 /\ r <= 10 * c /\ 10 * c < r + 10
  OBVIOUS
<1>3. rt_tick_from_millisecond(ms) = 100 * q + c
  BY <1>1, <1>2 DEF rt_tick_from_millisecond, RT_TICK_PER_SECOND
<1>4. 1000 \div RT_TICK_PER_SECOND = 10
  BY DEF RT_TICK_PER_SECOND
<1> QED BY <1>1, <1>2, <1>3, <1>4

\* A note of the song format in time.
LEMMA NoteInTime ==
    ASSUME NEW tone \in Tones, NEW length \in Lengths, NEW table
    PROVE  LET d == beep_song_decode(tone, length, table)
           IN  /\ d.sound_len \in Nat /\ d.nosound_len \in Nat
               /\ d.sound_len + d.nosound_len = Beats(length)
               /\ Note(tone) = 0 => d.sound_len = 0
               /\ Effect(length) = 1 /\ Note(tone) # 0 => d.nosound_len = 0
               /\ Effect(length) = 2 => d.sound_len <= (Beats(length) * 4) \div 5
PROOF
<1>0. NoteLength(length) = Beats(length) /\ Beats(length) \in 0 .. 2400
  BY NoteLengths
<1>01. PICK b : b = Beats(length)
  OBVIOUS
<1>1. b = Beats(length) /\ NoteLength(length) = b /\ b \in 0 .. 2400
  BY <1>0, <1>01
<1>2. PICK n \in 0 .. 7, e \in 0 .. 2 : n = Note(tone) /\ e = Effect(length)
  BY ToneFields, LengthFields
<1>3. PICK x : x = SoundLength(tone, length)
  OBVIOUS
<1>4. x = IF n = 0 THEN 0 ELSE IF e = 1 THEN b ELSE IF e = 0 THEN (b * 4) \div 5 ELSE b \div 2
  BY <1>1, <1>2, <1>3 DEF SoundLength
<1>5. x \in Nat /\ x <= b /\ (e = 2 => x <= (b * 4) \div 5)
  BY <1>1, <1>4
<1>6. PICK y : y = b - x
  OBVIOUS
<1>7. y \in 0 .. 2400 /\ x + y = b
  <2>1. \A c \in 0 .. 2400, z \in Nat : z <= c => c - z \in 0 .. 2400 /\ z + (c - z) = c
    OBVIOUS
  <2>2. x \in Nat
    BY <1>5
  <2>3. b \in 0 .. 2400
    BY <1>1
  <2>4. x <= b
    BY <1>5
  <2>5. b - x \in 0 .. 2400 /\ x + (b - x) = b
    BY <2>2, <2>3, <2>4
  <2> QED BY <1>6, <2>5
<1>8. UInt16(y) = y
  BY <1>7 DEF UInt16
<1>9. PICK f : f = Frequency(tone, table)
  OBVIOUS
<1>10. beep_song_decode(tone, length, table) = [freq |-> f, sound_len |-> x, nosound_len |-> y]
  BY <1>1, <1>3, <1>6, <1>8, <1>9 DEF beep_song_decode
<1>11. n = 0 => x = 0
  BY <1>4
<1>12. e = 1 /\ n # 0 => y = 0
  <2>1. e = 1 /\ n # 0 => x = b
    BY <1>4
  <2> QED BY <1>1, <1>6, <2>1
<1>13. PICK d : d = beep_song_decode(tone, length, table)
  OBVIOUS
<1>14. d.sound_len = x /\ d.nosound_len = y
  BY <1>10, <1>13
<1> QED BY <1>1, <1>2, <1>5, <1>7, <1>11, <1>12, <1>13, <1>14

\* Sound and silence of every note last exactly the note's value, and the ticks slept cover each of
\* them with less than one tick to spare.
THEOREM InTimeHolds == Spec => []InTime
PROOF
<1>1. InTime
  <2> SUFFICES ASSUME NEW tone \in PlayableTones, NEW length \in Lengths
               PROVE  LET d == beep_song_decode(tone, length, freq_tab_new)
                          beats == (SEMIBREVE_LEN * (IF Dotted(length) = 1 THEN 3 ELSE 2))
                                       \div (2 * 2 ^ Division(length))
                      IN  /\ d.sound_len + d.nosound_len = beats
                          /\ Note(tone) = 0 => d.sound_len = 0
                          /\ Effect(length) = 1 /\ Note(tone) # 0 => d.nosound_len = 0
                          /\ Effect(length) = 2 => d.sound_len <= (beats * 4) \div 5
                          /\ \A ms \in {d.sound_len, d.nosound_len} :
                                LET slept == rt_tick_from_millisecond(ms) * (1000 \div RT_TICK_PER_SECOND)
                                IN  ms <= slept /\ slept < ms + 1000 \div RT_TICK_PER_SECOND
    BY DEF InTime
  <2>1. tone \in Tones
    BY DEF PlayableTones
  <2>2. PICK t : t = freq_tab_new
    OBVIOUS
  <2>3. PICK d : d = beep_song_decode(tone, length, t)
    OBVIOUS
  <2>4. /\ d.sound_len \in Nat /\ d.nosound_len \in Nat
        /\ d.sound_len + d.nosound_len = Beats(length)
        /\ Note(tone) = 0 => d.sound_len = 0
        /\ Effect(length) = 1 /\ Note(tone) # 0 => d.nosound_len = 0
        /\ Effect(length) = 2 => d.sound_len <= (Beats(length) * 4) \div 5
    BY <2>1, <2>3, NoteInTime
  <2>5. \A ms \in {d.sound_len, d.nosound_len} :
            LET slept == rt_tick_from_millisecond(ms) * (1000 \div RT_TICK_PER_SECOND)
            IN  ms <= slept /\ slept < ms + 1000 \div RT_TICK_PER_SECOND
    BY <2>4, TicksCover
  <2> QED BY <2>2, <2>3, <2>4, <2>5 DEF Beats
<1> QED BY <1>1, PTL

-----------------------------------------------------------------------------
(***************************************************************************)
(* The frequencies.  A position of freq_tab_new is a note f of freq_tab,   *)
(* raised by an octave if it was moved past B (c = 1), transposed by o     *)
(* octaves, and sounded in the register r.                                 *)
(***************************************************************************)
Entry(f, c, o) ==
    LET raised == IF c = 1 THEN f * 2 ELSE f
    IN  IF o < 0 THEN raised \div 2 ^ (-o) ELSE UInt16(raised * 2 ^ o)
Sounded(g, r) == IF r = 1 THEN g \div 2 ELSE IF r = 3 THEN UInt16(g * 2) ELSE g
Octaves(f, e) == IF e >= 0 THEN f * 2 ^ e ELSE f \div 2 ^ (-e)

\* An audible frequency that is the pitch, or 1 Hz less for a high note of a lowered table.
Near(freq, pitch, octachord, range) ==
    /\ freq \in Int /\ pitch \in Int
    /\ pitch - (IF octachord < 0 /\ range = 3 THEN 1 ELSE 0) <= freq /\ freq <= pitch
    /\ 1 <= freq /\ freq <= 10000

\* The powers of two that occur.
LEMMA Powers == 2 ^ 0 = 1 /\ 2 ^ 1 = 2 /\ 2 ^ 2 = 4 /\ 2 ^ 3 = 8 /\ 2 ^ 4 = 16
PROOF
OBVIOUS

\* Octaves up and down, without powers.
LEMMA OctavesAre ==
    ASSUME NEW f \in 262 .. 494, NEW e \in -3 .. 4
    PROVE  Octaves(f, e) =
               IF e + 3 = 0 THEN f \div 8 ELSE IF e + 2 = 0 THEN f \div 4
               ELSE IF e + 1 = 0 THEN f \div 2
               ELSE IF e = 0 THEN f ELSE IF e = 1 THEN f * 2 ELSE IF e = 2 THEN f * 4
               ELSE IF e = 3 THEN f * 8 ELSE f * 16
PROOF
<1>1. CASE e + 3 = 0
  <2>1. -e = 3 /\ ~(e >= 0)
    BY <1>1
  <2>2. Octaves(f, e) = f \div 2 ^ (-e)
    BY <2>1, Zenon DEF Octaves
  <2>3. Octaves(f, e) = f \div 8
    BY <2>1, <2>2, Powers
  <2> QED BY <1>1, <2>3
<1>2. CASE e + 2 = 0
  <2>1. -e = 2 /\ ~(e >= 0)
    BY <1>2
  <2>2. Octaves(f, e) = f \div 2 ^ (-e)
    BY <2>1, Zenon DEF Octaves
  <2>3. Octaves(f, e) = f \div 4
    BY <2>1, <2>2, Powers
  <2> QED BY <1>2, <2>3
<1>3. CASE e + 1 = 0
  <2>1. -e = 1 /\ ~(e >= 0)
    BY <1>3
  <2>2. Octaves(f, e) = f \div 2 ^ (-e)
    BY <2>1, Zenon DEF Octaves
  <2>3. Octaves(f, e) = f \div 2
    BY <2>1, <2>2, Powers
  <2> QED BY <1>3, <2>3
<1>4. CASE e = 0
  BY <1>4, Powers DEF Octaves
<1>5. CASE e = 1
  BY <1>5, Powers DEF Octaves
<1>6. CASE e = 2
  BY <1>6, Powers DEF Octaves
<1>7. CASE e = 3
  BY <1>7, Powers DEF Octaves
<1>8. CASE e = 4
  BY <1>8, Powers DEF Octaves
<1> QED BY <1>1, <1>2, <1>3, <1>4, <1>5, <1>6, <1>7, <1>8

\* An entry of the table, without powers and overflow.
LEMMA EntryIs ==
    ASSUME NEW f \in 262 .. 494, NEW c \in 0 .. 1, NEW o \in -2 .. 2,
           NEW raised \in Int, raised = IF c = 1 THEN f * 2 ELSE f
    PROVE  Entry(f, c, o) = IF o + 2 = 0 THEN raised \div 4 ELSE IF o + 1 = 0 THEN raised \div 2
                            ELSE IF o = 0 THEN raised ELSE IF o = 1 THEN raised * 2 ELSE raised * 4
PROOF
<1>0. raised \in 262 .. 988
  OBVIOUS
<1>1. CASE o + 2 = 0
  <2>1. -o = 2 /\ o < 0
    BY <1>1
  <2>2. Entry(f, c, o) = raised \div 2 ^ (-o)
    BY <2>1, Zenon DEF Entry
  <2>3. Entry(f, c, o) = raised \div 4
    BY <2>1, <2>2, Powers
  <2> QED BY <1>1, <2>3
<1>2. CASE o + 1 = 0
  <2>1. -o = 1 /\ o < 0
    BY <1>2
  <2>2. Entry(f, c, o) = raised \div 2 ^ (-o)
    BY <2>1, Zenon DEF Entry
  <2>3. Entry(f, c, o) = raised \div 2
    BY <2>1, <2>2, Powers
  <2> QED BY <1>2, <2>3
<1>3. CASE o = 0
  BY <1>0, <1>3, Powers DEF Entry, UInt16
<1>4. CASE o = 1
  BY <1>0, <1>4, Powers DEF Entry, UInt16
<1>5. CASE o = 2
  BY <1>0, <1>5, Powers DEF Entry, UInt16
<1> QED BY <1>1, <1>2, <1>3, <1>4, <1>5

\* A transposed note has the frequency of its pitch, or 1 Hz less where it was lowered first.
LEMMA Transposed ==
    ASSUME NEW f \in 262 .. 494, NEW c \in 0 .. 1, NEW o \in -2 .. 2, NEW r \in 1 .. 3,
           NEW e \in -3 .. 4, e = c + o + (r - 2)
    PROVE  Near(Sounded(Entry(f, c, o), r), Octaves(f, e), o, r)
PROOF
<1>1. PICK h \in Int : h = IF c = 1 THEN f * 2 ELSE f
  OBVIOUS
<1>2. PICK x \in Int : /\ x = IF o + 2 = 0 THEN h \div 4 ELSE IF o + 1 = 0 THEN h \div 2
                              ELSE IF o = 0 THEN h ELSE IF o = 1 THEN h * 2 ELSE h * 4
                       /\ x = Entry(f, c, o) /\ x \in 65 .. 3952
  <2>1. PICK y \in Int : y = IF o + 2 = 0 THEN h \div 4 ELSE IF o + 1 = 0 THEN h \div 2
                             ELSE IF o = 0 THEN h ELSE IF o = 1 THEN h * 2 ELSE h * 4
    OBVIOUS
  <2>2. y = Entry(f, c, o)
    BY <1>1, <2>1, EntryIs
  <2>3. h \in 262 .. 988
    BY <1>1
  <2>4. h \div 4 \in 65 .. 247 /\ h \div 2 \in 131 .. 494
    BY <2>3
  <2>5. y \in 65 .. 3952
    BY <2>1, <2>3, <2>4
  <2> QED BY <2>1, <2>2, <2>5
<1>3. PICK p \in Int : /\ p = IF e + 3 = 0 THEN f \div 8 ELSE IF e + 2 = 0 THEN f \div 4
                              ELSE IF e + 1 = 0 THEN f \div 2
                              ELSE IF e = 0 THEN f ELSE IF e = 1 THEN f * 2 ELSE IF e = 2 THEN f * 4
                              ELSE IF e = 3 THEN f * 8 ELSE f * 16
                       /\ p = Octaves(f, e)
  <2>1. PICK y \in Int : y = IF e + 3 = 0 THEN f \div 8 ELSE IF e + 2 = 0 THEN f \div 4
                             ELSE IF e + 1 = 0 THEN f \div 2
                             ELSE IF e = 0 THEN f ELSE IF e = 1 THEN f * 2 ELSE IF e = 2 THEN f * 4
                             ELSE IF e = 3 THEN f * 8 ELSE f * 16
    OBVIOUS
  <2>2. y = Octaves(f, e)
    BY <2>1, OctavesAre
  <2> QED BY <2>1, <2>2
<1>4. PICK g \in Int : /\ g = IF r = 1 THEN x \div 2 ELSE IF r = 3 THEN x * 2 ELSE x
                       /\ g = Sounded(x, r)
  <2>1. PICK y \in Int : y = IF r = 1 THEN x \div 2 ELSE IF r = 3 THEN x * 2 ELSE x
    OBVIOUS
  <2>2. UInt16(x * 2) = x * 2
    BY <1>2 DEF UInt16
  <2>3. y = Sounded(x, r)
    BY <2>1, <2>2 DEF Sounded
  <2> QED BY <2>1, <2>3
<1>5. p - (IF o < 0 /\ r = 3 THEN 1 ELSE 0) <= g /\ g <= p /\ 1 <= g /\ g <= 10000
  <2>1. CASE o + 2 = 0
    <3>1. x = h \div 4
      BY <1>2, <2>1
    <3>2. CASE r = 1
      BY <1>1, <1>3, <1>4, <2>1, <3>1, <3>2
    <3>3. CASE r = 2
      BY <1>1, <1>3, <1>4, <2>1, <3>1, <3>3
    <3>4. CASE r = 3
      BY <1>1, <1>3, <1>4, <2>1, <3>1, <3>4
    <3> QED BY <3>2, <3>3, <3>4
  <2>2. CASE o + 1 = 0
    <3>1. x = h \div 2
      BY <1>2, <2>2
    <3>2. CASE r = 1
      BY <1>1, <1>3, <1>4, <2>2, <3>1, <3>2
    <3>3. CASE r = 2
      BY <1>1, <1>3, <1>4, <2>2, <3>1, <3>3
    <3>4. CASE r = 3
      BY <1>1, <1>3, <1>4, <2>2, <3>1, <3>4
    <3> QED BY <3>2, <3>3, <3>4
  <2>3. CASE o = 0
    BY <1>1, <1>2, <1>3, <1>4, <2>3
  <2>4. CASE o = 1
    BY <1>1, <1>2, <1>3, <1>4, <2>4
  <2>5. CASE o = 2
    BY <1>1, <1>2, <1>3, <1>4, <2>5
  <2> QED BY <2>1, <2>2, <2>3, <2>4, <2>5
<1>6. g = Sounded(Entry(f, c, o), r) /\ p = Octaves(f, e)
  <2>1. x = Entry(f, c, o)
    BY <1>2
  <2>2. g = Sounded(x, r)
    BY <1>4
  <2>3. p = Octaves(f, e)
    BY <1>3
  <2> QED BY <2>1, <2>2, <2>3, Zenon
<1>7. Near(g, p, o, r)
  BY <1>5 DEF Near
<1> QED BY <1>6, <1>7, Zenon

\* A position of the transposed table: the note c octaves above the x-th of freq_tab.
LEMMA TableIs ==
    ASSUME NEW t \in Tunings, NEW k \in 0 .. 11, NEW x \in 0 .. 11, NEW c \in 0 .. 1,
           x + 12 * c = k + t.signature
    PROVE  Table(t)[k] = Entry(freq_tab[x + 1], c, t.octachord)
PROOF
<1>1. PICK g \in 0 .. 11, o \in -2 .. 2 : g = t.signature /\ o = t.octachord
  BY DEF Tunings
<1>2. PICK j \in Int : j = k + g /\ (j > 11 <=> c = 1) /\ (c = 1 => j - 12 = x) /\ (c # 1 => j = x)
  BY <1>1
<1>3. (IF j > 11 THEN freq_tab[(j - 12) + 1] * 2 ELSE freq_tab[j + 1])
          = IF c = 1 THEN freq_tab[x + 1] * 2 ELSE freq_tab[x + 1]
  <2>1. CASE c = 1
    BY <1>2, <2>1
  <2>2. CASE c # 1
    BY <1>2, <2>2
  <2> QED BY <2>1, <2>2
<1>4. PICK f : f = freq_tab[x + 1]
  OBVIOUS
<1>5. Table(t)[k] =
        LET raised == IF j > 11 THEN freq_tab[(j - 12) + 1] * 2 ELSE freq_tab[j + 1]
        IN  IF o < 0 THEN raised \div 2 ^ (-o) ELSE UInt16(raised * 2 ^ o)
  BY <1>1, <1>2, Zenon DEF Table, beep_song_decode_new_freq
<1>6. PICK h : h = IF j > 11 THEN freq_tab[(j - 12) + 1] * 2 ELSE freq_tab[j + 1]
  OBVIOUS
<1>7. Table(t)[k] = IF o < 0 THEN h \div 2 ^ (-o) ELSE UInt16(h * 2 ^ o)
  BY <1>5, <1>6, Zenon
<1>8. h = IF c = 1 THEN f * 2 ELSE f
  BY <1>3, <1>4, <1>6, Zenon
<1>9. Table(t)[k] = Entry(f, c, o)
  BY <1>7, <1>8, Zenon DEF Entry
<1> QED BY <1>1, <1>4, <1>9

\* The notes of the octave.
LEMMA NoteOfTable ==
    ASSUME NEW x \in 0 .. 11
    PROVE  freq_tab[x + 1] \in 262 .. 494
PROOF
<1>1. \A i \in 1 .. 12 : freq_tab[i] \in 262 .. 494
  BY DEF freq_tab
<1> QED BY <1>1

\* The frequency of a playable tone, and of its pitch.
LEMMA ToneInTune ==
    ASSUME NEW t \in Tunings, NEW tone \in Tones, Note(tone) # 0, DecodableTone(tone)
    PROVE  Near(Frequency(tone, Table(t)), Pitch(Semitones(tone, t)), t.octachord, Range(tone))
PROOF
<1>1. PICK s \in 0 .. 11, o \in -2 .. 2 : s = t.signature /\ o = t.octachord
  BY DEF Tunings
<1>2. PICK r \in 1 .. 3 : r = Range(tone)
  BY ToneFields
<1>3. PICK k \in 0 .. 11 : k = TableIndex(tone)
  BY DEF DecodableTone
<1>4. PICK x \in 0 .. 11, c \in 0 .. 1 : x + 12 * c = k + s
  <2>1. CASE k + s > 11
    <3>1. k + s - 12 \in 0 .. 11 /\ (k + s - 12) + 12 * 1 = k + s
      BY <2>1
    <3> QED BY <3>1
  <2>2. CASE k + s <= 11
    <3>1. k + s \in 0 .. 11 /\ (k + s) + 12 * 0 = k + s
      BY <2>2
    <3> QED BY <3>1
  <2> QED BY <2>1, <2>2
<1>5. PICK e \in -3 .. 4 : e = c + o + (r - 2)
  OBVIOUS
<1>6. PICK f \in 262 .. 494 : f = freq_tab[x + 1]
  BY NoteOfTable
<1>7. Frequency(tone, Table(t)) = Sounded(Entry(f, c, o), r)
  <2>1. Table(t)[k] = Entry(f, c, o)
    BY <1>1, <1>4, <1>6, TableIs
  <2>2. PICK y : y = Table(t)[k]
    OBVIOUS
  <2>3. Frequency(tone, Table(t)) = Sounded(y, r)
    BY <1>2, <1>3, <2>2 DEF Frequency, Sounded
  <2> QED BY <2>1, <2>2, <2>3
<1>8. Pitch(Semitones(tone, t)) = Octaves(f, e)
  <2>1. Semitones(tone, t) = k + s + 12 * (o + (r - 2))
    BY <1>1, <1>2, <1>3 DEF Semitones, TableIndex
  <2>2. PICK m \in Int : m = Semitones(tone, t) /\ m = 12 * e + x
    <3>1. k + s + 12 * (o + (r - 2)) = 12 * e + x
      BY <1>4, <1>5
    <3> QED BY <2>1, <3>1
  <2>3. m % 12 = x /\ m \div 12 = e /\ (m >= 0 <=> e >= 0)
    BY <2>2
  <2>4. freq_tab[(m % 12) + 1] = f
    BY <1>6, <2>3
  <2>5. Pitch(m) = Octaves(f, e)
    BY <2>3, <2>4, Zenon DEF Pitch, Octaves
  <2> QED BY <2>2, <2>5
<1>9. Near(Sounded(Entry(f, c, o), r), Octaves(f, e), o, r)
  BY <1>5, Transposed
<1> QED BY <1>1, <1>2, <1>7, <1>8, <1>9, Zenon

\* The period of an audible frequency in ns is at least 100000.
LEMMA LongPeriod ==
    ASSUME NEW freq \in Int, 1 <= freq, freq <= 10000, NEW n \in Int, n = 1000000000
    PROVE  \E q \in Int : q = n \div freq /\ q >= 100000
PROOF
<1>1. PICK q \in Int : q = n \div freq
  OBVIOUS
<1>2. PICK v \in Int : v = freq * q
  OBVIOUS
<1>3. n < v + freq
  BY <1>1, <1>2
<1>4. ASSUME q <= 99999 PROVE FALSE
  <2>1. v <= freq * 99999
    BY <1>2, <1>4
  <2> QED BY <1>3, <2>1, SMT
<1> QED BY <1>1, <1>4

\* The PWM signal of an audible frequency is low for 3% of its period, up to rounding.
LEMMA DutyCycle ==
    ASSUME NEW freq \in Int, 1 <= freq, freq <= 10000
    PROVE  LET p == beep_set(freq, 3)
               low == p.period - p.pulse
           IN  /\ p.pulse \in 1 .. p.period
               /\ low > 0 /\ low \in ((3 * p.period) \div 100 - 2) .. ((3 * p.period) \div 100)
PROOF
<1>1. PICK n \in Int : n = 1000000000
  BY SMT
<1>2. PICK q \in Int : q = n \div freq /\ q >= 100000
  BY <1>1, LongPeriod
<1>3. PICK u \in Int : u = q - (q \div 100) * 3
  OBVIOUS
<1>4. beep_set(freq, 3) = [period |-> q, pulse |-> u]
  BY <1>1, <1>2, <1>3, SMT DEF beep_set
<1>5. /\ u \in 1 .. q /\ q - u > 0
      /\ q - u \in ((3 * q) \div 100 - 2) .. ((3 * q) \div 100)
  BY <1>2, <1>3
<1> QED BY <1>4, <1>5

\* Every playable tone has the frequency of its pitch in every tuning (a high note of a lowered
\* table may be 1 Hz flat), and its PWM signal the duty cycle of the volume.
THEOREM InTuneHolds == Spec => []InTune
PROOF
<1>1. InTune
  <2>1. ASSUME NEW t \in Tunings, NEW tone \in PlayableTones, Note(tone) = 0
        PROVE  Frequency(tone, Table(t)) = 0
    BY <2>1 DEF Frequency
  <2>2. ASSUME NEW t \in Tunings, NEW tone \in PlayableTones, Note(tone) # 0
        PROVE  LET freq == Frequency(tone, Table(t))
                   pitch == Pitch(Semitones(tone, t))
                   flat == IF t.octachord < 0 /\ Range(tone) = 3 THEN 1 ELSE 0
                   p == beep_set(freq, 3)
                   low == p.period - p.pulse
               IN  /\ freq \in (pitch - flat) .. pitch
                   /\ p.pulse \in 1 .. p.period
                   /\ low > 0 /\ low \in ((3 * p.period) \div 100 - 2) .. ((3 * p.period) \div 100)
    <3>1. tone \in Tones /\ DecodableTone(tone)
      BY <2>2 DEF PlayableTones
    <3>2. PICK g \in Int, q \in Int :
              /\ g = Frequency(tone, Table(t)) /\ q = Pitch(Semitones(tone, t))
              /\ q - (IF t.octachord < 0 /\ Range(tone) = 3 THEN 1 ELSE 0) <= g
              /\ g <= q /\ 1 <= g /\ g <= 10000
      BY <2>2, <3>1, ToneInTune DEF Near
    <3>3. PICK fl \in Int : fl = IF t.octachord < 0 /\ Range(tone) = 3 THEN 1 ELSE 0
      OBVIOUS
    <3>4. q - fl <= g /\ g <= q
      BY <3>2, <3>3
    <3>5. g \in (q - fl) .. q
      BY <3>4
    <3>6. 1 <= g /\ g <= 10000
      BY <3>2
    <3>7. LET p == beep_set(g, 3)
              low == p.period - p.pulse
          IN  /\ p.pulse \in 1 .. p.period
              /\ low > 0 /\ low \in ((3 * p.period) \div 100 - 2) .. ((3 * p.period) \div 100)
      BY <3>6, DutyCycle
    <3> QED BY <3>2, <3>3, <3>5, <3>7
  <2> QED BY <2>1, <2>2, Zenon DEF InTune
<1> QED BY <1>1, PTL
=============================================================================
