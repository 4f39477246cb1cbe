------------------------------ MODULE BeepTone ------------------------------
(***************************************************************************)
(* The arithmetic of applications/beep.c: songs, the frequency table, the  *)
(* decoding of a note, the PWM setting and the conversion of delays.       *)
(***************************************************************************)
EXTENDS Integers, Sequences

SEMIBREVE_LEN == 1600      \* ms
SOUND_SIGNATURE == 0
SOUND_OCTACHORD == 1
RT_TICK_PER_SECOND == 100

\* rt_uint16_t.
UInt16(x) == x % 65536

freq_tab == <<262, 277, 294, 311, 330, 349, 369, 392, 415, 440, 466, 494>>
sign_tab == <<0, 2, 4, 5, 7, 9, 11>>
length_tab == <<1, 2, 4, 8, 16, 32, 64>>

\* data[] of the two songs as <<tone, length>> pairs, the end mark 0x00 0x00 included.
song_alarm1 ==
    << <<21, 2>>, <<22, 2>>, <<23, 2>>, <<21, 2>>, <<21, 2>>, <<22, 2>>, <<23, 2>>, <<21, 2>>,
       <<23, 2>>, <<24, 2>>, <<25, 1>>, <<23, 2>>, <<24, 2>>, <<25, 1>>, <<25, 3>>, <<26, 3>>,
       <<25, 3>>, <<24, 3>>, <<23, 2>>, <<21, 22>>, <<25, 3>>, <<26, 3>>, <<25, 3>>, <<24, 3>>,
       <<23, 2>>, <<21, 22>>, <<21, 2>>, <<15, 2>>, <<21, 1>>, <<21, 2>>, <<15, 2>>, <<21, 1>>,
       <<0, 0>> >>
song_alarm2 ==
    << <<21, 2>>, <<21, 2>>, <<25, 2>>, <<25, 2>>, <<26, 2>>, <<26, 2>>, <<25, 1>>, <<24, 2>>,
       <<24, 2>>, <<23, 2>>, <<23, 2>>, <<22, 2>>, <<22, 2>>, <<21, 1>>, <<25, 2>>, <<25, 2>>,
       <<24, 2>>, <<24, 2>>, <<23, 2>>, <<23, 2>>, <<22, 1>>, <<25, 2>>, <<25, 2>>, <<24, 2>>,
       <<24, 2>>, <<23, 2>>, <<23, 2>>, <<22, 1>>, <<21, 2>>, <<21, 2>>, <<25, 2>>, <<25, 2>>,
       <<26, 2>>, <<26, 2>>, <<25, 1>>, <<24, 2>>, <<24, 2>>, <<23, 2>>, <<23, 2>>, <<22, 2>>,
       <<22, 2>>, <<21, 1>>, <<0, 0>> >>

\* The number of pairs before the end mark.
beep_song_get_len(song) ==
    CHOOSE n \in 0 .. Len(song) - 1 :
        song[n + 1][1] = 0 /\ \A k \in 1 .. n : song[k][1] # 0

\* The fields a tone and a length are packed from.
Note(tone) == tone % 10
Range(tone) == (tone \div 10) % 10      \* 1 low, 2 middle, 3 high
Sharp(tone) == tone \div 100
Division(length) == length % 10
Effect(length) == (length \div 10) % 10  \* 0 normal, 1 legato, 2 staccato
Dotted(length) == length \div 100

\* Mutant: a note moved past B is not raised into the next octave.
beep_song_decode_new_freq_NoCarry(signature, octachord) ==
    [i \in 0 .. 11 |->
        LET raised == freq_tab[((i + signature) % 12) + 1]
        IN  IF octachord < 0 THEN raised \div 2 ^ (-octachord)
            ELSE UInt16(raised * 2 ^ octachord)]

\* freq_tab_new, indexed from 0, transposed by signature semitones and octachord octaves.
beep_song_decode_new_freq(signature, octachord) ==
    [i \in 0 .. 11 |->
        LET j == i + signature
            raised == IF j > 11 THEN freq_tab[(j - 12) + 1] * 2 ELSE freq_tab[j + 1]
        IN  IF octachord < 0 THEN raised \div 2 ^ (-octachord)
            ELSE UInt16(raised * 2 ^ octachord)]

\* Where beep_song_decode reads freq_tab_new, which has 12 entries.
TableIndex(tone) == sign_tab[Note(tone)] + Sharp(tone)

\* The tones (other than rests) and lengths whose table reads stay inside the tables.
DecodableTone(tone) == Note(tone) \in 1 .. 7 /\ TableIndex(tone) \in 0 .. 11
DecodableLength(length) == Division(length) \in 0 .. 6

\* note_len, dots included, in ms.
NoteLength(length) ==
    LET plain == SEMIBREVE_LEN \div length_tab[Division(length) + 1]
    IN  IF Dotted(length) = 1 THEN plain + plain \div 2 ELSE plain

\* note_sound_len: nothing of a rest, all of a legato note, 4/5 of a normal one, half of
\* a staccato one.
SoundLength(tone, length) ==
    CASE Note(tone) = 0 -> 0
      [] Note(tone) # 0 /\ Effect(length) = 1 -> NoteLength(length)
      [] Note(tone) # 0 /\ Effect(length) = 0 -> (NoteLength(length) * 4) \div 5
      [] OTHER -> NoteLength(length) \div 2

\* *freq; what the table holds for a rest is discarded.
Frequency(tone, table) ==
    CASE Note(tone) = 0 -> 0
      [] Note(tone) # 0 /\ Range(tone) = 1 -> table[TableIndex(tone)] \div 2
      [] Note(tone) # 0 /\ Range(tone) = 3 -> UInt16(table[TableIndex(tone)] * 2)
      [] OTHER -> table[TableIndex(tone)]

\* Mutant: the silence is taken from the undotted length.
beep_song_decode_Undotted(tone, length, table) ==
    LET sound == SoundLength(tone, length)
    IN  [freq |-> Frequency(tone, table),
         sound_len |-> sound,
         nosound_len |-> UInt16((SEMIBREVE_LEN \div length_tab[Division(length) + 1]) - sound)]

beep_song_decode(tone, length, table) ==
    LET sound == SoundLength(tone, length)
    IN  [freq |-> Frequency(tone, table),
         sound_len |-> sound,
         nosound_len |-> UInt16(NoteLength(length) - sound)]

\* The index-th pair, counted from 0.
beep_song_get_data(song, index, table) ==
    beep_song_decode(song[index + 1][1], song[index + 1][2], table)

\* Period and pulse in ns; the buzzer sounds while the signal is low.
beep_set(freq, volume) ==
    LET period == 1000000000 \div freq
    IN  [period |-> period, pulse |-> period - (period \div 100) * volume]

\* Delays in ticks.
rt_tick_from_millisecond(ms) ==
    RT_TICK_PER_SECOND * (ms \div 1000) + (RT_TICK_PER_SECOND * (ms % 1000) + 999) \div 1000
=============================================================================
