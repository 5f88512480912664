------------------------------- MODULE Rechunk -------------------------------
(***************************************************************************)
(* The text of the LLM on its way to the TTS: VLLMStream.chat_completion() *)
(* passes on what the chunks of the stream contain, cut anywhere, and      *)
(* rechunk_to_words() makes whole words of it, of which each but the first *)
(* brings its space along.                                                 *)
(***************************************************************************)
EXTENDS Naturals, Sequences, SequencesExt

CONSTANTS
    Letters,       \* the characters that are no space
    MaxChunk,      \* bound on the characters of a chunk
    MaxText        \* bound on those of the stream

Space == " "

RechunkAssumption ==
    MaxChunk \in Nat /\ MaxText \in Nat /\ Space \notin Letters

VARIABLES
    stream,        \* "open", "ended", or "broken": it raised
    text,          \* what has come of it
    buffer,        \* the end of it that is not yet a whole word
    prefix,        \* the space that belongs before the next word, or nothing
    words          \* what the consumer was given

vars == <<stream, text, buffer, prefix, words>>

Init ==
    /\ stream = "open" /\ text = <<>> /\ buffer = <<>> /\ prefix = <<>>
    /\ words = <<>>

Spaces == {i \in DOMAIN buffer : buffer[i] = Space}

\* What a chunk contains: nothing, in one without choices or content.
Chunks == SeqOf(Letters \cup {Space}, MaxChunk)

Arrives ==
    /\ stream = "open" /\ Spaces = {}
    /\ \E content \in Chunks \ {<<>>} :
        /\ Len(text \o content) <= MaxText
        /\ text' = text \o content /\ buffer' = buffer \o content
    /\ UNCHANGED <<stream, prefix, words>>

Given(chunk) == IF chunk = <<>> THEN words ELSE Append(words, prefix \o chunk)

\* The match of \s+ is the first space with all that follow it at once.
Split ==
    /\ \E start \in Spaces, end \in Spaces :
        /\ start = Min(Spaces) /\ start..end \subseteq Spaces /\ end + 1 \notin Spaces
        /\ words' = Given(SubSeq(buffer, 1, start - 1))
        /\ buffer' = SubSeq(buffer, end + 1, Len(buffer))
    /\ prefix' = <<Space>>
    /\ UNCHANGED <<stream, text>>

\* Mutant of Rest: the last word is yielded without its prefix.
RestBare == IF buffer = <<>> THEN words ELSE Append(words, buffer)

Rest == Given(buffer)

Ends ==
    /\ stream = "open" /\ Spaces = {}
    /\ stream' = "ended" /\ words' = Rest /\ buffer' = <<>>
    /\ UNCHANGED <<text, prefix>>

Breaks ==
    /\ stream = "open" /\ Spaces = {} /\ stream' = "broken"
    /\ UNCHANGED <<text, buffer, prefix, words>>

Next == Arrives \/ Split \/ Ends \/ Breaks

Spec == Init /\ [][Next]_vars

-----------------------------------------------------------------------------
(* Properties *)

\* The text with its runs of spaces merged, and without those at its end.
Merged(t) ==
    FlattenSeq([i \in DOMAIN t |->
        IF t[i] = Space THEN <<>>
        ELSE IF i > 1 /\ t[i - 1] = Space THEN <<Space, t[i]>> ELSE <<t[i]>>])

IsWord(w) == w # <<>> /\ \A i \in DOMAIN w : w[i] # Space

\* However the stream is cut, what the TTS is given are the words of the text,
\* whole, each but the first behind one space, and at the end of the stream all.
WholeWords ==
    /\ \A k \in DOMAIN words :
        IF Head(words[k]) = Space THEN IsWord(Tail(words[k]))
        ELSE k = 1 /\ IsWord(words[k])
    /\ IsPrefix(FlattenSeq(words), Merged(text))
    /\ stream = "ended" => FlattenSeq(words) = Merged(text)
=============================================================================
