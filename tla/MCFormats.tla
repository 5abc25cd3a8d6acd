------------------------------- MODULE MCFormats -------------------------------
(***************************************************************************)
(* The formats and the arithmetic, each in a half of its own: the answers   *)
(* and the generated serializers, the layers of a secret chat, the checks   *)
(* of Diffie-Hellman and the factorization.                                 *)
(***************************************************************************)
EXTENDS Answers, SecretLayers, Numbers

VARIABLE half       \* the half that runs

-----------------------------------------------------------------------------
(* Answers: a type of one constructor and of two, fields behind flags, items *)
(* bare and boxed, a vector in a vector of arguments                        *)

\* A bare Item is an item if it can be: its flags may ask for what is not there.
Item == <<Combinator(23, "item",
              <<Number("flags"), Optional("id", "flags", 0, Bare("Int")),
                Optional("name", "flags", 1, Boxed("Name"))>>, "Item"),
          Combinator(22, "itemEmpty", <<Arg("id", Bare("Int"))>>, "Item")>>

Name == <<Combinator(24, "name", <<Arg("text", Boxed("Bytes"))>>, "Name")>>

Page == <<Combinator(25, "page",
              <<Arg("items", VectorOf(Bare("Item"))), Arg("next", Bare("Long"))>>, "Page")>>

TestSchema == "Item" :> Item @@ "Name" :> Name @@ "Page" :> Page @@ EncryptedSchema

\* Queries for an item, a page, items and bare names; and answers that have
\* begun: an item with both fields, a page of no item, of one, of one with both
\* fields and of two, and two items of which the first is empty or complete.
TestAwaited ==
    [type : {Boxed("Item"), Boxed("Page"), VectorOf(Boxed("Item")), VectorOf(Bare("Name"))},
     answer : {<<>>}]
    \union [type : {Boxed("Item")}, answer : {<<23, 3>>}]
    \union [type : {Boxed("Page")},
            answer : {<<25, 21, 0>>, <<25, 21, 1>>, <<25, 21, 1, 3, 1, 24, 14>>, <<25, 21, 2>>,
                      <<25, 21, 2, 3, 1, 24, 14, 1793>>}]
    \union [type : {VectorOf(Boxed("Item"))},
            answer : {<<21, 2, 22, 1>>, <<21, 2, 23, 3, 1, 24, 14, 1793>>}]
    \union [type : {VectorOf(Bare("Name"))}, answer : {<<21, 2>>}]

\* Codes, small numbers, and the strings of no byte and of one.
TestWords == {0, 1, 2, 3, 14, 21, 22, 23, 24, 25, 1793}

-----------------------------------------------------------------------------
(* Layers: what the client can send                                        *)

Long == <<41, 42>>
KeyBytes == <<1, 2, 3, 4>>

File(photo, type) ==
    [kind |-> "file", photo |-> photo, type |-> type, thumb |-> <<9>>, thumbW |-> 8, thumbH |-> 7,
     w |-> 6, h |-> 5, duration |-> 4, mime |-> <<77>>, name |-> <<78, 79>>, size |-> 300,
     key |-> KeyBytes, iv |-> <<5, 6>>]

FileContents == {File(photo, type) : photo \in BOOLEAN, type \in {"image", "video", "audio", "unknown"}}

Service(type, data) == [kind |-> "action", type |-> type, data |-> data]

Services ==
    {Service("setMessageTTL", <<<<5>>>>), Service("deleteMessages", <<>>),
     Service("deleteMessages", <<Long, Long>>), Service("resend", <<<<1>>, <<2>>>>),
     Service("notifyLayer", <<<<46>>>>), Service("requestKey", <<Long, KeyBytes>>),
     Service("acceptKey", <<Long, KeyBytes, Long>>), Service("abortKey", <<Long>>),
     Service("commitKey", <<Long, Long>>), Service("noop", <<>>),
     Service("opaqueMessage", <<<<7>>>>)}

Text(text, geo) == [kind |-> "message", text |-> text, geo |-> geo]

Texts == {Text(<<>>, <<>>), Text(<<65>>, <<>>), Text(<<>>, <<1, 2, 3, 4>>)}

AllContents == FileContents \union Services \union Texts

AllLayers == {8, 17, 20, 46}

ToldLayers == {8, 17, 20, 73}

\* A document before layer 46, and a photo of a video from there on, fail an
\* assert: Layer8Document.cfg and PhotoOfVideo.cfg send those too.
IsDocument(c) == c.kind = "file" /\ ~c.photo /\ c.type \notin {"video", "audio"}

IsPhotoOfVideo(c) == c.kind = "file" /\ c.photo /\ c.type = "video"

Sendable ==
    {o \in AllLayers \X AllContents :
        IF o[1] < 46 THEN ~IsDocument(o[2]) ELSE ~IsPhotoOfVideo(o[2])}

Documents == {o \in AllLayers \X AllContents : IsDocument(o[2])}

Videos == {o \in AllLayers \X AllContents : IsPhotoOfVideo(o[2])}

-----------------------------------------------------------------------------

formats == <<half, query, chat, dh, factor>>

Halves == {"answers", "layers", "dh", "factor"}

\* A half that is not chosen has no state.
InitHalves ==
    /\ IF half = "answers" THEN InitAnswers ELSE query = <<>>
    /\ IF half = "layers" THEN InitLayers ELSE chat = <<>>
    /\ IF half = "dh" THEN InitDH ELSE dh = <<>>
    /\ IF half = "factor" THEN InitFactor ELSE factor = <<>>

InitFormats == half \in Halves /\ InitHalves

NextFormats ==
    /\ UNCHANGED half
    /\ \/ half = "answers" /\ NextAnswers /\ UNCHANGED <<chat, dh, factor>>
       \/ half = "layers" /\ NextLayers /\ UNCHANGED <<query, dh, factor>>
       \/ half = "dh" /\ NextDH /\ UNCHANGED <<query, chat, factor>>
       \/ half = "factor" /\ NextFactor /\ UNCHANGED <<query, chat, dh>>

SpecFormats == InitFormats /\ [][NextFormats]_formats

-----------------------------------------------------------------------------
(* Properties, each of its half                                            *)

\* The generated functions agree on every answer (Answers!RoundTrip).
AnswersAgree == half = "answers" => RoundTrip

\* What is sent in a secret chat can be read (SecretLayers!Readable).
SecretsReadable == half = "layers" => Readable

\* No document fails the assert of document.cpp (SecretLayers!DocumentsKnown).
DocumentsMade == half = "layers" => DocumentsKnown

\* What is accepted keeps the key in its group (Numbers!Subgroup).
KeysInSubgroup == half = "dh" => Subgroup

\* What is factorized is the product of its factors (Numbers!Factorized).
FactorsFound == half = "factor" => Factorized
=============================================================================
