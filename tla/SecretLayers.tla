----------------------------- MODULE SecretLayers -----------------------------
(***************************************************************************)
(* The messages of a secret chat in the layers 8 to 46 of the protocol: what *)
(* query_messages_send_encrypted_{message,action,file} assemble for the      *)
(* layer of the chat, what secret_chat::fetch_message() makes of it at the   *)
(* other end, and what is made of the blobs in the storage when a message is *)
(* sent again.  Strings are one or two bytes, also where the code has keys   *)
(* of 32 or 256; the frame around what is encrypted is left out.             *)
(***************************************************************************)
EXTENDS SerializerText

CONSTANTS
    Layers,         \* the layers the other end tells
    Contents,       \* what is sent
    Offers,         \* the pairs of a layer and a content that are tried
    MaxSent         \* a bound: the messages sent

EncryptedLayer == 46

-----------------------------------------------------------------------------
(* auto/encrypted_scheme.tl, without what this client neither sends nor     *)
(* fetches: external documents, typing, and the entities and the bot of a   *)
(* message.                                                                 *)

Code(id) ==
    CASE id = "layer8" -> 101 [] id = "serviceLayer8" -> 102 [] id = "layer17" -> 103
      [] id = "service" -> 104 [] id = "message" -> 105 [] id = "layer" -> 106
      [] id = "mediaEmpty" -> 111 [] id = "photoLayer8" -> 112 [] id = "videoLayer8" -> 113
      [] id = "audioLayer8" -> 114 [] id = "geoPoint" -> 115 [] id = "contact" -> 116
      [] id = "documentLayer8" -> 117 [] id = "videoLayer17" -> 118 [] id = "photo" -> 119
      [] id = "audio" -> 120 [] id = "document" -> 121 [] id = "video" -> 122
      [] id = "setMessageTTL" -> 131 [] id = "deleteMessages" -> 132 [] id = "resend" -> 133
      [] id = "notifyLayer" -> 134 [] id = "requestKey" -> 135 [] id = "acceptKey" -> 136
      [] id = "abortKey" -> 137 [] id = "commitKey" -> 138 [] id = "noop" -> 139
      [] id = "opaqueMessage" -> 140 [] id = "readMessages" -> 141
      [] id = "screenshotMessages" -> 142 [] id = "flushHistory" -> 143
      [] id = "filename" -> 151 [] id = "vector" -> 21

int    == Bare("Int")
long   == Bare("Long")
string == Bare("String")

\* Arguments of one type.
All(type, ids) == [i \in DOMAIN ids |-> Arg(ids[i], type)]

Thumb == <<Arg("thumb_bytes", string), Arg("thumb_w", int), Arg("thumb_h", int)>>
Sealed == <<Arg("size", int), Arg("key", string), Arg("iv", string)>>
Mime == <<Arg("mime_type", string)>>
Caption == <<Arg("caption", string)>>

\* The constructors of a type, each from its name and its arguments.
Of(type, list) == [i \in DOMAIN list |-> Combinator(Code(list[i][1]), list[i][1], list[i][2], type)]

DecryptedMessage == Of("DecryptedMessage", <<
    <<"layer8", <<Arg("random_id", long), Arg("random_bytes", string), Arg("message", string),
                  Arg("media", Boxed("DecryptedMessageMedia"))>>>>,
    <<"serviceLayer8", <<Arg("random_id", long), Arg("random_bytes", string),
                         Arg("action", Boxed("DecryptedMessageAction"))>>>>,
    <<"layer17", <<Arg("random_id", long), Arg("ttl", int), Arg("message", string),
                   Arg("media", Boxed("DecryptedMessageMedia"))>>>>,
    <<"service", <<Arg("random_id", long), Arg("action", Boxed("DecryptedMessageAction"))>>>>,
    <<"message", <<Number("flags"), Arg("random_id", long), Arg("ttl", int),
                   Arg("message", string),
                   Optional("media", "flags", 9, Boxed("DecryptedMessageMedia")),
                   Optional("reply_to_random_id", "flags", 3, long)>>>> >>)

Media == Of("DecryptedMessageMedia", <<
    <<"mediaEmpty", <<>>>>,
    <<"photoLayer8", Thumb \o All(int, <<"w", "h">>) \o Sealed>>,
    <<"videoLayer8", Thumb \o All(int, <<"duration", "w", "h">>) \o Sealed>>,
    <<"audioLayer8", <<Arg("duration", int)>> \o Sealed>>,
    <<"geoPoint", All(long, <<"latitude", "longitude">>)>>,
    <<"contact", All(string, <<"phone_number", "first_name", "last_name">>) \o All(int, <<"user_id">>)>>,
    <<"documentLayer8", Thumb \o <<Arg("file_name", string)>> \o Mime \o Sealed>>,
    <<"videoLayer17", Thumb \o <<Arg("duration", int)>> \o Mime \o All(int, <<"w", "h">>) \o Sealed>>,
    <<"photo", Thumb \o All(int, <<"w", "h">>) \o Sealed \o Caption>>,
    <<"audio", <<Arg("duration", int)>> \o Mime \o Sealed>>,
    <<"document", Thumb \o Mime \o Sealed
                  \o <<Arg("attributes", VectorOf(Boxed("DocumentAttribute")))>> \o Caption>>,
    <<"video", Thumb \o <<Arg("duration", int)>> \o Mime \o All(int, <<"w", "h">>) \o Sealed \o Caption>> >>)

RandomIds == <<Arg("random_ids", VectorOf(long))>>

Action == Of("DecryptedMessageAction", <<
    <<"setMessageTTL", All(int, <<"ttl_seconds">>)>>,
    <<"readMessages", RandomIds>>,
    <<"deleteMessages", RandomIds>>,
    <<"screenshotMessages", RandomIds>>,
    <<"flushHistory", <<>>>>,
    <<"resend", All(int, <<"start_seq_no", "end_seq_no">>)>>,
    <<"notifyLayer", All(int, <<"layer">>)>>,
    <<"requestKey", <<Arg("exchange_id", long), Arg("g_a", string)>>>>,
    <<"acceptKey", <<Arg("exchange_id", long), Arg("g_b", string), Arg("key_fingerprint", long)>>>>,
    <<"abortKey", All(long, <<"exchange_id">>)>>,
    <<"commitKey", All(long, <<"exchange_id", "key_fingerprint">>)>>,
    <<"noop", <<>>>>,
    <<"opaqueMessage", All(string, <<"message">>)>> >>)

EncryptedSchema ==
    BuiltinSchema(Code("vector")) @@
    "DecryptedMessage" :> DecryptedMessage @@
    "DecryptedMessageMedia" :> Media @@
    "DecryptedMessageAction" :> Action @@
    "DocumentAttribute" :> Of("DocumentAttribute", << <<"filename", All(string, <<"file_name">>)>> >>) @@
    "DecryptedMessageLayer" :> Of("DecryptedMessageLayer", <<
        <<"layer", <<Arg("random_bytes", string)>> \o All(int, <<"layer", "in_seq_no", "out_seq_no">>)
                   \o <<Arg("message", Boxed("DecryptedMessage"))>>>> >>)

-----------------------------------------------------------------------------
(* Assembling                                                              *)

RandomBytes == StoreString(<<50, 51, 52>>)
Ttl == 60
RawIn == 2
RawOut == 3

\* What stands before the message from layer 17 on: the part that is stored
\* begins with it.
LayerHeader(layer) ==
    IF layer >= 17 THEN <<Code("layer")>> \o RandomBytes \o <<layer, RawIn, RawOut>> ELSE <<>>

\* The head of a text or a file.
MessageHeader(layer, id) ==
    IF layer >= 46 THEN <<Code("message"), 2^9>> \o id \o <<Ttl>>
    ELSE IF layer >= 17 THEN <<Code("layer17")>> \o id \o <<Ttl>>
    ELSE <<Code("layer8")>> \o id \o RandomBytes

\* query_messages_send_encrypted_message::assemble()
AssembleMessage(layer, id, m) ==
    LayerHeader(layer) \o MessageHeader(layer, id) \o StoreString(m.text)
    \o (IF m.geo = <<>> THEN <<Code("mediaEmpty")>> ELSE <<Code("geoPoint")>> \o m.geo)

\* The fields of an action, one after the other: numbers are as many words as
\* they have, ids are a vector of longs, the rest are strings.
ActionWords(a) ==
    CASE a.type \in {"requestKey", "acceptKey"} ->
             a.data[1] \o StoreString(a.data[2]) \o (IF Len(a.data) = 3 THEN a.data[3] ELSE <<>>)
      [] a.type = "opaqueMessage" -> StoreString(a.data[1])
      [] a.type = "deleteMessages" -> <<Code("vector"), Len(a.data)>> \o
             [k \in 1..2 * Len(a.data) |-> a.data[(k + 1) \div 2][2 - (k % 2)]]
      [] a.type = "commitKey" -> a.data[1] \o a.data[2]
      [] a.type = "abortKey" -> a.data[1]
      [] a.type = "noop" -> <<>>
      [] a.type = "resend" -> a.data[1] \o a.data[2]
      [] a.type \in {"notifyLayer", "setMessageTTL"} -> a.data[1]

\* query_messages_send_encrypted_action::assemble()
AssembleAction(layer, id, a) ==
    LayerHeader(layer)
    \o (IF layer >= 17 THEN <<Code("service")>> \o id
        ELSE <<Code("serviceLayer8")>> \o id \o RandomBytes)
    \o <<Code(a.type)>> \o ActionWords(a)

\* Mutant of FileCode: the audio constructor of layer 8 is used up to layer 46.
OldAudio(layer, f) ==
    CASE f.photo -> IF layer >= 17 THEN "photo" ELSE "photoLayer8"
      [] ~f.photo /\ f.type = "video" ->
             IF layer >= 46 THEN "video"
             ELSE IF layer >= 17 THEN "videoLayer17" ELSE "videoLayer8"
      [] ~f.photo /\ f.type = "audio" -> IF layer >= 46 THEN "audio" ELSE "audioLayer8"
      [] OTHER -> IF layer >= 46 THEN "document" ELSE "documentLayer8"

\* The constructor for a file.
FileCode(layer, f) ==
    CASE f.photo -> IF layer >= 17 THEN "photo" ELSE "photoLayer8"
      [] ~f.photo /\ f.type = "video" ->
             IF layer >= 46 THEN "video"
             ELSE IF layer >= 17 THEN "videoLayer17" ELSE "videoLayer8"
      [] ~f.photo /\ f.type = "audio" -> IF layer >= 17 THEN "audio" ELSE "audioLayer8"
      [] OTHER -> IF layer >= 46 THEN "document" ELSE "documentLayer8"

\* The media of query_messages_send_encrypted_file::assemble().  A video sent
\* as a photo has the caption of both from layer 46 on.
FileMedia(layer, f) ==
    LET isDocument == ~f.photo /\ f.type \notin {"video", "audio"}
        mime       == StoreString(f.mime)
        name       == StoreString(f.name)
        caption    == StoreString(<<>>)
    IN  <<Code(FileCode(layer, f))>>
        \o (IF f.photo \/ f.type # "audio" THEN StoreString(f.thumb) \o <<f.thumbW, f.thumbH>> ELSE <<>>)
        \o (CASE f.photo -> <<f.w, f.h>>
              [] ~f.photo /\ f.type = "video" ->
                     <<f.duration>> \o (IF layer >= 17 THEN mime ELSE <<>>) \o <<f.w, f.h>>
              [] ~f.photo /\ f.type = "audio" -> <<f.duration>> \o (IF layer >= 17 THEN mime ELSE <<>>)
              [] OTHER -> (IF layer >= 46 THEN <<>> ELSE name) \o mime)
        \o <<f.size>> \o StoreString(f.key) \o StoreString(f.iv)
        \o (CASE layer >= 46 /\ f.type = "video" -> caption
              [] layer >= 46 /\ isDocument ->
                     <<Code("vector"), 1, Code("filename")>> \o name \o caption
              [] OTHER -> <<>>)
        \o (IF layer >= 17 /\ f.photo THEN caption ELSE <<>>)

\* What precedes the media.
FileHeader(layer, id) == LayerHeader(layer) \o MessageHeader(layer, id) \o StoreString(<<>>)

Assemble(layer, id, c) ==
    CASE c.kind = "message" -> AssembleMessage(layer, id, c)
      [] c.kind = "action"  -> AssembleAction(layer, id, c)
      [] c.kind = "file"    -> FileHeader(layer, id) \o FileMedia(layer, c)

\* decrypted_message_media(): the media is read back as soon as it is written.
MediaReadBack(layer, f) ==
    \A words \in {FileMedia(layer, f)} :
        SkipAny(words, 0, Boxed("DecryptedMessageMedia")) = Len(words)

-----------------------------------------------------------------------------
(* Fetching                                                                *)

\* The member of a structure, NullPtr when its constructor has none.
Member(ds, type, id) ==
    LET named(c) == {i \in DOMAIN c.args : c.args[i].id = id}
        at(i)    == IF i = {} THEN NullPtr ELSE ds.members[CHOOSE j \in i : TRUE]
    IN  at(named(Which(ds, Boxed(type))))

\* What the application is given.
None == [what |-> "none"]
Aborts == [what |-> "aborts"]
NoMessage == [what |-> "dropped"]

\* document::document(): the media it knows is a file with its size and keys;
\* another fails an assert.
MakeDocument(media) ==
    LET id == Which(media, Boxed("DecryptedMessageMedia")).id
        get(m) == Member(media, "DecryptedMessageMedia", m).data
    IN  IF id \in {"photo", "photoLayer8", "video", "videoLayer8", "videoLayer17", "audio",
                   "audioLayer8", "document"}
        THEN [what |-> "document", size |-> get("size"), key |-> get("key"), iv |-> get("iv")]
        ELSE Aborts

\* create_message_media_encrypted()
MakeMedia(media) ==
    LET id == Which(media, Boxed("DecryptedMessageMedia")).id
        get(m) == Member(media, "DecryptedMessageMedia", m).data
    IN  IF media = NullPtr THEN None
        ELSE CASE id = "mediaEmpty" -> None
               [] id = "geoPoint" -> [what |-> "geo", point |-> get("latitude") \o get("longitude")]
               [] id = "contact" -> [what |-> "contact", phone |-> get("phone_number")]
               [] OTHER -> MakeDocument(media)

\* create_message_action_encrypted(), and the message's constructor, which
\* ignores an opaque message unless the chat wants them.
MakeAction(action, opaque) ==
    LET c == Which(action, Boxed("DecryptedMessageAction"))
        ids == Member(action, "DecryptedMessageAction", "random_ids")
    IN  IF action = NullPtr \/ (c.id = "opaqueMessage" /\ ~opaque) THEN None
        ELSE [what |-> c.id,
              data |-> CASE c.id = "deleteMessages" ->
                                [i \in DOMAIN ids.members[2].members |-> ids.members[2].members[i].data]
                         [] c.id \in {"readMessages", "screenshotMessages"} -> <<ids.members[1].data>>
                         [] OTHER -> [i \in DOMAIN action.members |-> action.members[i].data]]

\* The message made of a DecryptedMessage.
MakeMessage(ds, opaque) ==
    LET with(media) ==
            IF media = Aborts THEN Aborts
            ELSE [what |-> "message", text |-> Member(ds, "DecryptedMessage", "message").data,
                  media |-> media,
                  action |-> MakeAction(Member(ds, "DecryptedMessage", "action"), opaque)]
    IN  with(MakeMedia(Member(ds, "DecryptedMessage", "media")))

\* What a message arrives in, by its code.
Outer(words) == Boxed(IF words[1] = Code("layer") THEN "DecryptedMessageLayer" ELSE "DecryptedMessage")

\* The message itself, fetched if it is one to its last word.
Opened(words) ==
    IF \/ words[1] \notin {Code("layer"), Code("layer8"), Code("serviceLayer8")}
       \/ SkipAny(words, 0, Outer(words)) # Len(words)
    THEN {}
    ELSE {IF words[1] = Code("layer") THEN Member(ds, "DecryptedMessageLayer", "message") ELSE ds :
              ds \in {FetchAny(words, 0, Outer(words)).ds}}

\* secret_chat::fetch_message(): a message in a layer has the id it came with.
FetchMessage(words, id, opaque) ==
    {MakeMessage(ds, opaque) :
        ds \in {m \in Opened(words) : words[1] = Code("layer") =>
                    Member(m, "DecryptedMessage", "random_id").data = id}}

-----------------------------------------------------------------------------
(* The two ends                                                            *)

VARIABLE chat       \* layer, opaque: of the chat; sent: what was sent, and in
                    \* which layer; stored: the numbers of those in the
                    \* storage; last: the one on its way; answered: whether the
                    \* server answered it; seen: what was made of it; failed:
                    \* the assert that failed

Id(n) == <<n, 0>>

InitLayers ==
    chat \in [layer : {8}, opaque : BOOLEAN, sent : {<<>>}, stored : {{}}, last : {0},
              answered : {FALSE}, seen : {None}, failed : {""}]

\* What was sent as the n-th message.
Words(n) == Assemble(chat.sent[n].layer, Id(n), chat.sent[n].content)

\* The words of the media of a file that was just sent.
MediaWords(n) == FileMedia(chat.sent[n].layer, chat.sent[n].content)

OnItsWay == chat.failed = "" /\ chat.last > 0 /\ chat.seen = None

\* set_layer(): the other end tells its layer.
NotifyLayer(layer) ==
    LET min == IF layer < EncryptedLayer THEN layer ELSE EncryptedLayer
    IN  /\ chat.failed = "" /\ layer >= 8 /\ min # chat.layer
        /\ chat' = [chat EXCEPT !.layer = min]

\* A message is assembled, and kept from layer 17 on; the media of a file must
\* read back.
SendContent(c) ==
    /\ chat.failed = "" /\ Len(chat.sent) < MaxSent
    /\ <<chat.layer, c>> \in Offers
    /\ chat' = [chat EXCEPT
           !.sent = Append(@, [content |-> c, layer |-> chat.layer]),
           !.stored = IF chat.layer >= 17 THEN @ \union {Len(chat.sent) + 1} ELSE @,
           !.last = Len(chat.sent) + 1,
           !.answered = FALSE,
           !.seen = None,
           !.failed = IF c.kind = "file" /\ ~MediaReadBack(chat.layer, c) THEN "read back" ELSE ""]

\* set_message_media(): a file that was answered is given its media.
Answered ==
    /\ OnItsWay /\ ~chat.answered /\ chat.sent[chat.last].content.kind = "file"
    /\ \E words \in {MediaWords(chat.last)} :
       \E media \in {FetchAny(words, 0, Boxed("DecryptedMessageMedia")).ds} :
           chat' = [chat EXCEPT !.answered = TRUE,
                                !.failed = IF MakeMedia(media) = Aborts THEN "document" ELSE ""]

\* The other end fetches the message.
ReceiveBlob ==
    /\ OnItsWay
    /\ \E words \in {Words(chat.last)} :
       \E made \in {FetchMessage(words, Id(chat.last), chat.opaque)} :
           chat' = [chat EXCEPT
               !.seen = IF made = {} THEN NoMessage ELSE CHOOSE m \in made : TRUE,
               !.failed = IF Aborts \in made THEN "document" ELSE ""]

\* create_by_out_seq_no(): the message is made of its blob, to be sent again.  A
\* chat whose layer was lowered since fails an assert.
Resend(n) ==
    /\ chat.failed = "" /\ n \in chat.stored
    /\ IF chat.layer < 17 THEN chat' = [chat EXCEPT !.failed = "layer"]
       ELSE \E words \in {Words(n)} : \E made \in {FetchMessage(words, Id(n), chat.opaque)} :
               chat' = [chat EXCEPT !.last = n, !.answered = TRUE,
                                    !.seen = IF made = {} THEN NoMessage ELSE None,
                                    !.failed = IF Aborts \in made THEN "document" ELSE ""]

NextLayers ==
    \/ Answered
    \/ ReceiveBlob
    \/ \E layer \in Layers : NotifyLayer(layer)
    \/ \E c \in Contents : SendContent(c)
    \/ \E n \in 1..MaxSent : Resend(n)

-----------------------------------------------------------------------------
(* Properties                                                              *)

\* What a message should be at the other end: its text and point, its action,
\* or a file that can be decrypted.
Meant(c, m) ==
    /\ m.what = "message"
    /\ CASE c.kind = "message" ->
              /\ m.text = c.text /\ m.action = None
              /\ m.media = IF c.geo = <<>> THEN None ELSE [what |-> "geo", point |-> c.geo]
         [] c.kind = "action" ->
              m.action = IF c.type = "opaqueMessage" /\ ~chat.opaque THEN None
                         ELSE [what |-> c.type, data |-> c.data]
         [] c.kind = "file" ->
              m.media = [what |-> "document", size |-> <<c.size>>, key |-> c.key, iv |-> c.iv]

\* Every message that this client assembles, in every layer, is read by its own
\* parser as what was meant, at the other end and from the storage: the writer
\* and the schema that the parser is generated from are kept in step by hand.
Readable ==
    /\ chat.failed \notin {"read back", "document"}
    /\ chat.last > 0 /\ chat.seen # None => Meant(chat.sent[chat.last].content, chat.seen)

\* document::document() asserts that it is made of a media it knows.
DocumentsKnown == chat.failed # "document"
=============================================================================
