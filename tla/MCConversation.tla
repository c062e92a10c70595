---------------------------- MODULE MCConversation ----------------------------
(* Conversation for TLC: what people say, as records, and its bounds.        *)
EXTENDS Conversation, TLC

CONSTANTS ann, bob

Saying(kind, body, named, mentions) ==
  [kind |-> kind, body |-> body, named |-> named, mentions |-> mentions]

Hello == Saying("text", "hello", FALSE, "absent")
ToGordy == Saying("text", "gordy: hello", TRUE, "absent")
HelloGordy == Saying("text", "hello", FALSE, "bot")
HelloBob == Saying("text", "hello bob", FALSE, "other")
Roll == Saying("command", "!roll", FALSE, "absent")
Photo == Saying("image", "photo", FALSE, "absent")

Help == Saying("question", "!help me", FALSE, "absent")

AllContents == {Hello, ToGordy, HelloGordy, HelloBob, Roll, Photo, Help}
ThreadContents == {Hello, ToGordy}
EditContents == {Hello, HelloGordy, ToGordy, Roll}

(* Nobody in the room is special. *)
Symmetry == Permutations({ann, bob})
=============================================================================
