----------------------------- MODULE MCRoomSync ------------------------------
(* Small rooms for RoomSync.  A message is a command that may or may not  *)
(* be given, in any order the checks allow.                                *)
EXTENDS RoomSync, TLC

CONSTANTS source, copy, post, news, inbox, owner, fan

(* A private message of a fan, its anonymous copy, and a post that quotes  *)
(* the copy.                                                               *)
CopyRoom == {source, copy, post}
(* And another post, which a message in the viewer's inbox quotes.         *)
AllMessages == {source, copy, post, news, inbox}

MCActors == {owner, fan}
MCSender == (source :> fan) @@ (copy :> owner) @@ (post :> owner) @@ (news :> owner) @@ (inbox :> owner)
MCStream == (source :> "hidden") @@ (copy :> "shared") @@ (post :> "shared") @@ (news :> "shared") @@ (inbox :> "granted")
MCRoot == (source :> None) @@ (copy :> source) @@ (post :> None) @@ (news :> None) @@ (inbox :> None)
MCQuote == (source :> None) @@ (copy :> None) @@ (post :> copy) @@ (news :> None) @@ (inbox :> news)
Among(f, S) == [m \in S |-> f[m]]

CopySender == Among(MCSender, CopyRoom)
CopyStream == Among(MCStream, CopyRoom)
CopyRoot == Among(MCRoot, CopyRoom)
CopyQuote == Among(MCQuote, CopyRoom)
=============================================================================
