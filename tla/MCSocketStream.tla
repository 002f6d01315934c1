--------------------------- MODULE MCSocketStream ---------------------------
(***************************************************************************)
(* SocketStream on a small instance: the sizes of the code scaled down so  *)
(* that every order relation between them is kept (length field < header   *)
(* < slack < send buffer = length limit), with messages of one, two and    *)
(* three fragments.                                                        *)
(***************************************************************************)
EXTENDS SocketStream

MCLengths == {3, 5, 9}
=============================================================================
