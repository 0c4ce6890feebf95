--------------------------- MODULE MCEntityStates ---------------------------
(* Three states that use every list, the last of them delayed. *)
EXTENDS EntityStates, TLC

CONSTANTS idle, walking, stunned, body, motion, hand

Lists3(p, q, r) == (idle :> p) @@ (walking :> q) @@ (stunned :> r)

MCPersist == Lists3({}, {body}, {motion})
MCAdd == Lists3({motion}, {hand}, {body})
MCFields == Lists3({}, {hand}, {})
MCNoFields == Lists3({}, {}, {})
MCRemove == Lists3({hand}, {}, {hand})
MCFreeze == Lists3({body}, {motion}, {hand})
MCStore == Lists3({body, hand}, {}, {hand})
MCLocalCopy == Lists3({}, {motion}, {})
MCInitCopy == Lists3({body}, {}, {})
MCPlain == Lists3({}, {body}, {})
MCComponents == {body, motion, hand}
MCStates == {idle, walking, stunned}
=============================================================================
