----------------------------- MODULE MCToolCall -----------------------------
(***************************************************************************)
(* Two MCP calls at once under one JSON-RPC id, the second with another    *)
(* tool or other arguments than the first.                                 *)
(***************************************************************************)
EXTENDS ToolCall

CONSTANTS c1, c2, id, t, u, x, y

MCSends(c) ==
    IF c = c1 THEN [rpc : {id}, tool : {t}, digest : {x}]
    ELSE {params \in [rpc : {id}, tool : {t, u}, digest : {x, y}] :
              (params.tool = t) = (params.digest = y)}
=============================================================================
