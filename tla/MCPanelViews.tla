---------------------------- MODULE MCPanelViews ----------------------------
(* PanelViews with the sequences a terminal in its default mode sends for  *)
(* cursor and paging keys: ESC [ A and ESC [ 5 ~.                          *)
EXTENDS PanelViews

CsiForms == {<<"[", "A">>, <<"[", "5", "~">>}
=============================================================================
