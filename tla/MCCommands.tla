------------------------------ MODULE MCCommands ------------------------------
EXTENDS Commands

Msg(path, tags, vals, words) ==
    [ok |-> TRUE, path |-> path, tags |-> tags, vals |-> vals, words |-> words]
Floats(path, vals) == Msg(path, [i \in DOMAIN vals |-> "f"], vals, Len(vals))
Switch(path, v) == Msg(path, <<"i">>, <<v>>, 1)
Text(len, path, args) == [len |-> len, path |-> path, args |-> args]
Dec(neg, int, num, den) == [neg |-> neg, int |-> int, num |-> num, den |-> den]

\* Dragged corners (y, x), two of them past the edge; an integer too large for
\* FIXED(), a packet cut short, a blob, a bad frame, an unknown address.
McCornerPackets ==
    {Floats("/geom/tl", <<15, -13>>), Floats("/geom/tl", <<-9, 14>>),
     Floats("/geom/tr", <<15, 17>>), Floats("/geom/br", <<-40, -11>>),
     Floats("/geom/bl", <<-9, 15>>), Msg("/geom/tr", <<"i", "i">>, <<4, 1>>, 2),
     Msg("/geom/br", <<"f", "f">>, <<1, 1>>, 1), Msg("/geom/bl", <<"f", "b">>, <<3, 3>>, 2),
     [Floats("/geom/tl", <<1, 1>>) EXCEPT !.ok = FALSE], Floats("/fader", <<1>>)}
McLockPackets ==
    {Switch("/geom/locktop", 1), Switch("/geom/locktop", 0), Switch("/geom/lockleft", 1),
     Msg("/geom/lockright", <<"T">>, <<0>>, 1), Msg("/geom/lockbottom", <<"T">>, <<0>>, 0),
     Msg("/geom/lockright", <<"N">>, <<0>>, 1), Msg("/geom/lockleft", <<"F">>, <<0>>, 1),
     Floats("/geom/tl", <<15, -13>>), Floats("/geom/tr", <<3, 16>>),
     Floats("/geom/bl", <<-9, -9>>)}
McSizePackets ==
    {Floats("/geom/size", <<9>>), Floats("/geom/size", <<0>>), Floats("/geom/offset", <<-12, 20>>),
     Floats("/geom/offset", <<0, 0>>), Floats("/geom/tr", <<15, 11>>), Switch("/geom/lockright", 1)}
McPlayPackets ==
    {Msg("/stop", <<>>, <<>>, 1), Msg("/stop", <<"i">>, <<0>>, 1), Msg("/stop", <<"i">>, <<1>>, 1),
     Msg("/ilda/play", <<"s">>, <<"b">>, 1), Msg("/ilda/play", <<"s">>, <<Broken>>, 1),
     Msg("/geom", <<>>, <<>>, 1)}
McDelayPackets ==
    {Switch(path, v) : path \in DelayPaths, v \in {0, 1, 5}} \cup
    {Floats("/geom/gdelay", <<17>>)}

\* Lines that fall into the buffer in pieces, among them an empty and a blank one, a -1.5 that
\* is read as 0.5, a corner too close to another; one that calls no handler; a last
\* one without its end; one too long.
McLines ==
    <<Text(2, "/geom/locktop", <<Dec(FALSE, 1, 0, 0)>>), Text(0, "", <<>>),
      Text(3, "/ilda/play", <<"a">>),
      Text(1, "/geom/tl", <<Dec(FALSE, 0, 9, 10), Dec(TRUE, 1, 5, 10)>>), Text(2, "", <<>>),
      Text(2, "/geom/br", <<Dec(FALSE, 1, 0, 0), Dec(FALSE, 1, 0, 0)>>),
      Text(5, "/geom", <<>>),
      Text(3, "/geom/size", <<Dec(FALSE, 0, 5, 10), Dec(FALSE, 0, 0, 0)>>),
      Text(1, "/stop", <<>>)>>
McOpenLines ==
    <<Text(1, "/ilda/play", <<"a">>), Text(4, "/geom/gdelay", <<Dec(FALSE, 2, 0, 0)>>),
      Text(1, "/stop", <<>>), Text(2, "/geom/size", <<Dec(FALSE, 0, 5, 10)>>),
      Text(1, "/stop", <<>>)>>
McLongLines == <<Text(1, "/geom/offset", <<Dec(TRUE, 0, 3, 10), Dec(FALSE, 1, 0, 0)>>),
                 Text(6, "/stop", <<>>)>>

Show(packets, lines, closed) == [packets |-> packets, lines |-> lines, closed |-> closed]
McShows ==
    {Show(McCornerPackets, McLongLines, TRUE), Show(McLockPackets, McOpenLines, FALSE),
     Show(McSizePackets, McOpenLines, TRUE), Show(McPlayPackets, McLines, TRUE),
     Show(McDelayPackets, McOpenLines, FALSE), Show(McSizePackets, McLines, TRUE)}
=============================================================================
