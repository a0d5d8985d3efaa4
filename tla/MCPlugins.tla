----------------------------- MODULE MCPlugins ------------------------------
(***************************************************************************)
(* The sub-plugins of the elements and what they share with them, one at a *)
(* time: in each behaviour one of them is there and the others are absent. *)
(***************************************************************************)
EXTENDS TensorInfo, SubPlugins, BoundingBox, MediaDecoder,
        FilterProperties, TensorSerialize, TizenSensor,
        TfliteDmaBuf, AraFilter

MCInfoTypes == [uint8 |-> 1, int16 |-> 2]
MCLinkStrings == {<<<<2, -1, 1>>>>, <<<<2, 1, 1, 2>>>>, <<<<2, 0, 1>>>>}
MCDims == {<<0, 0, 0>>, <<1, 0, 0>>, <<2, 0, 0>>, <<2, 1, 0>>, <<2, 1, 1>>, <<2, 1, 2>>}
MCInfos(k) == {[type |-> t, dim |-> d] : t \in {"uint8", "int16"}, d \in MCDims}
MCConfig(f, l, r) ==
  [format |-> f, num |-> Len(l), rate |-> r,
   info |-> [i \in 1..SizeLimit |-> IF i <= Len(l) THEN l[i] ELSE InfoInitial]]
MCBytes(d) == [type |-> "uint8", dim |-> d]
MCLinkConfigs ==
  {MCConfig("static", <<i>>, <<1, 1>>) : i \in MCInfos(1)}
  \cup {MCConfig("static", <<MCBytes(d), MCBytes(<<2, 1, 1>>)>>, r) :
          d \in {<<1, 0, 0>>, <<2, 1, 0>>, <<2, 1, 1>>}, r \in {<<2, 2>>, <<1, 2>>}}
  \cup {MCConfig("flexible", << >>, <<1, 1>>), MCConfig("static", << >>, <<1, 1>>),
        MCConfig("static", <<MCBytes(<<2, 1, 0>>)>>, <<-1, -1>>)}
MCLinkTemplates == {{"tensors"}, {"tensor", "tensors", "flexible"}, {"flexible"}}
MCSpTypes == [filter |-> "filename", converter |-> "getall"]
MCSpFile(t, n, d, s, r) ==
  [type |-> t, name |-> n, dir |-> d, regular |-> TRUE, symlink |-> s, registers |-> r]
MCSpFiles == <<MCSpFile("filter", "p", "A", FALSE, "p"), MCSpFile("filter", "p", "B", TRUE, "p"),
               MCSpFile("converter", "p", "A", FALSE, ""), MCSpFile("converter", "q", "A", FALSE, "q"),
               [MCSpFile("filter", "q", "B", FALSE, "q") EXCEPT !.regular = FALSE]>>
MCSpPaths == {<<"B", "A", "B", "">>}
MCBbConfig(n, t, r, c, k) == [num |-> n, sametype |-> TRUE, type |-> t, rows |-> r, cols |-> c, classes |-> k]
MCBbConfigs ==
  {MCBbConfig(1, "float32", 3, 7, 1), MCBbConfig(1, "uint8", 3, 7, 1), MCBbConfig(1, "float32", 3, 6, 1),
   MCBbConfig(2, "float32", 3, 4, 2), MCBbConfig(4, "float32", 2, 4, 2), MCBbConfig(4, "float32", 3, 4, 2),
   MCBbConfig(2, "float32", 3, 18, 1), MCBbConfig(1, "float32", 1, 6, 1)}
MCBbRow(b, s) == [box |-> b, conf |-> s, scores |-> <<s, 2>>, class |-> s % 2]
MCBbRows ==
  {MCBbRow(<<0, 0, 2, 2>>, 4), MCBbRow(<<1, 0, 2, 2>>, 3), MCBbRow(<<2, 1, 4, 4>>, 2),
   MCBbRow(<<3, 3, 4, 4>>, 3)}
MCBbFrames == {<< >>} \cup {<<r>> : r \in MCBbRows} \cup (MCBbRows \X MCBbRows)
   \cup {<<MCBbRow(<<0, 0, 2, 2>>, 4), MCBbRow(<<2, 1, 4, 4>>, 2), MCBbRow(<<1, 0, 2, 2>>, 3)>>,
         <<MCBbRow(<<0, 0, 2, 2>>, 4), MCBbRow(<<1, 0, 2, 2>>, 3), MCBbRow(<<2, 0, 2, 2>>, 3)>>,
         <<MCBbRow(<<3, 3, 4, 4>>, 3), MCBbRow(<<0, 0, 2, 2>>, 3), MCBbRow(<<1, 0, 2, 2>>, 3)>>}
MCBbAnchors == <<<<0, 0, 2, 2>>, <<2, 2, 1, 1>>, <<1, 0, 2, 1>>>>
MCBbPriorFiles == {<<<<0, 2, 0>>, <<0, 2, 1>>, <<2, 1, 1>>, <<2, 1, 2>>>>, <<<<1>>, <<1, 2>>, << >>, << >>>>}
MCBbIou == <<2, 5>>
MCBbPicture == <<9, 7>>
MCBbChar == <<2, 3>>
MCPoseDefault == <<<<2>>, <<1, 3>>, <<2>>>>
MCPoseFiles == {<<<<2>>, <<1, 1, 1>>>>, <<<< >>, <<3>>, << >>>>}
MCPoseOutputs == {<<6, 5>>, <<4, 7>>}
MCPoseInputs == {<<3, 3>>, <<4, 2>>}
MCPoseConfig(n, w, h) == [points |-> n, offsets |-> 2 * n, w |-> w, h |-> h, sametype |-> TRUE]
MCPoseConfigs == {MCPoseConfig(3, 3, 3), MCPoseConfig(3, 1, 3), MCPoseConfig(2, 3, 3)}
MCPoseHeats ==
  {[q \in (1..3) \X (1..3) |-> IF q = p THEN 2 ELSE 0] : p \in {<<1, 1>>, <<3, 1>>, <<2, 3>>, <<3, 3>>}}
  \cup {[q \in (1..3) \X (1..3) |-> 1]}
MCPoseOffsets == {<<0, 0>>, <<-1, 1>>, <<1, -2>>}
MCPoseDot == {<<0, 1>>, <<0, -1>>, <<1, 0>>, <<-1, 0>>}
MCPoseChar == <<2, 3>>
MCSegConfigs == [type : {"float32"}, dim : {<<2, 3, 1>>, <<1, 3, 1>>, <<3, 1, 2>>, <<1, 2, 2>>}]
  \cup [type : {"uint8"}, dim : {<<1, 3, 1>>}]
MCSegPalettes == {<<5, 9>>}
MCLabelFiles == {<<"cat", "dog", NoLabel>>, <<"cat">>}
MCLabelDims == {<<3, 1, 0>>, <<2, 1, 0>>, <<2, 2, 0>>, <<2, 1, 1>>}
MCVideoDims == {<<1, 3, 2>>, <<1, 8, 2>>, <<3, 2, 2>>, <<3, 4, 1>>, <<4, 3, 2>>, <<2, 2, 2>>}
MCVideoFormats == {[channels |-> 1, bytes |-> 2], [channels |-> 3, bytes |-> 1]}
MCRegionConfigs == {[rows |-> 3, cols |-> 4, classes |-> 2], [rows |-> 2, cols |-> 4, classes |-> 2],
                    [rows |-> 3, cols |-> 4, classes |-> 3], [rows |-> 3, cols |-> 5, classes |-> 2]}
MCRegionRow(b, s) == [box |-> b, scores |-> <<4, s>>]
MCRegionRows == {MCRegionRow(<<0, 0, 2, 2>>, 4), MCRegionRow(<<0, 0, 2, 2>>, 1), MCRegionRow(<<1, 0, 2, 2>>, 3),
                 MCRegionRow(<<1, 1, 3, 3>>, 2), MCRegionRow(<<3, 3, 1, 1>>, 3)}
MCRegionFrames == {<< >>} \cup (MCRegionRows \X MCRegionRows) \cup (MCRegionRows \X MCRegionRows \X MCRegionRows)
MCStatLatencies == {-4, 3, 50}
MCFoFw(v, hw, a, d) == [version |-> v, hw |-> hw, auto |-> a, default |-> d]
MCFoFws == [one |-> MCFoFw(1, <<"simd", "gpu", "cpu">>, "gpu", "unset"), cpus |-> MCFoFw(1, <<"cpu", "simd">>, "unset", "cpu"),
            old |-> MCFoFw(0, <<"simd", "cpu">>, "simd", "simd"), two |-> MCFoFw(2, <<"gpu", "simd">>, "unset", "simd")]
MCFoAliases == [one |-> <<"two">>, nick |-> <<"gone", "cpus", "one">>]
MCFoPriority == [tflite |-> <<"gone", "nick", "old">>]
MCFoModels == {[dir |-> FALSE, exts |-> <<"tflite">>, same |-> TRUE], [dir |-> FALSE, exts |-> <<"pb", "pb">>, same |-> FALSE]}
MCFoWord(w, n, e) == [w |-> w, neg |-> n, exact |-> e]
MCFoRequests ==
  {<< >>, <<[use |-> FALSE, words |-> <<MCFoWord("gpu", FALSE, TRUE)>>]>>}
  \cup {<<[use |-> TRUE, words |-> ws]>> :
          ws \in {<< >>, <<MCFoWord("cpu", TRUE, TRUE), MCFoWord("gpu", FALSE, TRUE)>>,
                  <<MCFoWord("neon", FALSE, TRUE)>>,
                  <<MCFoWord("simd", FALSE, TRUE)>>, <<MCFoWord("default", FALSE, TRUE), MCFoWord("gpu", FALSE, TRUE)>>,
                  <<MCFoWord("neon", FALSE, FALSE), MCFoWord("neon", TRUE, TRUE)>>}}
MCFoLayouts == {<<"NHWC", "x">>, <<"NCHW">>, <<"ANY", "", "NHWC">>}
MCSerBytes == [a |-> 1, b |-> 2]
MCSerConfig(f, r, i) == [format |-> f, rate |-> r, info |-> i]
MCSerConfigs == {MCSerConfig("static", 1, <<"a">>), MCSerConfig("static", 2, <<"b">>),
   MCSerConfig("flexible", 1, << >>), MCSerConfig("static", 1, <<"a", "a", "b">>)}
MCSerShapes == {<< >>, <<"a">>, <<"b">>, <<"b", "a">>, <<"a", "a", "b">>}
MCTizenSpecs == [light |-> [count |-> 1, float |-> TRUE], accelerometer |-> [count |-> 3, float |-> TRUE], hrm |-> [count |-> 1, float |-> FALSE]]
MCTizenSensors == [light |-> 2, accelerometer |-> 1, hrm |-> 1]
MCTizenRates == {<<10, 1>>, <<0, 1>>, <<3, 2>>}
MCTizenSequences == {-1, 0, 1}
MCTizenMax == [sets |-> 4, starts |-> 2, buffers |-> 2]
MCTflApis == {[vx |-> TRUE, request |-> TRUE, supported |-> TRUE, hal |-> FALSE],
              [vx |-> TRUE, request |-> TRUE, supported |-> FALSE, hal |-> FALSE],
              [vx |-> TRUE, request |-> FALSE, supported |-> TRUE, hal |-> TRUE],
              [vx |-> FALSE, request |-> FALSE, supported |-> FALSE, hal |-> TRUE]}
MCTflBounds == {[frames |-> 3, loads |-> 2, reloads |-> 1, shapes |-> 1],
                [frames |-> 2, loads |-> 1, reloads |-> 1, shapes |-> 2]}
MCAraParam(g, s, f, q, o) == [given |-> g, signed |-> s, float |-> f, qn |-> q, offset |-> o]
MCAraTensor(w, n, b, p) == [w |-> w, h |-> 1, nch |-> n, bpp |-> b, param |-> p]
MCAraModels ==
  {[ins |-> <<MCAraTensor(2, 3, 1, MCAraParam(TRUE, TRUE, FALSE, 0, 0))>>,
    outs |-> <<MCAraTensor(2, 1, 4, MCAraParam(FALSE, FALSE, FALSE, 0, 0)),
               MCAraTensor(1, 1, 2, MCAraParam(TRUE, TRUE, FALSE, 1, 3))>>],
   [ins |-> <<MCAraTensor(1, 1, 2, MCAraParam(FALSE, FALSE, FALSE, 0, 0)),
              MCAraTensor(1, 2, 4, MCAraParam(TRUE, FALSE, FALSE, 0, 0))>>,
    outs |-> <<MCAraTensor(1, 2, 4, MCAraParam(TRUE, TRUE, FALSE, 1, 0))>>],
   [ins |-> <<MCAraTensor(2, 1, 3, MCAraParam(TRUE, TRUE, FALSE, 0, 0))>>,
    outs |-> <<MCAraTensor(2, 1, 1, MCAraParam(TRUE, FALSE, TRUE, 0, 0))>>]}

vars == <<link, tbuf, reg, bbox, pose, seg, mdec, region, fstat, fopt, ser,
          tizen, tfl, ara>>

PluginsInit ==
  \/ LinkInit
     /\ tbuf = Absent /\ reg = Absent /\ bbox = Absent /\ pose = Absent /\ seg = Absent
     /\ mdec = Absent /\ region = Absent /\ fstat = Absent /\ fopt = Absent /\ ser = Absent
     /\ tizen = Absent /\ tfl = Absent /\ ara = Absent
  \/ TbufInit
     /\ link = Absent /\ reg = Absent /\ bbox = Absent /\ pose = Absent /\ seg = Absent
     /\ mdec = Absent /\ region = Absent /\ fstat = Absent /\ fopt = Absent /\ ser = Absent
     /\ tizen = Absent /\ tfl = Absent /\ ara = Absent
  \/ RegInit
     /\ link = Absent /\ tbuf = Absent /\ bbox = Absent /\ pose = Absent /\ seg = Absent
     /\ mdec = Absent /\ region = Absent /\ fstat = Absent /\ fopt = Absent /\ ser = Absent
     /\ tizen = Absent /\ tfl = Absent /\ ara = Absent
  \/ BbInit
     /\ link = Absent /\ tbuf = Absent /\ reg = Absent /\ pose = Absent /\ seg = Absent
     /\ mdec = Absent /\ region = Absent /\ fstat = Absent /\ fopt = Absent /\ ser = Absent
     /\ tizen = Absent /\ tfl = Absent /\ ara = Absent
  \/ PoseInit
     /\ link = Absent /\ tbuf = Absent /\ reg = Absent /\ bbox = Absent /\ seg = Absent
     /\ mdec = Absent /\ region = Absent /\ fstat = Absent /\ fopt = Absent /\ ser = Absent
     /\ tizen = Absent /\ tfl = Absent /\ ara = Absent
  \/ SegInit
     /\ link = Absent /\ tbuf = Absent /\ reg = Absent /\ bbox = Absent /\ pose = Absent
     /\ mdec = Absent /\ region = Absent /\ fstat = Absent /\ fopt = Absent /\ ser = Absent
     /\ tizen = Absent /\ tfl = Absent /\ ara = Absent
  \/ MediaInit
     /\ link = Absent /\ tbuf = Absent /\ reg = Absent /\ bbox = Absent /\ pose = Absent
     /\ seg = Absent /\ region = Absent /\ fstat = Absent /\ fopt = Absent /\ ser = Absent
     /\ tizen = Absent /\ tfl = Absent /\ ara = Absent
  \/ RegionInit
     /\ link = Absent /\ tbuf = Absent /\ reg = Absent /\ bbox = Absent /\ pose = Absent
     /\ seg = Absent /\ mdec = Absent /\ fstat = Absent /\ fopt = Absent /\ ser = Absent
     /\ tizen = Absent /\ tfl = Absent /\ ara = Absent
  \/ StatInit
     /\ link = Absent /\ tbuf = Absent /\ reg = Absent /\ bbox = Absent /\ pose = Absent
     /\ seg = Absent /\ mdec = Absent /\ region = Absent /\ fopt = Absent /\ ser = Absent
     /\ tizen = Absent /\ tfl = Absent /\ ara = Absent
  \/ FoInit
     /\ link = Absent /\ tbuf = Absent /\ reg = Absent /\ bbox = Absent /\ pose = Absent
     /\ seg = Absent /\ mdec = Absent /\ region = Absent /\ fstat = Absent /\ ser = Absent
     /\ tizen = Absent /\ tfl = Absent /\ ara = Absent
  \/ SerInit
     /\ link = Absent /\ tbuf = Absent /\ reg = Absent /\ bbox = Absent /\ pose = Absent
     /\ seg = Absent /\ mdec = Absent /\ region = Absent /\ fstat = Absent /\ fopt = Absent
     /\ tizen = Absent /\ tfl = Absent /\ ara = Absent
  \/ TizenInit
     /\ link = Absent /\ tbuf = Absent /\ reg = Absent /\ bbox = Absent /\ pose = Absent
     /\ seg = Absent /\ mdec = Absent /\ region = Absent /\ fstat = Absent /\ fopt = Absent
     /\ ser = Absent /\ tfl = Absent /\ ara = Absent
  \/ TflInit
     /\ link = Absent /\ tbuf = Absent /\ reg = Absent /\ bbox = Absent /\ pose = Absent
     /\ seg = Absent /\ mdec = Absent /\ region = Absent /\ fstat = Absent /\ fopt = Absent
     /\ ser = Absent /\ tizen = Absent /\ ara = Absent
  \/ AraInit
     /\ link = Absent /\ tbuf = Absent /\ reg = Absent /\ bbox = Absent /\ pose = Absent
     /\ seg = Absent /\ mdec = Absent /\ region = Absent /\ fstat = Absent /\ fopt = Absent
     /\ ser = Absent /\ tizen = Absent /\ tfl = Absent

PluginsNext ==
  \/ link # Absent /\ LinkNext
     /\ UNCHANGED <<tbuf, reg, bbox, pose, seg, mdec, region, fstat, fopt,
                     ser, tizen, tfl, ara>>
  \/ tbuf # Absent /\ TbufNext
     /\ UNCHANGED <<link, reg, bbox, pose, seg, mdec, region, fstat, fopt,
                     ser, tizen, tfl, ara>>
  \/ reg # Absent /\ RegNext
     /\ UNCHANGED <<link, tbuf, bbox, pose, seg, mdec, region, fstat, fopt,
                     ser, tizen, tfl, ara>>
  \/ bbox # Absent /\ BbNext
     /\ UNCHANGED <<link, tbuf, reg, pose, seg, mdec, region, fstat, fopt,
                     ser, tizen, tfl, ara>>
  \/ pose # Absent /\ PoseNext
     /\ UNCHANGED <<link, tbuf, reg, bbox, seg, mdec, region, fstat, fopt,
                     ser, tizen, tfl, ara>>
  \/ seg # Absent /\ SegNext
     /\ UNCHANGED <<link, tbuf, reg, bbox, pose, mdec, region, fstat, fopt,
                     ser, tizen, tfl, ara>>
  \/ mdec # Absent /\ MediaNext
     /\ UNCHANGED <<link, tbuf, reg, bbox, pose, seg, region, fstat, fopt,
                     ser, tizen, tfl, ara>>
  \/ region # Absent /\ RegionNext
     /\ UNCHANGED <<link, tbuf, reg, bbox, pose, seg, mdec, fstat, fopt,
                     ser, tizen, tfl, ara>>
  \/ fstat # Absent /\ StatNext
     /\ UNCHANGED <<link, tbuf, reg, bbox, pose, seg, mdec, region, fopt,
                     ser, tizen, tfl, ara>>
  \/ fopt # Absent /\ FoNext
     /\ UNCHANGED <<link, tbuf, reg, bbox, pose, seg, mdec, region, fstat,
                     ser, tizen, tfl, ara>>
  \/ ser # Absent /\ SerNext
     /\ UNCHANGED <<link, tbuf, reg, bbox, pose, seg, mdec, region, fstat,
                     fopt, tizen, tfl, ara>>
  \/ tizen # Absent /\ TizenNext
     /\ UNCHANGED <<link, tbuf, reg, bbox, pose, seg, mdec, region, fstat,
                     fopt, ser, tfl, ara>>
  \/ tfl # Absent /\ TflNext
     /\ UNCHANGED <<link, tbuf, reg, bbox, pose, seg, mdec, region, fstat,
                     fopt, ser, tizen, ara>>
  \/ ara # Absent /\ AraNext
     /\ UNCHANGED <<link, tbuf, reg, bbox, pose, seg, mdec, region, fstat,
                     fopt, ser, tizen, tfl>>

PluginsSpec == PluginsInit /\ [][PluginsNext]_vars

\* Tensors packed into the memories of a buffer, or serialised into a
\* message, come out as they went in.
TensorsSurvive == BufferTensors /\ SerRoundTrip /\ SerDescribed

\* The filters with memory that a device shares: what it reads is the frame
\* given, what is pushed is computed from it, and what was taken is given back.
DelegatesCorrect == TflCorrect /\ AraCorrect

\* The sub-plugins of tensor_decoder that draw or name what they see write
\* every pixel they owe, none outside, and end.
PicturesCorrect ==
  /\ PoseInside /\ LimbsOnce /\ LinesEnd
  /\ LabelColoured /\ DepthScaled /\ LabelMost
  /\ VideoRows
=============================================================================
