---------------------------- MODULE RqParamTable ----------------------------
(* The table base_param_sets of src/rfc6330_alg/parameters.c (RFC 6330,    *)
(* section 5.6), all rows: <<K', J, S, W>> grouped by H, which grows with  *)
(* K'.                                                                     *)
EXTENDS Integers, Sequences

Rows_H10 == <<
  <<10,254,7,17>>, <<12,630,7,19>>, <<18,682,11,29>>, <<20,293,11,31>>, <<26,80,11,37>>, <<30,566,11,41>>,
  <<32,860,11,43>>, <<36,267,11,47>>, <<42,822,11,53>>, <<46,506,13,59>>, <<48,589,13,61>>, <<49,87,13,61>>,
  <<55,520,13,67>>, <<60,159,13,71>>, <<62,235,13,73>>, <<69,157,13,79>>, <<75,502,17,89>>, <<84,334,17,97>>,
  <<88,583,17,101>>, <<91,66,17,103>>, <<95,352,17,107>>, <<97,365,17,109>>, <<101,562,17,113>>,
  <<114,5,19,127>>, <<119,603,19,131>>, <<125,721,19,137>>, <<127,28,19,139>>, <<138,660,19,149>>,
  <<140,829,19,151>>, <<149,900,23,163>>, <<153,930,23,167>>, <<160,814,23,173>>, <<166,661,23,179>>,
  <<168,693,23,181>>, <<179,780,23,191>>, <<181,605,23,193>>, <<185,551,23,197>>, <<187,777,23,199>>,
  <<200,491,23,211>>, <<213,396,23,223>>, <<217,764,29,233>>, <<225,843,29,241>>, <<236,646,29,251>>,
  <<242,557,29,257>>, <<248,608,29,263>>, <<257,265,29,271>>, <<263,505,29,277>>, <<269,722,29,283>>,
  <<280,263,29,293>>, <<295,999,29,307>>, <<301,874,29,313>>, <<305,160,29,317>>, <<324,575,31,337>>,
  <<337,210,31,349>>, <<341,513,31,353>>, <<347,503,31,359>>, <<355,558,31,367>>, <<362,932,31,373>>,
  <<368,404,31,379>>, <<372,520,37,389>>, <<380,846,37,397>>, <<385,485,37,401>>, <<393,728,37,409>>,
  <<405,554,37,421>>, <<418,471,37,433>>, <<428,641,37,443>>, <<434,732,37,449>>, <<447,193,37,461>>,
  <<453,934,37,467>>, <<466,864,37,479>>, <<478,790,37,491>>, <<486,912,37,499>>, <<491,617,37,503>>,
  <<497,587,37,509>>, <<511,800,37,523>>, <<526,923,41,541>>, <<532,998,41,547>>, <<542,92,41,557>>,
  <<549,497,41,563>>, <<557,559,41,571>>, <<563,667,41,577>>, <<573,912,41,587>>, <<580,262,41,593>>,
  <<588,152,41,601>>, <<594,526,41,607>>, <<600,268,41,613>>, <<606,212,41,619>>, <<619,45,41,631>>,
  <<633,898,43,647>>, <<640,527,43,653>>, <<648,558,43,661>>, <<666,460,47,683>>, <<675,5,47,691>>,
  <<685,895,47,701>>, <<693,996,47,709>>, <<703,282,47,719>>, <<718,513,47,733>>, <<728,865,47,743>>,
  <<736,870,47,751>>, <<747,239,47,761>>, <<759,452,47,773>>, <<778,862,53,797>>, <<792,852,53,811>>,
  <<802,643,53,821>>, <<811,543,53,829>>, <<821,447,53,839>>, <<835,321,53,853>>, <<845,287,53,863>>,
  <<860,12,53,877>>, <<870,251,53,887>>, <<891,30,53,907>>, <<903,621,53,919>>, <<913,555,53,929>>,
  <<926,127,53,941>>, <<938,400,53,953>>, <<950,91,59,971>>, <<963,916,59,983>>, <<977,935,59,997>>,
  <<989,691,59,1009>>, <<1002,299,59,1021>>, <<1020,282,59,1039>>, <<1032,824,59,1051>>>>

Rows_H11 == <<
  <<1050,536,59,1069>>, <<1074,596,59,1093>>, <<1085,28,59,1103>>, <<1099,947,59,1117>>,
  <<1111,162,59,1129>>, <<1136,536,59,1153>>, <<1152,1000,61,1171>>, <<1169,251,61,1187>>,
  <<1183,673,61,1201>>, <<1205,559,61,1223>>, <<1220,923,61,1237>>, <<1236,81,67,1259>>,
  <<1255,478,67,1277>>, <<1269,198,67,1291>>, <<1285,137,67,1307>>, <<1306,75,67,1327>>, <<1347,29,67,1367>>,
  <<1361,231,67,1381>>, <<1389,532,67,1409>>, <<1404,58,67,1423>>, <<1420,60,67,1439>>, <<1436,964,71,1459>>,
  <<1461,624,71,1483>>, <<1477,502,71,1499>>, <<1502,636,71,1523>>, <<1522,986,71,1543>>,
  <<1539,950,71,1559>>, <<1561,735,73,1583>>, <<1579,866,73,1601>>, <<1600,203,73,1621>>,
  <<1616,83,73,1637>>, <<1649,14,73,1669>>, <<1673,522,79,1699>>, <<1698,226,79,1723>>, <<1716,282,79,1741>>,
  <<1734,88,79,1759>>, <<1759,636,79,1783>>, <<1777,860,79,1801>>, <<1800,324,79,1823>>,
  <<1824,424,79,1847>>, <<1844,999,79,1867>>, <<1863,682,83,1889>>, <<1887,814,83,1913>>,
  <<1906,979,83,1931>>, <<1926,538,83,1951>>, <<1954,278,83,1979>>, <<1979,580,83,2003>>,
  <<2005,773,83,2029>>, <<2040,911,89,2069>>, <<2070,506,89,2099>>, <<2103,628,89,2131>>,
  <<2125,282,89,2153>>, <<2152,309,89,2179>>, <<2195,858,89,2221>>, <<2217,442,89,2243>>,
  <<2247,654,89,2273>>, <<2278,82,97,2311>>, <<2315,428,97,2347>>, <<2339,442,97,2371>>,
  <<2367,283,97,2399>>, <<2392,538,97,2423>>, <<2416,189,97,2447>>, <<2447,438,97,2477>>,
  <<2473,912,97,2503>>, <<2502,1,97,2531>>, <<2528,167,97,2557>>, <<2565,272,97,2593>>,
  <<2601,209,101,2633>>, <<2640,927,101,2671>>, <<2668,386,101,2699>>, <<2701,653,101,2731>>,
  <<2737,669,101,2767>>, <<2772,431,101,2801>>, <<2802,793,103,2833>>, <<2831,588,103,2861>>,
  <<2875,777,107,2909>>, <<2906,939,107,2939>>, <<2938,864,107,2971>>, <<2979,627,107,3011>>,
  <<3015,265,109,3049>>, <<3056,976,109,3089>>, <<3101,988,113,3137>>, <<3151,507,113,3187>>,
  <<3186,640,113,3221>>, <<3224,15,113,3259>>, <<3265,667,113,3299>>, <<3299,24,127,3347>>,
  <<3344,877,127,3391>>, <<3387,240,127,3433>>, <<3423,720,127,3469>>, <<3466,93,127,3511>>,
  <<3502,919,127,3547>>, <<3539,635,127,3583>>, <<3579,174,127,3623>>, <<3616,647,127,3659>>,
  <<3658,820,127,3701>>, <<3697,56,127,3739>>, <<3751,485,127,3793>>, <<3792,210,127,3833>>,
  <<3840,124,127,3881>>, <<3883,546,127,3923>>, <<3924,954,131,3967>>, <<3970,262,131,4013>>,
  <<4015,927,131,4057>>, <<4069,957,131,4111>>, <<4112,726,137,4159>>, <<4165,583,137,4211>>,
  <<4207,782,137,4253>>, <<4252,37,137,4297>>, <<4318,758,137,4363>>, <<4365,777,137,4409>>,
  <<4418,104,139,4463>>, <<4468,476,139,4513>>, <<4513,113,149,4567>>, <<4567,313,149,4621>>,
  <<4626,102,149,4679>>, <<4681,501,149,4733>>, <<4731,332,149,4783>>, <<4780,786,149,4831>>,
  <<4838,99,149,4889>>, <<4901,658,149,4951>>, <<4954,794,149,5003>>, <<5008,37,151,5059>>,
  <<5063,471,151,5113>>, <<5116,94,157,5171>>, <<5172,873,157,5227>>, <<5225,918,157,5279>>,
  <<5279,945,157,5333>>, <<5334,211,157,5387>>, <<5391,341,157,5443>>, <<5449,11,163,5507>>,
  <<5506,578,163,5563>>, <<5566,494,163,5623>>, <<5637,694,163,5693>>, <<5694,252,163,5749>>,
  <<5763,451,167,5821>>, <<5823,83,167,5881>>, <<5896,689,167,5953>>, <<5975,488,173,6037>>,
  <<6039,214,173,6101>>, <<6102,17,173,6163>>, <<6169,469,173,6229>>, <<6233,263,179,6299>>,
  <<6296,309,179,6361>>, <<6363,984,179,6427>>, <<6427,123,179,6491>>, <<6518,360,179,6581>>,
  <<6589,863,181,6653>>, <<6655,122,181,6719>>, <<6730,522,191,6803>>, <<6799,539,191,6871>>,
  <<6878,181,191,6949>>, <<6956,64,191,7027>>, <<7033,387,191,7103>>, <<7108,967,191,7177>>,
  <<7185,843,191,7253>>, <<7281,999,193,7351>>, <<7360,76,197,7433>>, <<7445,142,197,7517>>,
  <<7520,599,197,7591>>, <<7596,576,199,7669>>, <<7675,176,211,7759>>, <<7770,392,211,7853>>,
  <<7855,332,211,7937>>, <<7935,291,211,8017>>, <<8030,913,211,8111>>, <<8111,608,211,8191>>,
  <<8194,212,211,8273>>, <<8290,696,211,8369>>, <<8377,931,223,8467>>, <<8474,326,223,8563>>,
  <<8559,228,223,8647>>, <<8654,706,223,8741>>, <<8744,144,223,8831>>, <<8837,83,223,8923>>,
  <<8928,743,223,9013>>, <<9019,187,223,9103>>, <<9111,654,227,9199>>, <<9206,359,227,9293>>,
  <<9303,493,229,9391>>, <<9400,369,233,9491>>, <<9497,981,233,9587>>, <<9601,276,239,9697>>,
  <<9708,647,239,9803>>, <<9813,389,239,9907>>, <<9916,80,239,10009>>, <<10017,396,241,10111>>,
  <<10120,580,251,10223>>, <<10241,873,251,10343>>, <<10351,15,251,10453>>, <<10458,976,251,10559>>,
  <<10567,584,251,10667>>, <<10676,267,257,10781>>, <<10787,876,257,10891>>>>

Rows_H12 == <<
  <<10899,642,257,11003>>, <<11015,794,257,11119>>, <<11130,78,263,11239>>, <<11245,736,263,11353>>,
  <<11358,882,269,11471>>, <<11475,251,269,11587>>, <<11590,434,269,11701>>, <<11711,204,269,11821>>,
  <<11829,256,271,11941>>, <<11956,106,277,12073>>, <<12087,375,277,12203>>, <<12208,148,277,12323>>,
  <<12333,496,281,12451>>, <<12460,88,281,12577>>, <<12593,826,293,12721>>, <<12726,71,293,12853>>,
  <<12857,925,293,12983>>, <<13002,760,293,13127>>, <<13143,130,293,13267>>, <<13284,641,307,13421>>,
  <<13417,400,307,13553>>, <<13558,480,307,13693>>, <<13695,76,307,13829>>, <<13833,665,307,13967>>,
  <<13974,910,307,14107>>, <<14115,467,311,14251>>, <<14272,964,311,14407>>, <<14415,625,313,14551>>,
  <<14560,362,317,14699>>, <<14713,759,317,14851>>, <<14862,728,331,15013>>, <<15011,343,331,15161>>,
  <<15170,113,331,15319>>, <<15325,137,331,15473>>, <<15496,308,331,15643>>, <<15651,800,337,15803>>,
  <<15808,177,337,15959>>, <<15977,961,337,16127>>, <<16161,958,347,16319>>, <<16336,72,347,16493>>,
  <<16505,732,347,16661>>, <<16674,145,349,16831>>, <<16851,577,353,17011>>, <<17024,305,353,17183>>,
  <<17195,50,359,17359>>, <<17376,351,359,17539>>, <<17559,175,367,17729>>, <<17742,727,367,17911>>,
  <<17929,902,367,18097>>, <<18116,409,373,18289>>, <<18309,776,373,18481>>, <<18503,586,379,18679>>,
  <<18694,451,379,18869>>, <<18909,287,383,19087>>, <<19126,246,389,19309>>, <<19325,222,389,19507>>,
  <<19539,563,397,19727>>, <<19740,839,397,19927>>, <<19939,897,401,20129>>, <<20152,409,401,20341>>,
  <<20355,618,409,20551>>, <<20564,439,409,20759>>>>

Rows_H13 == <<
  <<20778,95,419,20983>>, <<20988,448,419,21191>>, <<21199,133,419,21401>>, <<21412,938,419,21613>>,
  <<21629,423,431,21841>>, <<21852,90,431,22063>>, <<22073,640,431,22283>>, <<22301,922,433,22511>>,
  <<22536,250,439,22751>>, <<22779,367,439,22993>>, <<23010,447,443,23227>>, <<23252,559,449,23473>>,
  <<23491,121,457,23719>>, <<23730,623,457,23957>>, <<23971,450,457,24197>>, <<24215,253,461,24443>>,
  <<24476,106,467,24709>>, <<24721,863,467,24953>>, <<24976,148,479,25219>>, <<25230,427,479,25471>>,
  <<25493,138,479,25733>>, <<25756,794,487,26003>>, <<26022,247,487,26267>>, <<26291,562,491,26539>>,
  <<26566,53,499,26821>>, <<26838,135,499,27091>>, <<27111,21,503,27367>>, <<27392,201,509,27653>>,
  <<27682,169,521,27953>>, <<27959,70,521,28229>>, <<28248,386,521,28517>>, <<28548,226,523,28817>>,
  <<28845,3,541,29131>>, <<29138,769,541,29423>>, <<29434,590,541,29717>>, <<29731,672,541,30013>>,
  <<30037,713,547,30323>>, <<30346,967,547,30631>>>>

Rows_H14 == <<
  <<30654,368,557,30949>>, <<30974,348,557,31267>>, <<31285,119,563,31583>>, <<31605,503,569,31907>>,
  <<31948,181,571,32251>>, <<32272,394,577,32579>>, <<32601,189,587,32917>>, <<32932,210,587,33247>>,
  <<33282,62,593,33601>>, <<33623,273,593,33941>>, <<33961,554,599,34283>>, <<34302,936,607,34631>>,
  <<34654,483,607,34981>>, <<35031,397,613,35363>>, <<35395,241,619,35731>>, <<35750,500,631,36097>>,
  <<36112,12,631,36457>>, <<36479,958,641,36833>>, <<36849,524,641,37201>>, <<37227,8,643,37579>>,
  <<37606,100,653,37967>>, <<37992,339,653,38351>>, <<38385,804,659,38749>>, <<38787,510,673,39163>>,
  <<39176,18,673,39551>>, <<39576,412,677,39953>>, <<39980,394,683,40361>>>>

Rows_H15 == <<
  <<40398,830,691,40787>>, <<40816,535,701,41213>>, <<41226,199,701,41621>>, <<41641,27,709,42043>>,
  <<42067,298,709,42467>>, <<42490,368,719,42899>>, <<42916,755,727,43331>>, <<43388,379,727,43801>>,
  <<43840,73,733,44257>>, <<44279,387,739,44701>>, <<44729,457,751,45161>>, <<45183,761,751,45613>>,
  <<45638,855,757,46073>>, <<46104,370,769,46549>>, <<46574,261,769,47017>>, <<47047,299,787,47507>>,
  <<47523,920,787,47981>>, <<48007,269,787,48463>>, <<48489,862,797,48953>>, <<48976,349,809,49451>>,
  <<49470,103,809,49943>>, <<49978,115,821,50461>>>>

Rows_H16 == <<
  <<50511,93,821,50993>>, <<51017,982,827,51503>>, <<51530,432,839,52027>>, <<52062,340,853,52571>>,
  <<52586,173,853,53093>>, <<53114,421,857,53623>>, <<53650,330,863,54163>>, <<54188,624,877,54713>>,
  <<54735,233,877,55259>>, <<55289,362,883,55817>>, <<55843,963,907,56393>>, <<56403,471,907,56951>>>>

WithH(rows, h) ==
  [n \in DOMAIN rows |->
     [Kprime |-> rows[n][1], J |-> rows[n][2], S |-> rows[n][3], H |-> h, W |-> rows[n][4]]]

base_param_sets ==
  WithH(Rows_H10, 10) \o WithH(Rows_H11, 11) \o WithH(Rows_H12, 12)
  \o WithH(Rows_H13, 13) \o WithH(Rows_H14, 14) \o WithH(Rows_H15, 15) \o WithH(Rows_H16, 16)

=============================================================================
