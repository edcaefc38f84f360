----------------------------- MODULE RandTables -----------------------------
(* The random tables of src/rfc6330_alg/rand.c, each 32-bit entry as its   *)
(* upper and its lower half.                                               *)
EXTENDS Integers, Sequences

(* Entry x of a table, as a word of Words. *)
Entry(V, x) == <<V[2 * x + 1], V[2 * x + 2]>>

V0 == <<
  3834, 26112, 60306, 17615, 51436, 48932, 62105, 54656, 1886, 30599, 51133, 57995, 49113, 6857,
  30695, 14771, 11819, 33234, 36663, 58693, 15325, 27730, 28136, 27313, 6544, 23548, 57164, 32080,
  24280, 43928, 46798, 62779, 21871, 50879, 7690, 33658, 31015, 58893, 52174, 44520, 42811, 24550,
  47339, 28282, 58115, 46514, 38171, 7419, 60713, 57253, 3754, 21805, 61293, 315, 9914, 19704,
  30135, 60148, 40455, 14886, 35979, 37057, 10522, 35320, 10922, 22980, 41545, 43014, 2928, 49780,
  53947, 49555, 50003, 22961, 22437, 4709, 57420, 24582, 49322, 43039, 1872, 17771, 59827, 30421,
  11936, 9251, 5678, 7902, 45709, 19317, 31214, 57871, 35598, 11574, 61117, 5031, 3335, 33787,
  52114, 38863, 64203, 4998, 13139, 40167, 56100, 5685, 39393, 12296, 50540, 31040, 10394, 51235,
  4689, 8562, 62751, 54404, 17671, 24846, 10821, 62746, 41567, 5521, 64103, 46907, 64330, 39409,
  61780, 62435, 46259, 31237, 29130, 21842, 7797, 841, 20777, 41338, 1972, 6387, 47948, 59459,
  39212, 44851, 46284, 46, 25300, 57206, 14222, 56366, 30247, 22653, 45518, 15123, 45893, 27170,
  52613, 59200, 10433, 12610, 11875, 56777, 21348, 62573, 29592, 62396, 25820, 36483, 59025, 36800,
  21705, 17778, 9049, 58394, 28670, 56745, 38548, 11221, 24285, 61067, 60823, 62726, 60491, 51345,
  41122, 59647, 29633, 21867, 6479, 10655, 20556, 46275, 40728, 29508, 37146, 25618, 38769, 36763,
  21119, 14992, 62920, 55323, 23249, 23754, 41328, 3489, 15972, 30097, 34023, 64688, 19156, 18996,
  64295, 25969, 23213, 52379, 46414, 55585, 6410, 44734, 162, 60259, 7867, 51464, 52757, 19950,
  32284, 57050, 41505, 53086, 49477, 51418, 13035, 48348, 6499, 55523, 4971, 52926, 27417, 50780,
  37578, 32603, 30161, 50394, 21494, 40881, 18750, 17808, 59771, 57747, 4027, 63173, 39577, 18201,
  37714, 26565, 65480, 56639, 9930, 20460, 18182, 8331, 46486, 54839, 37636, 17539, 38848, 40554,
  14788, 22068, 30812, 53560, 34608, 5633, 17842, 51756, 49594, 47625, 60478, 13473, 39074, 1449,
  13903, 35388, 11609, 34985, 54463, 21525, 41004, 5409, 5826, 41929, 39883, 56116, 42130, 47186,
  22226, 64975, 13485, 7131, 50276, 63742, 24484, 15151, 30293, 26150, 15481, 7727, 41579, 38263,
  46730, 20755, 47535, 39293, 2118, 48432, 63482, 41933, 50693, 24682, 31570, 12050, 34293, 65030,
  55992, 32698, 24034, 54383, 12634, 48040, 56945, 53851, 52215, 64212, 51436, 44481, 61136, 18019,
  8297, 60028, 18968, 29323, 59942, 13602, 42594, 3061, 62276, 5336, 34796, 44949, 13513, 28105,
  9406, 20481, 48658, 12748, 42425, 17510, 35705, 51951, 18439, 21272, 3942, 13397, 58562, 43968,
  31662, 8618, 49044, 33628, 50413, 15774, 13440, 9412, 20684, 29093, 3162, 6652, 36938, 34416,
  5476, 48232, 24681, 63752, 49929, 15014, 27025, 43747, 43367, 6650, 26721, 21752, 21683, 13702,
  10045, 7561, 2961, 13743, 49461, 34485, 589, 24556, 4606, 16579, 63722, 56747, 4536, 41634,
  32620, 17793, 22933, 47117, 55990, 15982, 56892, 2924, 3580, 34050, 33776, 45961, 41727, 18260,
  17238, 11910, 48636, 13919, 43627, 39539, 50114, 37307, 58285, 26940, 54283, 36045, 6895, 3756,
  26559, 5457, 54822, 24109, 26083, 54025, 56502, 3307, 53914, 43424, 25049, 49481, 2736, 43762,
  36323, 55984, 60061, 6208, 56232, 35852, 48160, 38456, 28293, 48853, 43665, 11579, 48471, 15842,
  12737, 55522, 5056, 3791, 7901, 58167, 45931, 34868, 61228, 3793, 33831, 39659, 57326, 26401,
  46964, 49886, 31356, 48383, 47019, 5945, 59439, 4508, 17411, 50247, 36258, 56765, 40083, 18767,
  38981, 44260, 6122, 22397, 22278, 38914, 10346, 48496, 16250, 30737, 14357, 9432, 25534, 556,
  8070, 6263, 26131, 26230, 55384, 39828, 20726, 8375 >>

V1 == <<
  12319, 47429, 31174, 53959, 50914, 49892, 19868, 36585, 34768, 52283, 8255, 15340, 25704, 26926,
  5687, 6102, 53531, 44509, 26982, 53653, 19385, 35932, 39719, 5150, 31271, 11017, 59378, 28251,
  32851, 25209, 62786, 16977, 13964, 35606, 57293, 33950, 10688, 55058, 32525, 905, 19972, 23638,
  3424, 42086, 62033, 29319, 55521, 41688, 25625, 25496, 52358, 11338, 27154, 31121, 46821, 33182,
  21729, 31029, 15769, 11280, 61804, 9909, 50388, 7089, 6417, 55861, 43769, 1059, 4756, 170, 3952,
  49687, 61907, 43757, 24038, 12880, 63342, 32841, 1682, 18232, 45881, 8705, 65516, 54037, 53424,
  61308, 15228, 25275, 7618, 35047, 18397, 44918, 45733, 41601, 9771, 65173, 46450, 47511, 7426,
  20415, 40994, 57950, 36537, 37377, 38477, 31405, 762, 55555, 58653, 2859, 64103, 52460, 6346,
  14742, 294, 29257, 36659, 4183, 32609, 55710, 26612, 53252, 8849, 37573, 31092, 17320, 13003,
  9002, 40914, 63809, 15978, 10622, 45504, 23792, 13889, 55534, 63897, 22728, 39518, 18400, 15097,
  51895, 50243, 32776, 7725, 57119, 2685, 46578, 28464, 55264, 39967, 47400, 8618, 40194, 30469,
  53941, 5183, 24505, 62119, 42164, 55221, 2880, 32216, 12350, 16692, 28241, 14617, 38984, 13611,
  64, 28298, 63350, 28585, 60967, 38124, 50231, 41109, 36835, 29408, 56994, 25185, 31569, 2806,
  39031, 46713, 61169, 31545, 54084, 3493, 45316, 59571, 64358, 24352, 62761, 27171, 22716, 37584,
  40939, 4688, 48695, 49406, 58375, 58792, 2727, 36601, 10374, 57283, 39976, 7966, 14351, 2233,
  10586, 62636, 2360, 46225, 14284, 54102, 39311, 5066, 33534, 14902, 10797, 47660, 46663, 46408,
  23684, 34455, 16418, 32644, 20020, 49494, 4189, 49228, 41709, 56060, 56476, 41183, 23101, 52701,
  30838, 29956, 20250, 53556, 8989, 35987, 37826, 11403, 24240, 29866, 50500, 16747, 43058, 37165,
  51774, 59066, 22769, 28821, 20837, 44465, 27285, 63496, 41728, 19426, 11007, 49890, 53788, 56172,
  5624, 6294, 53100, 17639, 44573, 58334, 49418, 16280, 44937, 54906, 10677, 30201, 21201, 31723,
  31367, 18234, 62485, 16357, 14069, 41394, 24331, 51540, 29155, 33327, 32823, 11458, 7376, 39455,
  6999, 64848, 17184, 27962, 61735, 18192, 9280, 14446, 1310, 476, 35552, 48437, 31851, 54159,
  11504, 25061, 32488, 29065, 53714, 13151, 13468, 50015, 42544, 65110, 25758, 47651, 4613, 10168,
  53533, 9829, 35782, 3455, 48515, 4696, 32359, 18251, 8095, 48701, 23103, 11945, 25149, 24543,
  57765, 28193, 29452, 62099, 46812, 59990, 44001, 38550, 58211, 11701, 28403, 32273, 40960, 64993,
  30128, 50715, 25196, 8674, 52913, 57016, 843, 27470, 2978, 61225, 16795, 27, 54510, 426, 61862,
  30881, 22750, 13267, 38984, 6579, 162, 15637, 17591, 28287, 52475, 51781, 18367, 22898, 60286,
  46073, 31432, 20615, 62315, 47255, 29951, 46304, 56044, 38827, 31734, 18782, 45399, 51303, 37390,
  2441, 11417, 7501, 4837, 60941, 43510, 56180, 43142, 13787, 48715, 53940, 50632, 27462, 53585,
  11794, 52565, 13669, 51528, 28976, 65139, 63893, 30452, 1554, 13104, 3580, 31435, 48570, 42097,
  48676, 9356, 8019, 51173, 19635, 35129, 6955, 7494, 28521, 29319, 14078, 58130, 59164, 58198,
  52221, 36482, 21581, 14879, 30075, 59408, 46719, 21670, 12673, 17368, 43074, 7477, 2548, 47462,
  16466, 23652, 64241, 28547, 54837, 172, 6548, 63162, 5677, 46078, 27148, 16442, 50539, 65383,
  3118, 8100, 6903, 26560, 42732, 56110, 56962, 47412, 18845, 56503, 26936, 41860, 48442, 34868,
  57418, 48427, 48400, 20088, 6746, 54970, 3026, 37686, 701, 1901, 20203, 62503, 44279, 55, 10358,
  38152, 58169, 65523, 304, 13877, 17083, 38653, 55543, 55634, 54106, 40216, 32088, 29974, 43155,
  2518, 54983, 12135, 63095, 54976 >>

V2 == <<
  24869, 15108, 4311, 14480, 42641, 63134, 7576, 4062, 45631, 21210, 46855, 12571, 39306, 5167,
  62482, 3620, 42354, 11906, 62247, 61024, 2685, 64565, 34274, 60559, 56949, 7983, 33521, 10819,
  19942, 30366, 63644, 19596, 61635, 34449, 48975, 38669, 51689, 9229, 4471, 51773, 55851, 39367,
  40412, 28, 38626, 13003, 53983, 49524, 11800, 49939, 63853, 21645, 27530, 1741, 51073, 6515,
  53091, 5327, 60585, 17214, 28865, 34658, 36132, 57090, 53979, 20563, 45305, 49930, 64556, 3246,
  12693, 57871, 44797, 21939, 4028, 50460, 1844, 4355, 48833, 6972, 5423, 43543, 35038, 54773,
  23899, 51176, 26857, 26704, 306, 19877, 52293, 29572, 43746, 41904, 35996, 42101, 30903, 55283,
  26332, 2782, 51057, 15854, 41057, 44975, 1523, 3828, 64827, 17705, 34389, 45138, 49959, 31494,
  9125, 8568, 50349, 371, 8492, 47634, 62882, 7104, 44203, 61167, 55238, 45924, 14014, 32125,
  49582, 55246, 34048, 45230, 58033, 21599, 55810, 33786, 39503, 42781, 3696, 41218, 26321, 34419,
  30920, 54598, 713, 49316, 43842, 52091, 44544, 40262, 48491, 26875, 29279, 30616, 38419, 26953,
  28348, 3983, 49350, 60450, 7314, 23383, 3054, 54364, 42754, 19697, 24745, 27449, 7384, 59335,
  6462, 8693, 56295, 46944, 28231, 21581, 51268, 59768, 52792, 55418, 12840, 6459, 54481, 39279,
  14194, 49436, 23872, 45449, 38225, 9197, 9061, 2411, 17037, 35248, 12499, 44720, 47899, 14765,
  21581, 6920, 16423, 63067, 7818, 43397, 2712, 25624, 25956, 8250, 34175, 43619, 7861, 806, 44784,
  48503, 58309, 18988, 21004, 2707, 41210, 6711, 14753, 1039, 15897, 36431, 10923, 10825, 2618,
  19713, 24521, 36001, 18726, 9552, 55650, 57958, 21630, 15461, 62363, 45983, 34205, 47000, 63997,
  28896, 21958, 2446, 312, 17198, 1825, 64951, 30841, 61456, 38929, 11750, 21080, 40178, 62299,
  11771, 7601, 39933, 4753, 15891, 54640, 21597, 44084, 60647, 2177, 47942, 18801, 42418, 51218,
  39734, 45376, 14087, 22428, 55676, 26370, 20984, 21603, 19405, 764, 41499, 47812, 6127, 62166,
  4299, 41359, 37187, 41199, 65406, 37502, 26591, 39868, 56082, 57616, 21579, 37678, 43852, 39064,
  44449, 46096, 48913, 25812, 52479, 64386, 1880, 25751, 54632, 15532, 16470, 35211, 54225, 5626,
  5924, 50093, 31140, 3253, 19421, 63335, 34929, 52539, 16040, 43428, 4564, 62665, 13244, 65192,
  15763, 33560, 28308, 56619, 38497, 7592, 15659, 4350, 56676, 11673, 40585, 13980, 27597, 51919,
  60023, 42248, 19693, 26288, 38729, 51672, 21250, 7445, 4541, 54459, 1983, 52254, 26052, 3323,
  5845, 35964, 1815, 49628, 8806, 2214, 13046, 41085, 41546, 37456, 30719, 19828, 45546, 62869,
  59103, 31874, 22630, 14225, 54729, 22012, 30771, 14535, 21214, 53545, 61630, 11495, 32734, 13037,
  28174, 29816, 25012, 41334, 62858, 61760, 35870, 46522, 60204, 25444, 7825, 12285, 56681, 18036,
  61792, 65087, 4636, 64316, 16151, 51494, 38175, 5699, 43002, 37448, 50962, 36186, 44797, 55711,
  11425, 39976, 11017, 25204, 40174, 23706, 50477, 18729, 29098, 10740, 30872, 56406, 50547, 38948,
  11475, 40220, 54981, 13658, 39796, 50167, 37732, 47286, 38206, 15107, 26422, 57683, 13418, 34955,
  34323, 636, 48532, 29748, 15932, 34850, 30205, 15822, 35578, 25861, 61027, 74, 31032, 7110,
  39238, 42195, 63763, 50639, 9494, 19324, 40361, 59808, 1066, 54098, 46999, 40084, 64964, 57139,
  18890, 25892, 32061, 49601, 33569, 63208, 18220, 13973, 4883, 50483, 34989, 19674, 6196, 44899,
  51467, 17839, 9275, 50998, 23784, 10659, 12734, 20691, 35854, 36650, 49893, 1643, 29584, 56486,
  28867, 13792, 56211, 55642, 27273, 12892, 60802, 29668, 49319, 58958, 23356, 44964, 12615, 30096,
  60157, 26046, 38581, 456, 33051, 53370, 9608 >>

V3 == <<
  18178, 56408, 11366, 20635, 38753, 55627, 49029, 27493, 50141, 20690, 18319, 17181, 37586, 45164,
  11518, 45246, 10904, 46726, 30032, 43820, 55366, 31599, 19495, 2136, 22787, 30102, 5558, 40669,
  31364, 16488, 59714, 51384, 44712, 13833, 13771, 8311, 60532, 25203, 31379, 45259, 10561, 6694,
  2844, 2273, 12708, 3218, 13119, 29032, 19578, 57118, 34380, 56036, 45829, 25861, 26791, 28576,
  34169, 15558, 65171, 9696, 33338, 9301, 11737, 32060, 19061, 49058, 18207, 55253, 40589, 53398,
  9811, 5917, 25742, 60282, 41597, 5190, 6811, 37217, 62899, 37742, 57546, 12626, 574, 49472, 2941,
  34049, 54606, 43371, 29795, 13976, 60876, 14864, 46829, 28538, 44258, 23870, 61726, 41200, 46648,
  39923, 25972, 3827, 62814, 35116, 54557, 24832, 40802, 23245, 21501, 37187, 49058, 30341, 21831,
  10013, 38825, 62168, 15709, 60652, 28317, 18915, 65035, 50867, 28294, 51297, 44353, 10385, 50015,
  53517, 42536, 57706, 42531, 21769, 47385, 7378, 37797, 9000, 11414, 10669, 16607, 40163, 24585,
  2293, 3081, 47589, 57156, 42764, 55766, 2973, 58229, 25133, 59750, 7622, 39111, 20226, 18022,
  59263, 505, 62404, 56809, 13221, 57834, 61882, 58478, 996, 45160, 11737, 5690, 868, 19634, 4675,
  29486, 44603, 56117, 64597, 37455, 60302, 42081, 36053, 32562, 43823, 42420, 15345, 48680, 55138,
  57350, 20538, 55333, 25963, 17101, 11971, 24773, 62365, 21207, 12150, 41492, 10663, 46365, 32363,
  7058, 64502, 3971, 10733, 56554, 26820, 39013, 6776, 43857, 59944, 38183, 38198, 64335, 5418,
  40945, 59660, 33089, 39831, 54344, 18791, 10194, 21742, 10382, 17578, 56864, 54842, 63791, 23661,
  50890, 43913, 14375, 60968, 41379, 36941, 31421, 26756, 65089, 23574, 48894, 56350, 3553, 5648,
  13455, 1433, 34458, 12684, 31182, 52432, 57354, 43406, 55165, 47885, 32636, 4785, 20617, 52825,
  44612, 441, 51917, 50273, 32125, 39425, 35808, 59663, 7617, 57611, 52152, 12534, 36104, 5070,
  38804, 31639, 27901, 31698, 48045, 19124, 58805, 40387, 20824, 16017, 33579, 54427, 41042, 47176,
  3551, 2289, 62128, 36710, 40771, 727, 53885, 7671, 18506, 42925, 13243, 30063, 57069, 35727,
  29344, 58149, 49393, 52129, 47313, 24487, 49558, 23728, 13835, 52006, 61762, 6143, 61145, 12852,
  53340, 9865, 17872, 25870, 43269, 5471, 24937, 29997, 47533, 47237, 34940, 46866, 34369, 43395,
  14417, 47585, 5675, 16691, 25162, 57669, 33700, 54214, 38517, 55869, 38094, 41460, 40695, 49640,
  19188, 46026, 51867, 63333, 48750, 14295, 25074, 223, 5232, 27121, 13595, 63813, 48017, 19723,
  57818, 21078, 14325, 44612, 28298, 42455, 32236, 35298, 45176, 48652, 18899, 38514, 33649, 59771,
  25433, 6926, 38456, 22198, 51200, 50526, 35261, 7382, 48125, 489, 41898, 55263, 18313, 42390,
  46289, 16511, 35272, 64375, 15993, 11885, 64189, 19880, 64226, 61605, 40297, 46087, 31988, 16609,
  62818, 58641, 55404, 61307, 62629, 34029, 28345, 32583, 58000, 14932, 6802, 31062, 46625, 38640,
  13700, 55079, 49347, 2407, 20225, 29330, 45505, 31509, 24704, 19131, 41504, 34712, 13505, 32490,
  53180, 51019, 45520, 3749, 59372, 7732, 8339, 18052, 23261, 6309, 40349, 5825, 33112, 48768,
  45312, 51484, 14666, 32542, 16507, 28322, 15823, 39219, 50186, 26590, 35579, 43325, 9473, 64867,
  4624, 4190, 60882, 65193, 23845, 50456, 52083, 30304, 31427, 47897, 43088, 29264, 10293, 33253,
  37500, 39984, 62206, 22300, 37349, 33840, 24159, 39100, 9546, 20478, 46936, 8695, 5276, 10054,
  25710, 23585, 13415, 61889, 52431, 64164, 23228, 3011, 58022, 14025, 22217, 3728, 28958, 28359,
  45319, 55145, 21096, 28572, 58289, 16957, 15936, 46471, 9342, 15287, 50971, 42939, 32815, 50064,
  51843, 42814, 54529, 23096, 52372, 23800 >>

=============================================================================
